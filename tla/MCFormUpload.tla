---------------------------- MODULE MCFormUpload ----------------------------
EXTENDS FormUpload, TLC

\* A text, a hidden field, a file, two ways to submit, a box and a selection.
McName == << "t", "h", "f", "go", "map", "c", "s" >>
McType == << "text", "hidden", "file", "submit", "image", "checkbox", "select" >>
McInitial == << << "a" >>, << "k" >>, << "doc" >>, << "go" >>, << "map" >>,
                << "on" >>, << "p", "q" >> >>

Plain == [iframe |-> "auto", timeout |-> TRUE, global |-> TRUE, clearForm |-> FALSE,
          resetForm |-> FALSE, includeHidden |-> FALSE, keepAlive |-> FALSE,
          iframeTarget |-> FALSE, forceSync |-> FALSE, click |-> NONE,
          disables |-> FALSE, aborts |-> 0]

\* Two uploads of one form: one that clears it, one that may be aborted, one
\* that waits for a keep-alive, one into a frame of the page, one at once.
McOptionSets ==
  {<< [Plain EXCEPT !.clearForm = TRUE, !.includeHidden = TRUE, !.click = 5],
      [Plain EXCEPT !.disables = TRUE, !.timeout = FALSE] >>,
   << [Plain EXCEPT !.iframe = "no", !.resetForm = TRUE],
      [Plain EXCEPT !.iframe = "yes", !.keepAlive = TRUE, !.disables = TRUE, !.aborts = 1,
                    !.click = 5] >>,
   << [Plain EXCEPT !.iframe = "yes", !.iframeTarget = TRUE, !.global = FALSE,
                    !.click = 4, !.aborts = 1],
      [Plain EXCEPT !.iframe = "no", !.clearForm = TRUE] >>,
   << [Plain EXCEPT !.iframe = "yes", !.forceSync = TRUE, !.disables = TRUE,
                    !.global = FALSE, !.aborts = 1],
      [Plain EXCEPT !.click = 5, !.iframe = "no"] >>,
   << [Plain EXCEPT !.keepAlive = TRUE, !.click = 5, !.timeout = FALSE],
      [Plain EXCEPT !.click = 4, !.iframe = "no"] >>}

McBrowsers == {[fileApi |-> FALSE, opera |-> TRUE], [fileApi |-> TRUE, opera |-> FALSE]}
=============================================================================
