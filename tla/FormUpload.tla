----------------------------- MODULE FormUpload -----------------------------
(***************************************************************************)
(* The form plugin of the web console (jquery/jquery.form.js): ajaxSubmit  *)
(* on one form, called several times.  A submit goes by $.ajax, or into a  *)
(* hidden iframe that the plugin dresses up as a request: it starts after  *)
(* a 10 ms timer, and load events, a poll for server aborts, a timeout and *)
(* the page's own abort compete to answer it.                              *)
(*                                                                         *)
(* Left out: dataType and the parsing of the response, of which only good  *)
(* or bad remains; extra data of the options; target; the Rails token;     *)
(* forms submitted by GET; callbacks of the page that throw.               *)
(***************************************************************************)
EXTENDS FormFields, FiniteSets

CONSTANTS
  Uploads,      \* 1..n: the calls of ajaxSubmit, in this order
  OptionSets,   \* the options the page may pass: upload -> options
  Browsers,     \* [fileApi |-> BOOLEAN, opera |-> BOOLEAN]
  MaxDomChecks, \* domCheckCount at the start (50)
  MaxEdits      \* how often the user types

VARIABLES
  browser,
  opt,        \* upload -> its options
  form,       \* the fields
  multipart,  \* the enctype of the form is multipart/form-data
  clk,        \* form.clk
  clkTimers,  \* timers of 100 ms that will clear it
  up,         \* the uploads
  active,     \* $.active
  busy,       \* ajaxStart has been triggered, and ajaxStop not since
  touched,    \* uploads whose form was changed before it was sent
  edits

pageVars == << browser, opt, multipart, clk, clkTimers, edits >>
vars == << pageVars, form, up, active, busy, touched >>

Options ==
  [iframe : {"yes", "no", "auto"}, timeout : BOOLEAN, global : BOOLEAN,
   clearForm : BOOLEAN, resetForm : BOOLEAN, includeHidden : BOOLEAN,
   keepAlive : BOOLEAN, iframeTarget : BOOLEAN, forceSync : BOOLEAN,
   click : Buttons \cup {NONE},  \* the element the user submits with
   disables : BOOLEAN,           \* beforeSubmit disables the fields
   aborts : Nat]                 \* how often the page may call abort

ASSUME UploadAssumption ==
  /\ Uploads \subseteq Nat
  /\ OptionSets \subseteq [Uploads -> Options]
  /\ Browsers \subseteq [fileApi : BOOLEAN, opera : BOOLEAN]
  /\ MaxDomChecks \in Nat \ {0} /\ MaxEdits \in Nat
  \* Before the file API a file field had no more than one file.
  /\ \A b \in Browsers, e \in Elements :
       ~b.fileApi /\ Type[e] = "file" => Len(Initial[e]) <= 1

Idle ==
  [phase |-> "idle", validated |-> {}, extra |-> {}, sent |-> {},
   aborted |-> FALSE, processed |-> FALSE, timer |-> FALSE, polling |-> FALSE,
   requeued |-> FALSE, listening |-> FALSE, attached |-> FALSE, cleanup |-> FALSE,
   inflight |-> FALSE, doc |-> "none", loads |-> 0, domChecks |-> MaxDomChecks,
   success |-> 0, errors |-> 0, complete |-> 0, deferred |-> "pending", aborts |-> 0]

\* The first of resolve and reject counts.
Settle(w, how) == IF w.deferred = "pending" THEN [w EXCEPT !.deferred = how] ELSE w

\* The uploads that are yet to read the form, which becomes f, or what was
\* clicked: they will send something other than what was validated.
Disturbed(f) ==
  {u \in Uploads : \/ f # form /\ up[u].phase \in {"keepAlive", "ready"}
                   \/ clk' # clk /\ up[u].phase = "keepAlive"}

Becomes(f) == form' = f /\ touched' = touched \cup Disturbed(f)

\* The callbacks ajaxSubmit puts before the page's success.
AfterSuccess(u) ==
  LET f == IF opt[u].resetForm THEN resetForm(form) ELSE form
  IN IF opt[u].clearForm THEN clearForm(f, opt[u].includeHidden) ELSE f

-----------------------------------------------------------------------------
(* ajaxSubmit.                                                             *)

Starting(u) ==
  up[u].phase = "idle" /\ \A v \in Uploads : v < u => up[v].phase # "idle"

\* captureSubmittingElement, when the submit comes from a click.
captureSubmittingElement(u) ==
  IF opt[u].click = NONE THEN UNCHANGED << clk, clkTimers >>
  ELSE clk' = opt[u].click /\ clkTimers' = clkTimers + 1

\* What a page disables in beforeSubmit against a second click.  An image is
\* not among the elements that are enabled again: its click would be lost.
AfterBeforeSubmit(u) ==
  enable(form, {e \in Elements : opt[u].disables /\ Type[e] # "image"}, FALSE)

\* One of the four hooks says no.
Veto(u) ==
  /\ Starting(u)
  /\ captureSubmittingElement(u)
  /\ up' = [up EXCEPT ![u].phase = "vetoed"]
  /\ Becomes(form)
  /\ UNCHANGED << browser, opt, multipart, edits, active, busy >>

\* Files are looked for among the fields that beforeSubmit has left enabled.
HasFiles(u) == hasFileInputs(AfterBeforeSubmit(u)) \/ multipart

UsesFrame(u) ==
  \/ opt[u].iframe = "yes"
  \/ opt[u].iframe = "auto" /\ HasFiles(u) /\ ~browser.fileApi

\* The fields that were serialized are enabled again before the upload.
enableNone(f, S) == f
enableSerialized(f, S) == enable(f, S, TRUE)

Opened(u) ==
  /\ active' = IF opt[u].global THEN active + 1 ELSE active
  /\ busy' = (busy \/ (opt[u].global /\ active = 0))

\* xhr.abort: back to the blank page, error and complete.
abort(w) ==
  [w EXCEPT !.aborted = TRUE, !.errors = @ + 1, !.complete = @ + 1,
            !.inflight = FALSE,
            !.doc = IF w.attached THEN "blank" ELSE @,
            !.loads = IF w.listening THEN @ + 1 ELSE @]

SubmittedAfresh(u, w, f) ==
  [w EXCEPT !.phase = "submitted", !.timer = opt[u].timeout, !.polling = TRUE,
            !.attached = TRUE, !.listening = ~opt[u].iframeTarget,
            !.loads = IF opt[u].iframeTarget THEN 0 ELSE 1,
            !.doc = "blank", !.inflight = TRUE, !.aborted = FALSE,
            !.sent = BrowserPairs(f) \cup w.extra]

\* doSubmit of an upload w, with the fields as f has them.  The enctype it
\* sets stays.
Submitted(u, w, f) ==
  [w EXCEPT !.phase = "submitted", !.timer = opt[u].timeout, !.polling = TRUE,
            !.attached = TRUE, !.listening = ~opt[u].iframeTarget,
            !.loads = IF opt[u].iframeTarget THEN 0 ELSE 1,
            !.doc = "blank", !.inflight = TRUE,
            !.sent = BrowserPairs(f) \cup w.extra]

\* fileUploadIframe(a) of an upload w: beforeSend lets it go on, says no (then
\* $.active goes down again, without ajaxStop), or calls abort.
fileUploadIframe(u, w, f, by) ==
  \/ /\ up' = [up EXCEPT ![u] =
           LET ready == [w EXCEPT !.phase = "ready", !.extra = Clicked(f, by)]
           IN IF opt[u].forceSync THEN Submitted(u, ready, f) ELSE ready]
     /\ multipart' = (multipart \/ opt[u].forceSync)
     /\ Opened(u)
  \/ /\ up' = [up EXCEPT ![u] = Settle([w EXCEPT !.phase = "vetoed"], "rejected")]
     /\ busy' = (busy \/ (opt[u].global /\ active = 0))
     /\ UNCHANGED << active, multipart >>
  \/ /\ w.aborts < opt[u].aborts
     /\ up' = [up EXCEPT ![u] =
           Settle(abort([w EXCEPT !.phase = "vetoed", !.aborts = @ + 1]), "rejected")]
     /\ Opened(u)
     /\ UNCHANGED multipart

\* The submit goes through an iframe.
SubmitFrame(u) ==
  /\ Starting(u) /\ UsesFrame(u) /\ ~opt[u].keepAlive
  /\ captureSubmittingElement(u)
  /\ LET f == enableSerialized(AfterBeforeSubmit(u), Serialized(form, clk'))
         w == [up[u] EXCEPT !.validated = formToArray(form, clk', browser.fileApi)]
     IN Becomes(f) /\ fileUploadIframe(u, w, f, clk')
  /\ UNCHANGED << browser, opt, edits >>

\* closeKeepAlive: the upload waits for the answer of a request of its own.
SubmitKeepAlive(u) ==
  /\ Starting(u) /\ UsesFrame(u) /\ opt[u].keepAlive
  /\ captureSubmittingElement(u)
  /\ up' = [up EXCEPT ![u].phase = "keepAlive",
                      ![u].validated = formToArray(form, clk', browser.fileApi)]
  /\ Becomes(AfterBeforeSubmit(u))
  /\ UNCHANGED << browser, opt, multipart, edits, active, busy >>

\* By then ajaxSubmit has dropped the list of elements to enable.
KeepAliveAnswers(u) ==
  /\ up[u].phase = "keepAlive"
  /\ fileUploadIframe(u, up[u], form, clk)
  /\ UNCHANGED << browser, opt, clk, clkTimers, edits, form, touched >>

\* Otherwise the data that was validated goes to $.ajax: with the files as form
\* data (fileUploadXhr), or as a string.
SubmitAjax(u) ==
  /\ Starting(u) /\ ~UsesFrame(u)
  /\ captureSubmittingElement(u)
  /\ Becomes(AfterBeforeSubmit(u))
  /\ LET a == formToArray(form, clk', browser.fileApi)
     IN up' = [up EXCEPT
          ![u].phase = "ajax", ![u].validated = a,
          ![u].sent = IF HasFiles(u) /\ browser.fileApi THEN a ELSE param(a, form)]
  /\ Opened(u)
  /\ UNCHANGED << browser, opt, multipart, edits >>

ClosedStops(u) ==
  /\ active' = IF opt[u].global THEN active - 1 ELSE active
  /\ busy' = (busy /\ ~opt[u].global)

\* ajaxStop when the last request is over.
Closed(u) ==
  /\ active' = IF opt[u].global THEN active - 1 ELSE active
  /\ busy' = (busy /\ ~(opt[u].global /\ active' = 0))

AnsweredResolved(w, ok) ==
  Settle([w EXCEPT !.success = IF ok THEN @ + 1 ELSE @,
                   !.errors = IF ok THEN @ ELSE @ + 1,
                   !.complete = @ + 1], "resolved")

\* The calls that end a request w.
Answered(w, ok) ==
  Settle([w EXCEPT !.success = IF ok THEN @ + 1 ELSE @,
                   !.errors = IF ok THEN @ ELSE @ + 1,
                   !.complete = @ + 1], IF ok THEN "resolved" ELSE "rejected")

\* External: $.ajax answers.
AjaxAnswers(u, ok) ==
  /\ up[u].phase = "ajax"
  /\ UNCHANGED pageVars
  /\ up' = [up EXCEPT ![u] = [Answered(@, ok) EXCEPT !.phase = "answered"]]
  /\ Becomes(IF ok THEN AfterSuccess(u) ELSE form)
  /\ Closed(u)

-----------------------------------------------------------------------------
(* fileUploadIframe.                                                       *)

\* doSubmit, 10 ms later: also of an upload that was aborted meanwhile.
doSubmit(u) ==
  /\ up[u].phase = "ready"
  /\ up' = [up EXCEPT ![u] = Submitted(u, @, form)]
  /\ multipart' = TRUE
  /\ UNCHANGED << browser, opt, clk, clkTimers, edits, form, active, busy, touched >>

UserAbort(u) ==
  /\ up[u].phase \in {"ready", "submitted"} /\ up[u].aborts < opt[u].aborts
  /\ up' = [up EXCEPT ![u] = abort([up[u] EXCEPT !.aborts = @ + 1])]
  /\ UNCHANGED << pageVars, form, active, busy, touched >>

cbIgnoresProcessed(w) == w.processed

cbIgnores(w) == w.aborted \/ w.processed

\* The callback of the iframe, of the poll and of the timeout; w is the upload
\* after the event that called it.
cb(u, w, e) ==
  IF \/ cbIgnores(w)
     \/ w.doc = "blank" /\ e = "load"
     \/ w.doc = "empty" /\ e = "load" /\ browser.opera /\ w.domChecks > 1
     \/ w.doc = "denied" \/ e \in {"timeout", "server"}
    THEN /\ up' = [up EXCEPT ![u] =
              CASE cbIgnores(w) \/ (w.doc = "blank" /\ e = "load") -> w
                [] ~cbIgnores(w) /\ (w.doc = "denied" \/ e # "load") ->
                     Settle(abort(w), "rejected")
                [] OTHER -> [w EXCEPT !.listening = FALSE, !.loads = 0,
                                      !.requeued = TRUE, !.domChecks = @ - 1]]
         /\ UNCHANGED << form, active, busy, touched >>
    ELSE /\ up' = [up EXCEPT ![u] =
              [Answered(w, w.doc \in {"good", "empty"}) EXCEPT
                 !.listening = FALSE, !.loads = 0, !.processed = TRUE,
                 !.timer = FALSE, !.cleanup = TRUE]]
         /\ Becomes(IF w.doc \in {"good", "empty"} THEN AfterSuccess(u) ELSE form)
         /\ Closed(u)

\* External: the response arrives in the iframe, or a page of another origin
\* in its place, which the plugin cannot read.
Responds(u, doc) ==
  /\ up[u].inflight
  /\ up' = [up EXCEPT ![u] = [up[u] EXCEPT !.inflight = FALSE, !.doc = doc,
                                           !.loads = IF up[u].listening THEN @ + 1 ELSE @]]
  /\ UNCHANGED << pageVars, form, active, busy, touched >>

Load(u) ==
  /\ up[u].loads > 0
  /\ UNCHANGED pageVars
  /\ cb(u, [up[u] EXCEPT !.loads = @ - 1], "load")

\* Opera: the DOM was not there when the load event came.
RequeuedLoad(u) ==
  /\ up[u].requeued
  /\ UNCHANGED pageVars
  /\ cb(u, [up[u] EXCEPT !.requeued = FALSE], "load")

TimeoutAsLoad(u) ==
  /\ up[u].timer
  /\ UNCHANGED pageVars
  /\ cb(u, [up[u] EXCEPT !.timer = FALSE], "load")

TimeoutFires(u) ==
  /\ up[u].timer
  /\ UNCHANGED pageVars
  /\ cb(u, [up[u] EXCEPT !.timer = FALSE], "timeout")

\* checkState: a document that cannot be read is a server abort; one that is
\* not initialized is looked at again.
checkState(u) ==
  /\ up[u].polling
  /\ UNCHANGED pageVars
  /\ \/ /\ up[u].doc = "blank"
        /\ UNCHANGED << up, form, active, busy, touched >>
     \/ /\ up[u].doc # "denied"
        /\ up' = [up EXCEPT ![u].polling = FALSE]
        /\ UNCHANGED << form, active, busy, touched >>
     \/ /\ up[u].doc = "denied"
        /\ cb(u, [up[u] EXCEPT !.polling = FALSE, !.timer = FALSE], "server")

Cleanup(u) ==
  /\ up[u].cleanup
  /\ up' = [up EXCEPT ![u] = [@ EXCEPT !.cleanup = FALSE, !.attached = FALSE]]
  /\ UNCHANGED << pageVars, form, active, busy, touched >>

-----------------------------------------------------------------------------
(* The page and the user.                                                  *)

ClearClk ==
  /\ clkTimers > 0
  /\ clkTimers' = clkTimers - 1 /\ clk' = NONE
  /\ Becomes(form)
  /\ UNCHANGED << browser, opt, multipart, edits, up, active, busy >>

Edit(e) ==
  /\ Type[e] = "text" /\ ~form[e].disabled /\ edits < MaxEdits
  /\ edits' = edits + 1
  /\ UNCHANGED << browser, opt, multipart, clk, clkTimers, up, active, busy >>
  /\ Becomes([form EXCEPT ![e].val = << "typed" >>])

PageEnables ==
  /\ \E e \in Elements : form[e].disabled
  /\ UNCHANGED << pageVars, up, active, busy >>
  /\ Becomes(enable(form, Elements, TRUE))

-----------------------------------------------------------------------------
Init ==
  /\ browser \in Browsers /\ opt \in OptionSets
  /\ form = InitialForm /\ multipart = FALSE
  /\ clk = NONE /\ clkTimers = 0 /\ edits = 0
  /\ up = [u \in Uploads |-> Idle]
  /\ active = 0 /\ busy = FALSE /\ touched = {}

Submit(u) == Veto(u) \/ SubmitFrame(u) \/ SubmitKeepAlive(u) \/ SubmitAjax(u)

Answer(u) == \E ok \in BOOLEAN : AjaxAnswers(u, ok)

Next ==
  \/ \E u \in Uploads :
       \/ Submit(u) \/ Answer(u) \/ KeepAliveAnswers(u)
       \/ doSubmit(u) \/ UserAbort(u)
       \/ \E doc \in {"good", "bad", "empty", "denied"} : Responds(u, doc)
       \/ Load(u) \/ RequeuedLoad(u) \/ TimeoutFires(u) \/ checkState(u) \/ Cleanup(u)
  \/ ClearClk \/ PageEnables
  \/ \E e \in Elements : Edit(e)

Spec == Init /\ [][Next]_vars

\* Timers fire, and $.ajax and the keep-alive request answer.
FairSpec ==
  /\ Spec
  /\ \A u \in Uploads : WF_vars(doSubmit(u)) /\ WF_vars(TimeoutFires(u))
                        /\ WF_vars(Answer(u)) /\ WF_vars(KeepAliveAnswers(u))

-----------------------------------------------------------------------------
(* Properties.                                                             *)

\* Every variable has its type; $.active is never decremented below zero, by
\* whatever mixture of vetoes, answers and errors.
TypeOK ==
  /\ form \in [Elements -> [val : Seq(Texts), disabled : BOOLEAN]]
  /\ clk \in Buttons \cup {NONE}
  /\ active \in Nat /\ clkTimers \in Nat
  /\ {busy, multipart} \subseteq BOOLEAN
  /\ touched \subseteq Uploads

\* A request has one answer: error or success, never both and neither twice,
\* and complete as often as the two together.  Only an abort by the page adds
\* an error of its own.
OneAnswer ==
  \A u \in Uploads :
    LET w == up[u]
    IN /\ w.complete = w.success + w.errors
       /\ w.complete <= 1 + w.aborts
       /\ w.success <= 1

\* The deferred object says what the callbacks said.
DeferredAgrees ==
  \A u \in Uploads :
    LET w == up[u]
    IN /\ w.deferred = "resolved" <=> w.success = 1
       /\ w.deferred = "rejected" => w.errors > 0 \/ w.phase = "vetoed"
       /\ w.errors > w.aborts => w.deferred = "rejected"

\* After an error, also the one of an abort by the page, the timeout or the
\* poll, the page never hears of a success of the same upload.
ErrorIsFinal ==
  [][\A u \in Uploads : up[u].errors > 0 => up'[u].success = up[u].success]_vars

Pending(u) ==
  /\ opt[u].global
  /\ up[u].phase \in {"ready", "submitted", "ajax"}
  /\ ~up[u].aborted /\ ~up[u].processed

\* The page's activity indicator, which listens to ajaxStart and ajaxStop, is
\* on while a request is pending.
BusyWhilePending ==
  /\ (\E u \in Uploads : Pending(u)) => busy
  /\ active >= Cardinality({u \in Uploads : Pending(u)})

\* An iframe upload that waited for its keep-alive request: what beforeSubmit
\* disabled is not enabled again, KeepAliveAnswers.
StaysDisabled(u) == opt[u].keepAlive /\ opt[u].disables

\* The files may go as text: beforeSubmit disabled them, so that ajaxSubmit does
\* not see them, or the browser has neither the file API nor may use an iframe.
FilesAsText(u) == opt[u].disables \/ (opt[u].iframe = "no" /\ ~browser.fileApi)

\* What an iframe upload of u sends, after a was validated.
SendsOnly(u, sent, a) == IF StaysDisabled(u) THEN sent \subseteq a ELSE sent = a

\* What a request by $.ajax sends: every name with its value, the files whole or,
\* in the cases above, as text.
SendsAll(u, sent, a) ==
  /\ {<< p[1], p[2] >> : p \in sent} = a
  /\ sent # a => FilesAsText(u)

\* The server gets what beforeSubmit has seen, disabled fields included, unless
\* the form, or what was clicked, was changed before an iframe upload read it.
\* Two more cases are excused by name: StaysDisabled, where the server gets
\* less, and FilesAsText, where of a file it gets the name (ajaxSubmit).
SentAsValidated ==
  \A u \in Uploads \ touched :
    LET w == up[u]
    IN /\ w.phase = "submitted" => SendsOnly(u, w.sent, w.validated)
       /\ w.phase \in {"ajax", "answered"} => SendsAll(u, w.sent, w.validated)

\* An upload with a timeout is answered, whatever the server and the iframe do.
UploadEnds ==
  \A u \in Uploads :
    up[u].phase = "ready" /\ opt[u].timeout ~> up[u].complete > 0

\* $.active and the indicator follow the requests of the page (ajaxStart,
\* ajaxStop and the paths of cb and abort that pass them by).
RequestsCounted == TypeOK /\ BusyWhilePending
=============================================================================
