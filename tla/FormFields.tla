----------------------------- MODULE FormFields -----------------------------
(***************************************************************************)
(* The fields of a form as the form plugin (jquery/jquery.form.js) reads   *)
(* and clears them.  A field has a name, a type and whether it is disabled *)
(* (val: the values it holds now, in order: the text, the checked value,   *)
(* the selected options, the chosen files).  What is sent is a set of      *)
(* pairs of a name and a value.                                            *)
(*                                                                         *)
(* Left out: options without a value attribute, which old IE reads as      *)
(* their text, and the rename of a file input by clone() there.            *)
(***************************************************************************)
EXTENDS Integers, Sequences

CONSTANTS
  Elements,  \* 1..n: the fields in document order
  Name,      \* element -> its name, "" when it has none
  Type,      \* element -> "text", "hidden", "checkbox", "select", "file",
             \*            "submit", "image", "button"
  Initial,   \* element -> the values it holds when the page is loaded
  NONE       \* no element clicked

ASSUME FieldsAssumption ==
  /\ Initial \in Seq(Seq(STRING)) /\ Elements = 1..Len(Initial)
  /\ DOMAIN Name = Elements /\ DOMAIN Type = Elements
  /\ NONE \notin Elements

Buttons == {e \in Elements : Type[e] \in {"submit", "image"}}

\* What a field can hold: what it had, nothing, or what the user types.
Texts == {"", "typed"} \cup UNION {{Initial[e][i] : i \in DOMAIN Initial[e]} : e \in Elements}

InitialForm == [e \in Elements |-> [val |-> Initial[e], disabled |-> FALSE]]

\* $.fieldValue(el, true): the values of a successful field.
fieldValue(form, clk, e) ==
  IF \/ Name[e] = ""
     \/ form[e].disabled
     \/ Type[e] = "button"
     \/ e \in Buttons /\ clk # e
    THEN << >> ELSE form[e].val

\* The files of a file field: all of them with the file API, the path of one
\* without it, and an empty value when there is none.
FileValues(form, e, fileApi) ==
  CASE form[e].val = << >> -> << "" >>
    [] form[e].val # << >> /\ ~fileApi -> << Head(form[e].val) >>
    [] OTHER -> form[e].val

Pairs(e, values) == {<< Name[e], values[i] >> : i \in DOMAIN values}

\* An image that was clicked sends where.
Clicked(form, clk) ==
  IF clk = NONE THEN {}
  ELSE IF Name[clk] = "" \/ form[clk].disabled THEN {}
  ELSE Pairs(clk, form[clk].val)
       \cup (IF Type[clk] = "image" THEN {<< Name[clk], "x" >>, << Name[clk], "y" >>}
                                    ELSE {})

\* What formToArray takes from one element.
ElementValues(form, clk, fileApi, e) ==
  IF Type[e] = "file" /\ Name[e] # "" /\ ~form[e].disabled
    THEN FileValues(form, e, fileApi) ELSE fieldValue(form, clk, e)

FieldPairs(form, clk, fileApi) ==
  UNION {Pairs(e, ElementValues(form, clk, fileApi, e)) :
           e \in {d \in Elements : Type[d] # "image"}}

\* formToArray: images are not among the elements of a form and are added
\* at the end.
formToArray(form, clk, fileApi) ==
  FieldPairs(form, clk, fileApi)
  \cup (IF clk # NONE /\ Type[clk] = "image" THEN Clicked(form, clk) ELSE {})

\* The elements that formToArray has taken in.
Serialized(form, clk) ==
  {e \in Elements : Type[e] # "image" /\ Name[e] # "" /\ ~form[e].disabled
                    /\ (Type[e] = "file" \/ fieldValue(form, clk, e) # << >>)}

hasFileInputs(form) ==
  \E e \in Elements : Type[e] = "file" /\ ~form[e].disabled /\ form[e].val # << >>

\* The pairs of the files there are.
FilePairs(form) ==
  UNION {Pairs(e, form[e].val) :
           e \in {f \in Elements : Type[f] = "file" /\ Name[f] # "" /\ ~form[f].disabled}}

\* $.param(a): of a file only a text gets into the string, the path or
\* "[object File]", not what is in the file.
param(a, form) ==
  {IF p \in FilePairs(form) THEN << p[1], p[2], "text" >> ELSE p : p \in a}

\* Every element of S enabled or disabled ($.fn.enable, prop("disabled")).
enable(form, S, b) ==
  [e \in Elements |-> IF e \in S THEN [form[e] EXCEPT !.disabled = ~b] ELSE form[e]]

\* clearFields: texts, boxes, selections and files; hidden fields on demand.
clearForm(form, includeHidden) ==
  [e \in Elements |->
    CASE Type[e] = "text" \/ (Type[e] = "hidden" /\ includeHidden) ->
           [form[e] EXCEPT !.val = << "" >>]
      [] Type[e] \in {"checkbox", "select", "file"} ->
           [form[e] EXCEPT !.val = << >>]
      [] OTHER -> form[e]]

\* form.reset(); a file field cannot be given a file, and is empty then.
resetForm(form) ==
  [e \in Elements |->
    [form[e] EXCEPT !.val = IF Type[e] = "file" THEN << >> ELSE Initial[e]]]

\* External: what the browser sends for form.submit(); buttons send nothing.
BrowserPairs(form) ==
  UNION {Pairs(e, IF Type[e] = "file" /\ form[e].val = << >> THEN << "" >>
                  ELSE form[e].val) :
           e \in {f \in Elements \ Buttons : Type[f] # "button" /\ Name[f] # ""
                                             /\ ~form[f].disabled}}
=============================================================================
