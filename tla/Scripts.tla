------------------------------ MODULE Scripts ------------------------------
(***************************************************************************)
(* Scripts of different pages, which share nothing: one of them runs.      *)
(***************************************************************************)
EXTENDS Marathon, LogWindow, PanelLoading, GridData, Almond, JsDump, TextDiff

VARIABLE script   \* the one that runs

AllVars == << marathonVars, logVars, panelVars, gridVars, almondVars, compared, dumped, diffed >>
vars == << AllVars, script >>

\* The others stand still.
Others ==
  /\ UNCHANGED script
  /\ script # "marathon" => UNCHANGED marathonVars
  /\ script # "log" => UNCHANGED logVars
  /\ script # "panel" => UNCHANGED panelVars
  /\ script # "grid" => UNCHANGED gridVars
  /\ script # "almond" => UNCHANGED almondVars
  /\ script # "equiv" => UNCHANGED compared
  /\ script # "dump" => UNCHANGED dumped
  /\ script # "diff" => UNCHANGED diffed

Init ==
  /\ script \in {"marathon", "log", "panel", "grid", "almond", "equiv", "dump", "diff"}
  /\ MarathonInit /\ LogInit /\ PanelInit /\ GridInit /\ AlmondInit
  /\ EquivInit /\ DumpInit /\ DiffInit

Next ==
  \/ script = "marathon" /\ MarathonNext /\ Others
  \/ script = "log" /\ LogNext /\ Others
  \/ script = "panel" /\ PanelNext /\ Others
  \/ script = "grid" /\ GridNext /\ Others
  \/ script = "almond" /\ AlmondNext /\ Others
  \/ script = "equiv" /\ EquivNext /\ Others
  \/ script = "dump" /\ DumpNext /\ Others
  \/ script = "diff" /\ DiffNext /\ Others

Spec == Init /\ [][Next]_vars

\* Animations go on, and nothing else is assumed.
FairSpec == Spec /\ WF_vars(script = "panel" /\ Fade /\ Others)

\* The variables of every script have their types, counters within their
\* bounds, and what one refers to exists.
TypeOK ==
  /\ MarathonTypeOK /\ LogTypeOK /\ PanelTypeOK /\ GridTypeOK
  /\ AlmondTypeOK /\ EquivTypeOK /\ DumpTypeOK /\ DiffTypeOK

\* The windows that show a stream or a page of data show it whole and in order:
\* the log up to its limit, the last page of the grid too (appendTextArea,
\* StaticDataSource.data).
WindowsShow == TypeOK /\ LogPrefix /\ GridShowsAsked

\* What QUnit computes about values and texts is what its definition says:
\* equality, the dump of a value, the difference of two texts.
ReportsValues == EquivIsSameShape /\ DumpFaithful /\ DiffRestores /\ DiffMaximal
=============================================================================
