-------------------------------- MODULE Amd --------------------------------
(***************************************************************************)
(* What an asynchronous module loader promises the scripts of a page: the  *)
(* factory of a module runs once, not before the modules it depends on,    *)
(* and the callback of a require runs once, after all it asked for.        *)
(*                                                                         *)
(* Two modules that need each other cannot both come second: a dependency  *)
(* that leads back to the module may be missing.  So may one that can      *)
(* never be complete because something below it has failed.                *)
(***************************************************************************)
EXTENDS Naturals

CONSTANTS
  Ids,         \* the modules
  Requires,    \* the calls of require with a callback
  Deps,        \* module -> the modules its factory takes
  Asked,       \* require -> the modules its callback takes
  Reloadable   \* modules that more than one script may bring

VARIABLES
  runs,    \* how often the factory of each module has run
  called,  \* how often the callback of each require has run
  failed   \* the modules that have been reported as failed

amdVars == << runs, called, failed >>

\* m is needed below d: every set closed under dependency that holds what d
\* takes holds m too.
Leads(d, m) ==
  \A S \in SUBSET Ids :
    Deps[d] \subseteq S /\ (\A s \in S : Deps[s] \subseteq S) => m \in S

AmdInit ==
  /\ runs = [m \in Ids |-> 0]
  /\ called = [r \in Requires |-> 0]
  /\ failed = {}

\* The dependency d of m may be absent when m runs.
Missing(d, m) ==
  \/ Leads(d, m)
  \/ \E f \in failed : f = d \/ Leads(d, f)

\* The factory of m runs, and may throw.
Run(m) ==
  /\ runs' = [runs EXCEPT ![m] = @ + 1]
  /\ runs[m] = 0 \/ m \in Reloadable
  /\ \A d \in Deps[m] : runs[d] > 0 \/ Missing(d, m)
  /\ failed' \in {failed, failed \cup {m}}
  /\ UNCHANGED called

Call(r) ==
  /\ called' = [called EXCEPT ![r] = 1]
  /\ called[r] = 0
  /\ \A d \in Asked[r] : runs[d] > 0
  /\ UNCHANGED << runs, failed >>

Fail ==
  /\ failed \subseteq failed' /\ failed' \subseteq Ids
  /\ UNCHANGED << runs, called >>

AmdNext == (\E m \in Ids : Run(m)) \/ (\E r \in Requires : Call(r)) \/ Fail

AmdSpec == AmdInit /\ [][AmdNext]_amdVars
=============================================================================
