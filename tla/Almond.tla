------------------------------- MODULE Almond -------------------------------
(***************************************************************************)
(* The small loader for modules that are all in one file                   *)
(* (fuelux/lib/almond.js): define notes a module, require runs what it     *)
(* needs, at once or after 15 ms.                                          *)
(*                                                                         *)
(* Left out: names relative to others and the map config, which the module *)
(* ModuleNames has for require.js, plugins, values of modules.             *)
(***************************************************************************)
EXTENDS Integers, Sequences, FiniteSets

CONSTANTS
  Defines,     \* pairs << name, dependencies >> a file may define
  Requires,    \* lists of dependencies a page may require
  MaxDefines, MaxRequires

ASSUME AlmondAssumption == {MaxDefines, MaxRequires} \subseteq Nat

VARIABLES
  waiting,      \* name -> dependencies, of the modules that have not run
  defined,      \* names that have a value
  defining,     \* names whose definition has begun
  mains,        \* pending timers of require: lists of dependencies
  calls,        \* factories and callbacks called: [name, deps, given]
  errors,       \* exceptions so far
  defines, requires  \* calls so far

almondVars == << waiting, defined, defining, mains, calls, errors, defines, requires >>

Caller == "require"   \* the name main has for the callback of a require
Now == [waiting |-> waiting, defined |-> defined, defining |-> defining,
        calls |-> calls, thrown |-> FALSE]

RECURSIVE main(_, _, _)

\* A module that waits is run first; one that has no value then is an error.
callDep(st, name) ==
  LET begun == [st EXCEPT !.waiting = [n \in DOMAIN @ \ {name} |-> @[n]],
                          !.defining = @ \cup {name}]
      done == IF name \in DOMAIN st.waiting THEN main(begun, name, st.waiting[name]) ELSE st
  IN IF done.thrown \/ name \in done.defined THEN done ELSE [done EXCEPT !.thrown = TRUE]

\* One dependency: [st, given], given FALSE for one whose definition is under
\* way, which is undefined.
dependencyDefiningFirst(st, name, dep) ==
  IF dep = "exports" THEN [st |-> [st EXCEPT !.defined = @ \cup {name}], given |-> TRUE]
  ELSE IF dep \in st.defining THEN [st |-> st, given |-> FALSE]
  ELSE IF dep \in st.defined \/ dep \in DOMAIN st.waiting
    THEN [st |-> callDep(st, dep), given |-> TRUE]
  ELSE [st |-> [st EXCEPT !.thrown = TRUE], given |-> FALSE]

dependencyNoCycles(st, name, dep) ==
  IF dep = "exports" THEN [st |-> [st EXCEPT !.defined = @ \cup {name}], given |-> TRUE]
  ELSE IF dep \in st.defined \/ dep \in DOMAIN st.waiting
    THEN [st |-> callDep(st, dep), given |-> TRUE]
  ELSE [st |-> [st EXCEPT !.thrown = TRUE], given |-> FALSE]

dependency(st, name, dep) ==
  IF dep = "exports" THEN [st |-> [st EXCEPT !.defined = @ \cup {name}], given |-> TRUE]
  ELSE IF dep \in st.defined \/ dep \in DOMAIN st.waiting
    THEN [st |-> callDep(st, dep), given |-> TRUE]
  ELSE IF dep \in st.defining THEN [st |-> st, given |-> FALSE]
  ELSE [st |-> [st EXCEPT !.thrown = TRUE], given |-> FALSE]

\* The dependencies one after the other, then the factory; the first exception
\* ends it all, and what has changed stays changed.
main(st, name, deps) ==
  LET f[i \in 0..Len(deps)] ==
        IF i = 0 THEN [st |-> st, given |-> << >>]
        ELSE IF f[i - 1].st.thrown THEN f[i - 1]
        ELSE LET d == dependency(f[i - 1].st, name, deps[i])
             IN [st |-> d.st, given |-> Append(f[i - 1].given, d.given)]
      end == f[Len(deps)]
  IN IF end.st.thrown THEN end.st
     ELSE [end.st EXCEPT
             !.calls = Append(@, [name |-> name, deps |-> deps, given |-> end.given]),
             !.defined = IF name = Caller THEN @ ELSE @ \cup {name}]

Becomes(st) ==
  /\ waiting' = st.waiting /\ defined' = st.defined /\ defining' = st.defining
  /\ calls' = st.calls
  /\ errors' = errors + IF st.thrown THEN 1 ELSE 0

define(name, deps) ==
  /\ defines < MaxDefines /\ defines' = defines + 1
  /\ waiting' = [n \in DOMAIN waiting \cup {name} |-> IF n = name THEN deps ELSE waiting[n]]
  /\ UNCHANGED << defined, defining, mains, calls, errors, requires >>

\* require(deps, callback): main runs when the timer fires.
req(deps) ==
  /\ requires < MaxRequires /\ requires' = requires + 1
  /\ mains' = Append(mains, deps)
  /\ UNCHANGED << waiting, defined, defining, calls, errors, defines >>

\* require(name)
reqNow(name) ==
  /\ requires < MaxRequires /\ requires' = requires + 1
  /\ Becomes(callDep(Now, name))
  /\ UNCHANGED << mains, defines >>

MainFires ==
  /\ mains # << >>
  /\ mains' = Tail(mains)
  /\ Becomes(main(Now, Caller, Head(mains)))
  /\ UNCHANGED << defines, requires >>

AlmondInit ==
  /\ waiting = << >> /\ defined = {} /\ defining = {}
  /\ mains = << >> /\ calls = << >> /\ errors = 0
  /\ defines = 0 /\ requires = 0

AlmondNext ==
  \/ \E d \in Defines : define(d[1], d[2])
  \/ \E deps \in Requires : req(deps) \/ (Len(deps) = 1 /\ reqNow(deps[1]))
  \/ MainFires

-----------------------------------------------------------------------------
(* Properties.                                                             *)

\* Every variable has its type, and a defined module is marked as begun.
AlmondTypeOK ==
  /\ DOMAIN waiting \subseteq {d[1] : d \in Defines}
  /\ defined \subseteq defining
  /\ errors \in 0..MaxRequires

\* The modules a list of dependencies leads to, over those that have not run.
Modules == {d[1] : d \in Defines} \cup UNION {{d[2][i] : i \in DOMAIN d[2]} : d \in Defines}
Needs(n) == IF n \in DOMAIN waiting THEN {waiting[n][i] : i \in DOMAIN waiting[n]} \ {"exports"} ELSE {}
Closure(S) ==
  LET f[i \in 0..Cardinality(Modules)] ==
        IF i = 0 THEN S ELSE f[i - 1] \cup UNION {Needs(n) : n \in f[i - 1]}
  IN f[Cardinality(Modules)]
Elems(deps) == {deps[i] : i \in DOMAIN deps}

\* As long as there was no error, a require fails if and only if a module it
\* needs, directly or through others, has not been defined; cycles do no harm
\* (main, callDep, defining).
AlmondFails ==
  [][errors = 0 /\ mains # << >> /\ mains' = Tail(mains) =>
       (errors' > 0 <=> ~(Closure(Elems(Head(mains))) \subseteq defined \cup DOMAIN waiting))]_almondVars

\* Which name may need which, over all definitions called so far.
CalledNeeds(n) == UNION {Elems(calls[i].deps) : i \in {j \in DOMAIN calls : calls[j].name = n}}
Leads(from, to) ==
  LET f[i \in 0..Cardinality(Modules)] ==
        IF i = 0 THEN {from} ELSE f[i - 1] \cup UNION {CalledNeeds(n) : n \in f[i - 1]}
  IN to \in f[Cardinality(Modules)]

\* As long as there was no error, a factory gets undefined for a dependency only
\* when the dependency needs the module itself, and the callback of a require
\* never (main).
AlmondGiven ==
  errors = 0 =>
    \A i \in DOMAIN calls : \A k \in DOMAIN calls[i].given :
      calls[i].given[k] \/ (calls[i].name # Caller /\ Leads(calls[i].deps[k], calls[i].name))
=============================================================================
