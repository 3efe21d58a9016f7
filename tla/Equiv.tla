------------------------------- MODULE Equiv -------------------------------
(***************************************************************************)
(* QUnit.equiv, which deepEqual compares values with                       *)
(* (fuelux/lib/qunit/qunit.js).                                            *)
(*                                                                         *)
(* A value has a type, and a place on the heap if it is an object: arrays, *)
(* objects, and primitives made with "new".  The heap gives the            *)
(* constructor and the properties, and may be cyclic.  Getters, inherited  *)
(* properties and calls with more than two values are left out.            *)
(***************************************************************************)
EXTENDS Integers, Sequences, FiniteSets

CONSTANTS
  Heap,     \* place -> [ctor, props], the names of properties being numbers;
            \* ctor "none": no prototype
  Values,   \* [type, val, at]; at = 0: not an object
  Depth     \* longer paths lead nowhere new

EquivAssumption ==
  \A v \in Values : v.at # 0 /\ v.type \in {"array", "object"} =>
    /\ v.at \in DOMAIN Heap
    /\ \A p \in DOMAIN Heap[v.at].props : Heap[v.at].props[p] \in Values

ASSUME EquivAssumption

VARIABLE compared   \* the last call: [a, b, equal], or << >>

Undefined == [type |-> "undefined", val |-> 0, at |-> 0]
Props(v) == IF v.at = 0 \/ v.type \notin {"array", "object"} THEN << >> ELSE Heap[v.at].props
Get(v, p) == IF p \in DOMAIN Props(v) THEN Props(v)[p] ELSE Undefined

\* a === b
Identical(a, b) ==
  /\ a.type = b.type /\ a.at = b.at
  /\ a.at = 0 => a.val = b.val /\ a.type # "nan"

\* A primitive equals the object made of it, two such objects differ.
useStrictEquality(b, a) == a.val = b.val /\ (a.at = 0 \/ b.at = 0)

sameConstructor(a, b) ==
  Heap[a.at].ctor = Heap[b.at].ctor \/ {Heap[a.at].ctor, Heap[b.at].ctor} = {"none", "Object"}

RECURSIVE innerEquiv(_, _, _, _)

\* The properties of a that are not one of its parents are compared.
propertiesEquiv(a, b, caller, parents) ==
  \A p \in DOMAIN Props(a) :
    \/ \E i \in DOMAIN parents : Identical(parents[i], Props(a)[p])
    \/ innerEquiv(Props(a)[p], Get(b, p), caller, parents)

arrayEquiv(b, a, caller, parents) ==
  /\ Len(Props(a)) = Len(Props(b))
  /\ propertiesEquiv(a, b, caller, Append(parents, a))

objectEquiv(b, a, parents) ==
  /\ sameConstructor(a, b)
  /\ propertiesEquiv(a, b, Heap[a.at].ctor, Append(parents, a))
  /\ DOMAIN Props(a) = DOMAIN Props(b)

\* caller is the constructor of the object around a, or "none".
innerEquiv(a, b, caller, parents) ==
  \/ Identical(a, b)
  \/ /\ a.type = b.type
     /\ CASE a.type \in {"null", "undefined"} -> FALSE
          [] a.type \in {"string", "boolean", "number"} -> useStrictEquality(b, a)
          [] a.type = "nan" -> TRUE
          [] a.type \in {"date", "regexp"} -> a.val = b.val
          [] a.type = "function" -> caller \notin {"Object", "none"}
          [] a.type = "array" -> arrayEquiv(b, a, caller, parents)
          [] a.type = "object" -> objectEquiv(b, a, parents)

equiv(a, b) ==
  /\ compared = << >>
  /\ compared' = [a |-> a, b |-> b, equal |-> innerEquiv(a, b, "none", << >>)]

EquivInit == compared = << >>
EquivNext == \E a, b \in Values : equiv(a, b)

-----------------------------------------------------------------------------
(* What it should compute.                                                 *)

Names == UNION {DOMAIN Heap[h].props : h \in DOMAIN Heap}
Paths == UNION {[1..n -> Names] : n \in 0..Depth}

\* The values along a path from v, v first; it ends where there is no property.
Along(v, path) ==
  LET f[i \in 0..Len(path)] ==
        IF i = 0 THEN << v >>
        ELSE IF Len(f[i - 1]) = i /\ path[i] \in DOMAIN Props(f[i - 1][i])
               THEN Append(f[i - 1], Props(f[i - 1][i])[path[i]]) ELSE f[i - 1]
  IN f[Len(path)]

Acyclic(v) == \A path \in Paths : LET s == Along(v, path) IN
  \A i, j \in DOMAIN s : i < j => s[i].at = 0 \/ s[i].at # s[j].at

\* The constructor around the last value of s, arrays apart.
Around(s) ==
  LET objects == {i \in 1..(Len(s) - 1) : s[i].type = "object"}
  IN IF objects = {} THEN "none"
     ELSE Heap[s[CHOOSE i \in objects : \A j \in objects : j <= i].at].ctor

\* The last values of s and t, found at the same path, are alike.
Alike(s, t) ==
  LET a == s[Len(s)]
      b == t[Len(t)]
  IN /\ Len(s) = Len(t) /\ a.type = b.type
     /\ a.type \in {"array", "object"} => sameConstructor(a, b)
     /\ a.type \in {"string", "boolean", "number"} =>
          a.val = b.val /\ (a.at = b.at \/ a.at = 0 \/ b.at = 0)
     /\ a.type \in {"date", "regexp"} => a.val = b.val
     /\ a.type = "function" => a.val = b.val \/ Around(s) \notin {"Object", "none"}

\* The answer is a boolean.
EquivTypeOK == compared = << >> \/ compared.equal \in BOOLEAN

\* Values without a cycle are equal if and only if they have the same paths,
\* with like values at their ends; so what deepEqual says does not depend on
\* the order of the arguments or on sharing.  A value with a cycle equals itself
\* (QUnit.equiv).
EquivIsSameShape ==
  compared # << >> =>
    /\ Acyclic(compared.a) =>
         (compared.equal <=> \A path \in Paths :
            Alike(Along(compared.a, path), Along(compared.b, path)))
    /\ compared.a = compared.b => compared.equal
=============================================================================
