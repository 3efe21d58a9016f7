------------------------------- MODULE JsDump -------------------------------
(***************************************************************************)
(* QUnit.jsDump, which shows the values of an assertion that failed        *)
(* (fuelux/lib/qunit/qunit.js).  The text is a tree here: brackets and     *)
(* indentation are left out.  A value inside itself is shown by how many   *)
(* levels up it is.                                                        *)
(***************************************************************************)
EXTENDS Equiv, FiniteSetsExt

VARIABLE dumped   \* the last call: [v, tree], or << >>

\* typeOf: a primitive made with "new" is an object, without properties.
typeOf(v) ==
  IF v.at # 0 /\ v.type \in {"string", "boolean", "number"} THEN "object"
  ELSE IF v.type = "nan" THEN "number" ELSE v.type

Leaf(type, val) == [kind |-> type, val |-> val, kids |-> << >>]

\* recursion(n), n negative
recursion(stack, i) == Leaf("recursion", i - 1 - Len(stack))

\* What of a value is shown: of a function not the code.
Shown(v) ==
  CASE typeOf(v) \in {"array", "object", "function"} -> 0
    [] v.type = "nan" -> "NaN"
    [] OTHER -> v.val

RECURSIVE parse(_, _)
parse(v, stack) ==
  LET inStack == {i \in DOMAIN stack : Identical(stack[i], v)}
  IN IF inStack # {} THEN recursion(stack, Min(inStack))
     ELSE [Leaf(typeOf(v), Shown(v)) EXCEPT
             !.kids = [p \in DOMAIN Props(v) |-> parse(Props(v)[p], Append(stack, v))]]

dump(v) ==
  /\ dumped = << >>
  /\ dumped' = [v |-> v, tree |-> parse(v, << >>)]

DumpInit == dumped = << >>
DumpNext == \E v \in Values : dump(v)

-----------------------------------------------------------------------------
(* Properties.                                                             *)

\* A node that says recursion stands for one of the nodes around it.
Resolve(nodes) ==
  LET last == nodes[Len(nodes)]
  IN IF last.kind = "recursion" THEN SubSeq(nodes, 1, Len(nodes) + last.val) ELSE nodes

\* Following a path in the tree: the nodes around the last, and the steps made.
Follow(tree, path) ==
  LET f[i \in 0..Len(path)] ==
        IF i = 0 THEN [nodes |-> << tree >>, steps |-> 0]
        ELSE LET at == f[i - 1].nodes[Len(f[i - 1].nodes)]
             IN IF f[i - 1].steps = i - 1 /\ path[i] \in DOMAIN at.kids
                  THEN [nodes |-> Resolve(Append(f[i - 1].nodes, at.kids[path[i]])),
                        steps |-> i]
                  ELSE f[i - 1]
  IN f[Len(path)]

\* The outermost value is never shown as a recursion.
DumpTypeOK == dumped = << >> \/ dumped.tree.kind # "recursion"

\* A reader who follows a path in the dump, going back up where it says
\* recursion, finds what the value has at that path, for values with cycles
\* and shared parts too (the stack of jsDump.parse).
DumpFaithful ==
  dumped # << >> =>
    \A path \in Paths :
      LET values == Along(dumped.v, path)
          read == Follow(dumped.tree, path)
          node == read.nodes[Len(read.nodes)]
          last == values[Len(values)]
      IN /\ read.steps = Len(values) - 1
         /\ node.kind = typeOf(last) /\ node.val = Shown(last)
=============================================================================
