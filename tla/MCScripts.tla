----------------------------- MODULE MCScripts -----------------------------
EXTENDS Scripts

\* Data of the grid: two pairs of items with the same key.
McItem(i, words, population, key) ==
  [pos |-> i, words |-> words, population |-> population, key |-> key]
McItems ==
  << McItem(1, {"x"}, 4999999, 2), McItem(2, {"y"}, 5000000, 1), McItem(3, {"x", "y"}, 7, 2),
     McItem(4, {"x"}, 6000000, 3), McItem(5, {}, 8000000, 1) >>

McRunning == [i \in {"a"} |-> 1]
McNamesWith == [t \in {"", "a"} |-> IF t = "" THEN {"a", "b"} ELSE {"a"}]

\* a and b may need each other, themselves or c, which nobody defines.
McDefines ==
  {"a", "b"} \X {<< >>, << "a" >>, << "b" >>, << "exports", "b" >>, << "b", "c" >>, << "a", "b" >>}
McRequires == {<< "a" >>, << "b" >>, << "b", "a" >>}

\* Values to compare; the properties x and y are numbered 1 and 2.
Plain(type, val) == [type |-> type, val |-> val, at |-> 0]
Place(type, at) == [type |-> type, val |-> at, at |-> at]
Boxed(type, val, at) == [type |-> type, val |-> val, at |-> at]
Obj(ctor, x) == [ctor |-> ctor, props |-> << x >>]
McHeap ==
  << Obj("Object", Plain("number", 1)),                             \* 1: {x: 1}
     Obj("Object", Boxed("number", 1, 30)),                         \* 2: {x: new Number(1)}
     Obj("C", Plain("function", 1)), Obj("C", Plain("function", 2)), \* 3, 4
     Obj("none", Plain("function", 1)), Obj("Object", Plain("function", 2)), \* 5, 6
     Obj("Object", Place("object", 1)), Obj("Object", Place("object", 2)),   \* 7, 8
     Obj("Object", Place("object", 9)),                             \* 9: a cycle
     Obj("Object", Plain("undefined", 0)),                          \* 10: {x: undefined}
     [ctor |-> "Object", props |-> << >>],                          \* 11: {}
     [ctor |-> "Object", props |-> << Plain("number", 1), Plain("number", 1) >>], \* 12
     Obj("none", Plain("number", 1)),                               \* 13
     [ctor |-> "Array", props |-> << Plain("nan", 0), Place("object", 1) >>],  \* 14
     [ctor |-> "Array", props |-> << Plain("nan", 0), Place("object", 2) >>],  \* 15
     [ctor |-> "Array", props |-> << Plain("nan", 0) >>],           \* 16
     Obj("C", Place("array", 18)),                                  \* 17
     [ctor |-> "Array", props |-> << Plain("function", 2) >>],      \* 18
     Obj("C", Place("array", 16)),                                  \* 19
     [ctor |-> "Object", props |-> << Place("array", 21), Place("object", 1) >>], \* 20
     [ctor |-> "Array", props |-> << Place("object", 1), Place("object", 20) >>] >> \* 21
McValues ==
  {Plain("number", 1), Plain("number", 2), Plain("string", 1), Boxed("number", 1, 30),
   Boxed("number", 1, 31), Plain("nan", 0), Plain("null", 0), Plain("undefined", 0),
   Plain("function", 1), Plain("function", 2), Boxed("date", 1, 32), Boxed("date", 1, 33),
   Boxed("date", 2, 34), Boxed("regexp", 1, 35)}
  \cup {Place("object", h) : h \in (1..13) \cup {17, 19, 20}}
  \cup {Place("array", h) : h \in {14, 15, 16, 18, 21}}
=============================================================================
