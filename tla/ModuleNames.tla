---------------------------- MODULE ModuleNames ----------------------------
(***************************************************************************)
(* How the script loader of the web console (js/require.js) turns the name *)
(* a script asks for into a module id and the id into a url.  A name is    *)
(* the sequence of its segments: "./a/b" is << ".", "a", "b" >>.           *)
(*                                                                         *)
(* Left out: plugin prefixes ("p!name"), names that are plain urls, the    *)
(* baseUrl and the suffixes ".js" and urlArgs put on every url alike.      *)
(***************************************************************************)
EXTENDS Integers, Sequences

CONSTANTS
  pkgs,     \* config.pkgs: package name -> [location |-> name, main |-> name]
  map,      \* config.map: module name -> (name -> replacement)
  starMap,  \* config.map["*"]: name -> replacement
  NONE      \* no base name: a top-level require

Names == Seq(STRING)

ASSUME NamesAssumption ==
  /\ \A p \in DOMAIN pkgs : p \in Names /\ Len(p) = 1
  /\ \A b \in DOMAIN map : b \in Names
  /\ NONE \notin Names

Cut(s, from, to) == SubSeq(s, 1, from - 1) \o SubSeq(s, to + 1, Len(s))

\* The loop of trimDots with its index, which starts at 0 as in the code: a
\* segment "" ends it, ".." removes the segment before it unless the name
\* starts with two "..".
TrimFrom[a \in Names, i \in Nat] ==
  LET part == a[i + 1]
      stop == i = 1 /\ (a[1] = ".." \/ (Len(a) > 2 /\ a[3] = ".."))
  IN IF i >= Len(a) THEN a
     ELSE CASE part = "" -> a
            [] part = "." -> TrimFrom[Cut(a, i + 1, i + 1), i]
            [] part = ".." /\ stop -> a
            [] part = ".." /\ ~stop /\ i > 0 -> TrimFrom[Cut(a, i, i + 1), i - 1]
            [] OTHER -> TrimFrom[a, i + 1]

trimDots(ary) == TrimFrom[ary, 0]

Relative(name) == name # << >> /\ Head(name) \in {".", ".."}

\* The name resolved against the module that asks for it.  Inside a package
\* the package's own name stands for its main module.
Resolve(name, base) ==
  IF base = NONE
    THEN IF Head(name) = "." THEN Tail(name) ELSE name
    ELSE LET dir  == IF base \in DOMAIN pkgs THEN base
                                             ELSE SubSeq(base, 1, Len(base) - 1)
             full == trimDots(dir \o name)
             pkg  == SubSeq(full, 1, 1)
         IN IF pkg \in DOMAIN pkgs /\ full = pkg \o pkgs[pkg].main
              THEN pkg ELSE full

\* The replacement config.map gives to the first i segments of the name when
\* baseParts asks for it: the longest part of baseParts that has one decides.
MapFor(name, baseParts, i) ==
  LET js == {j \in 1..Len(baseParts) :
               /\ SubSeq(baseParts, 1, j) \in DOMAIN map
               /\ SubSeq(name, 1, i) \in DOMAIN map[SubSeq(baseParts, 1, j)]}
      j  == CHOOSE k \in js : \A l \in js : l <= k
  IN IF js # {}
       THEN << map[SubSeq(baseParts, 1, j)][SubSeq(name, 1, i)] >>
       ELSE IF SubSeq(name, 1, i) \in DOMAIN starMap
              THEN << starMap[SubSeq(name, 1, i)] >> ELSE << >>

ApplyMap(name, baseParts) ==
  LET is == {i \in 1..Len(name) : MapFor(name, baseParts, i) # << >>}
      i  == CHOOSE k \in is : \A l \in is : l <= k
  IN IF is = {} THEN name
     ELSE MapFor(name, baseParts, i)[1] \o SubSeq(name, i + 1, Len(name))

normalize(name, base, applyMap) ==
  LET resolved  == IF Relative(name) THEN Resolve(name, base) ELSE name
      baseParts == CASE base = NONE -> << >>
                     [] base # NONE /\ Relative(name) /\ base \notin DOMAIN pkgs
                          -> SubSeq(base, 1, Len(base) - 1)
                     [] OTHER -> base
  IN IF applyMap THEN ApplyMap(resolved, baseParts) ELSE resolved

\* The url of an id: the longest prefix that has a path or is a package is
\* replaced.  paths maps a prefix to the places it may be found at; the first
\* is the one in use.
nameToUrl(id, paths) ==
  LET is  == {i \in 1..Len(id) : SubSeq(id, 1, i) \in DOMAIN paths \cup DOMAIN pkgs}
      i   == CHOOSE k \in is : \A l \in is : l <= k
      top == SubSeq(id, 1, i)
  IN IF is = {} THEN id
     ELSE (CASE top \in DOMAIN paths -> Head(paths[top])
             [] top \notin DOMAIN paths /\ id = top ->
                  pkgs[top].location \o pkgs[top].main
             [] OTHER -> pkgs[top].location)
          \o SubSeq(id, i + 1, Len(id))
=============================================================================
