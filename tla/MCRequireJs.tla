---------------------------- MODULE MCRequireJs ----------------------------
EXTENDS RequireJs, SequencesExt, TLC

\* What a name means to a file system: "." stays, ".." goes up.
Walk(path, segment) ==
  CASE segment = "."  -> path
    [] segment = ".." -> SubSeq(path, 1, Len(path) - 1)
    [] OTHER -> Append(path, segment)

Depth(name) == Len(SelectSeq(name, LAMBDA p : p = "a"))
               - Len(SelectSeq(name, LAMBDA p : p = ".."))

\* trimDots agrees with it on every name that never climbs above its root.
ASSUME TrimDotsResolves ==
  \A n \in 0..6 : \A name \in [1..n -> {"a", ".", ".."}] :
    (\A k \in 0..n : Depth(SubSeq(name, 1, k)) >= 0)
      => trimDots(name) = FoldLeft(Walk, << >>, name)

lib  == << "lib" >>
libx == << "lib", "x" >>
c    == << "c" >>
s    == << "s" >>

McIds == {lib, libx, c, s}
McPkgs == [p \in {lib} |-> [location |-> << "l" >>, main |-> << "main" >>]]
McMap == [b \in {} |-> << >>]
McStarMap == [n \in {<< "d" >>} |-> c]
McPaths == [p \in {c} |-> << << "c1" >>, << "c2" >> >>]
McSite == << "l", "main" >> :> lib @@ << "l", "x" >> :> libx @@ << "c1" >> :> c
          @@ << "c2" >> :> c @@ s :> s
McKind == lib :> "named" @@ libx :> "anon" @@ c :> "anon" @@ s :> "plain"
McDepNames == lib :> << << ".", "x" >>, << "exports" >> >>
              @@ libx :> << << ".", "main" >>, << "d" >> >>
              @@ c :> << >> @@ s :> << >>
McNested == libx :> << << "c" >> >>
McThrowing == {c}
McShim == s :> << << "c" >> >>
McAsked == 1 :> << << "lib" >> >> @@ 2 :> << << "s" >>, << "d" >> >>

\* The page is one that the theorems of RequireJsProofs are about.
ASSUME PlacesAssumption == OwnPlaces /\ TwoPlaces
=============================================================================
