------------------------- MODULE RequireCallsProofs -------------------------
(***************************************************************************)
(* That RequireJs calls the page back as Amd promises: the callback of a   *)
(* require once, and after all it asked for has run (Promise!Call).        *)
(*                                                                         *)
(* The Module of a require calls back when its depCount is 0.  For this to *)
(* mean what it should, three more things are kept by every step, again    *)
(* proved from the descriptions Did... of RequireJsProofs:                 *)
(*                                                                         *)
(*  - RanInv: what is defined has run.  The source of a plain script runs  *)
(*    when it comes, that of another when define calls it, so a Module     *)
(*    that is initialized by a load event has a script that came           *)
(*    (ArrivedIn);                                                         *)
(*  - CountInv: depCount is the number of dependencies not yet heard of    *)
(*    (Unmet), up to where enable() has got, and each of those heard of    *)
(*    has run.  Listeners are told once, so a dependency is not counted    *)
(*    before enable() gets to it or after it was;                          *)
(*  - OnceInv: one Module at most has the callback of a require, with the  *)
(*    names it asked for, and it calls it when its define is under way,    *)
(*    which happens once.                                                  *)
(*                                                                         *)
(* For the Modules of require only: a dependency of a module may be        *)
(* missing when its factory runs, because of a cycle or of a failure.      *)
(***************************************************************************)
EXTENDS RequireJsProofs

(* What has run, and what has come: a script without define() runs before  *)
(* its load event, any other when its module is defined                    *)
RanIn(i, rs) == i \in Ids /\ rs[i] > 0
ArrivedIn(i, rs) == i \in Ids /\ (Kind[i] = "plain" => rs[i] > 0)
RanOk(f, ms, rs) ==
  /\ f.op = "init" /\ ms[f.h].id # << >> => ArrivedIn(ms[f.h].id, rs)
  /\ f.op \in {"complete", "completed"} => ArrivedIn(f.id, rs)
  /\ f.op = "emit" => "defined" \in ms[f.h].is
RanMod(m, rs) ==
  /\ m.id # << >> /\ "inited" \in m.is => ArrivedIn(m.id, rs)
  /\ m.id # << >> /\ "defined" \in m.is => RanIn(m.id, rs)
  /\ "complete" \in m.is => "defined" \in m.is
  /\ "inited" \notin m.is => m.deps = << >>
RanFrames == \A j \in DOMAIN stack : RanOk(stack[j], mods, runs)
RanMods == \A h \in Handles : RanMod(mods[h], runs)
RanScripts == \A s \in scripts : s.executed => ArrivedIn(s.id, runs)
RanNames == \A i \in defined : RanIn(i, runs) \/ \E h \in Handles : Registered(h) /\ mods[h].id = i
(* When the source of a module is not under way, it has run                *)
RanDefines == \A j \in DOMAIN stack : stack[j].op = "define" /\ mods[stack[j].h].id # << >> =>
  RanIn(mods[stack[j].h].id, runs) \/ (j - 1 \in DOMAIN stack /\ stack[j - 1].op = "execCb")
RanInv == RanFrames /\ RanMods /\ RanScripts /\ RanNames /\ RanDefines


(* runs only grows                                                         *)
Grow == \A i \in Ids : runs'[i] >= runs[i]
Firm == Kept /\ Grow /\ \A h \in Handles : Is(h, "defined") => "defined" \in mods'[h].is

(* runs only grows, so what has run stays so. *)
LEMMA Grown ==
  ASSUME TypeInv, TypeInv', Grow, NEW i
  PROVE  (ArrivedIn(i, runs) => ArrivedIn(i, runs')) /\ (RanIn(i, runs) => RanIn(i, runs'))
<1>1. i \in Ids => runs[i] \in Nat /\ runs'[i] \in Nat /\ runs'[i] >= runs[i]
  BY DEF TypeInv, SeenOk, Grow
<1> QED
  BY <1>1 DEF ArrivedIn, RanIn

LEMMA SameGrow == ASSUME TypeInv, UNCHANGED runs PROVE Grow
BY DEF Grow, TypeInv, SeenOk

(* The part of RanInv about the calls under way: only the new calls need a proof. *)
LEMMA RanFramesGo ==
  ASSUME TypeInv, TypeInv', RanInv, Firm, NEW k, NEW d, NEW b, Came(k, d, b),
         \A j \in 1..k : j \in DOMAIN stack' => RanOk(stack'[j], mods', runs')
  PROVE  RanFrames'
<1>1. ASSUME NEW j \in DOMAIN stack' PROVE RanOk(stack'[j], mods', runs')
  <2>1. j \in Nat \ {0} /\ k \in Nat
    BY DEF Came
  <2>2. CASE j > k
    <3>1. PICK f : \E i \in DOMAIN stack : f = stack[i] /\ stack'[j] = f
      BY <2>2 DEF Came
    <3>2. RanOk(f, mods, runs) /\ Good(f, Len(mods))
      BY <3>1 DEF RanInv, RanFrames, TypeInv, StackOk, Frames
    <3>3. f.op \in {"init", "emit"} => f.h \in Handles
      BY <3>2 DEF Good, Handles
    <3>4. f.op = "init" /\ mods'[f.h].id # << >> => ArrivedIn(mods'[f.h].id, runs')
      BY <3>2, <3>3, Grown DEF RanOk, Firm, Kept
    <3>5. f.op = "emit" => "defined" \in mods'[f.h].is
      BY <3>2, <3>3 DEF RanOk, Firm, Is
    <3>6. f.op \in {"complete", "completed"} => ArrivedIn(f.id, runs')
      BY <3>2, Grown DEF RanOk, Firm
    <3> QED
      BY <3>1, <3>4, <3>5, <3>6 DEF RanOk
  <2> QED
    BY <2>1, <2>2
<1> QED
  BY <1>1 DEF RanFrames, RanOk

(* A call of define comes to the top when the source has run               *)
LEMMA RanDefinesGo ==
  ASSUME TypeInv, TypeInv', RanInv, Firm, NEW k, NEW d, NEW b, Came(k, d, b), k + d = b,
         \A j \in DOMAIN stack : j > b /\ ~(j - 1 > b) /\ stack[j].op = "define" /\ stack[j - 1].op = "execCb" =>
           mods[stack[j].h].id = << >> \/ RanIn(mods[stack[j].h].id, runs'),
         \A j \in 1..k : j \in DOMAIN stack' /\ stack'[j].op = "define" =>
           j - 1 \in DOMAIN stack' /\ stack'[j - 1].op = "execCb"
  PROVE  RanDefines'
<1>1. ASSUME NEW j \in DOMAIN stack', stack'[j].op = "define", mods'[stack'[j].h].id # << >>,
             ~RanIn(mods'[stack'[j].h].id, runs')
      PROVE  j - 1 \in DOMAIN stack' /\ stack'[j - 1].op = "execCb"
  <2>1. j \in Nat \ {0} /\ k \in Nat /\ d \in Int /\ b \in Nat /\ IsSeq(stack') /\ IsSeq(stack)
    BY DEF Came, TypeInv, StackOk
  <2>2. CASE j > k
    <3>1. PICK i : i = j + d
      OBVIOUS
    <3>2. i \in DOMAIN stack /\ i > b /\ stack'[j] = stack[i] /\ i \in Nat
      BY <2>1, <2>2, <3>1, SeqFrom DEF Came
    <3>3. PICK f : f = stack[i]
      OBVIOUS
    <3>4. f.op = "define" /\ f.h \in Handles
      BY <1>1, <3>2, <3>3 DEF TypeInv, StackOk, Frames, Good, Handles
    <3>5. mods'[f.h].id = mods[f.h].id /\ mods[f.h].id # << >> /\ ~RanIn(mods[f.h].id, runs')
      BY <1>1, <3>2, <3>3, <3>4 DEF Firm, Kept
    <3>6. ~RanIn(mods[f.h].id, runs)
      BY <3>5, Grown DEF Firm
    <3>7. i - 1 \in DOMAIN stack /\ stack[i - 1].op = "execCb"
      BY <3>2, <3>3, <3>4, <3>5, <3>6 DEF RanInv, RanDefines
    <3>8. i - 1 > b
      BY <3>2, <3>3, <3>4, <3>5, <3>7
    <3>9. j - 1 > k /\ j - 1 \in Nat \ {0} /\ (j - 1) + d = i - 1
      BY <2>1, <3>1, <3>2, <3>8
    <3>10. j - 1 \in DOMAIN stack'
      <4>1. Len(stack') \in Nat /\ DOMAIN stack' = 1..Len(stack')
        BY <2>1, SeqFrom
      <4> QED
        BY <3>9, <4>1
    <3>11. stack'[j - 1] = stack[(j - 1) + d]
      BY <3>9, <3>10 DEF Came
    <3> QED
      BY <3>7, <3>9, <3>10, <3>11
  <2>3. CASE j <= k
    BY <1>1, <2>1, <2>3
  <2> QED
    BY <2>1, <2>2, <2>3
<1> QED
  BY <1>1 DEF RanDefines

LEMMA RanParts == RanFrames' /\ RanMods' /\ RanScripts' /\ RanNames' /\ RanDefines' => RanInv'
BY DEF RanInv

RanRest == Firm /\ RanMods' /\ RanScripts' /\ RanNames'
(* Where execCb is not on top, only the calls that are new count           *)
LEMMA RanAt ==
  ASSUME TypeInv, TypeInv', RanInv, RanRest, NEW op, At(op), op # "execCb", NEW n \in Nat, Shifted(n),
         \A j \in 1..n : j \in DOMAIN stack' => RanOk(stack'[j], mods', runs') /\ stack'[j].op # "define"
  PROVE  RanInv'
<1>1. Came(n, 1 - n, 1) /\ n + (1 - n) = 1
  BY CameAt
<1>2. RanFrames'
  BY <1>1, RanFramesGo DEF RanRest
<1>3. ASSUME NEW j \in DOMAIN stack, j > 1, ~(j - 1 > 1) PROVE stack[j - 1].op # "execCb"
  <2>1. j \in Nat
    BY SeqFrom DEF TypeInv, StackOk
  <2>2. j - 1 = 1
    BY <1>3, <2>1
  <2> QED
    BY <2>2 DEF At
<1>4. RanDefines'
  BY <1>1, <1>3, RanDefinesGo DEF RanRest
<1> QED
  BY <1>2, <1>4, RanParts DEF RanRest

LEMMA RanAt0 ==
  ASSUME TypeInv, TypeInv', RanInv, RanRest, NEW op, At(op), op # "execCb", Shifted(0) PROVE RanInv'
<1>1. \A j \in 1..0 : FALSE
  OBVIOUS
<1> QED
  BY <1>1, RanAt
RanNew(f, ms, rs) == RanOk(f, ms, rs) /\ f.op # "define"
LEMMA RanAt1 ==
  ASSUME TypeInv, TypeInv', RanInv, RanRest, NEW op, At(op), op # "execCb", Shifted(1), RanNew(stack'[1], mods', runs')
  PROVE  RanInv'
<1>1. \A j \in 1..1 : j = 1
  OBVIOUS
<1> QED
  BY <1>1, RanAt DEF RanNew
LEMMA RanAt2 ==
  ASSUME TypeInv, TypeInv', RanInv, RanRest, NEW op, At(op), op # "execCb", Shifted(2),
         RanNew(stack'[1], mods', runs'), RanNew(stack'[2], mods', runs')
  PROVE  RanInv'
<1>1. \A j \in 1..2 : j = 1 \/ j = 2
  OBVIOUS
<1> QED
  BY <1>1, RanAt DEF RanNew
LEMMA RanFirst ==
  ASSUME TypeInv, TypeInv', RanInv, RanRest, stack = << >>, IsSeq(stack'), DOMAIN stack' = {1},
         RanNew(stack'[1], mods', runs')
  PROVE  RanInv'
<1>1. Came(1, 0, 0)
  BY CameFirst
<1>2. \A j \in 1..1 : j = 1
  OBVIOUS
<1>3. RanFrames'
  BY <1>1, <1>2, RanFramesGo DEF RanRest, RanNew
<1>4. RanDefines'
  BY DEF RanDefines, RanNew
<1> QED
  BY <1>3, <1>4, RanParts DEF RanRest

(* The flags that matter here, and the new Modules                         *)
RanFlags == {"inited", "defined", "complete"}
Alike(m, n) == n.id = m.id /\ n.deps = m.deps /\ \A f \in RanFlags : f \in n.is <=> f \in m.is
NewBlank == \A h \in Handles' : h \notin Handles => mods'[h].is = {} /\ mods'[h].deps = << >>

LEMMA RanAlike ==
  ASSUME TypeInv, TypeInv', Grow, NEW m, NEW n, Alike(m, n), RanMod(m, runs)
  PROVE  RanMod(n, runs')
BY Grown DEF RanMod, Alike, RanFlags

LEMMA RanModsGo ==
  ASSUME TypeInv, TypeInv', RanInv, Grow, NewBlank,
         \A h \in Handles : Alike(mods[h], mods'[h]) \/ RanMod(mods'[h], runs')
  PROVE  RanMods'
<1>1. ASSUME NEW h \in Handles' PROVE RanMod(mods'[h], runs')
  <2>1. CASE h \in Handles
    <3>1. PICK m : m = mods[h]
      OBVIOUS
    <3>2. RanMod(m, runs)
      BY <2>1, <3>1 DEF RanInv, RanMods
    <3> QED
      BY <2>1, <3>1, <3>2, RanAlike
  <2>2. CASE h \notin Handles
    BY <2>2 DEF NewBlank, RanMod
  <2> QED
    BY <2>1, <2>2
<1> QED
  BY <1>1 DEF RanMods, RanMod

LEMMA RanNamesGo ==
  ASSUME TypeInv, TypeInv', RanInv, Grow, Kept, defined' \subseteq defined, Handles \subseteq Handles',
         \A h \in Handles : Registered(h) =>
           Registered(h)' \/ RanIn(mods[h].id, runs') \/ mods[h].id \notin defined'
  PROVE  RanNames'
<1>1. ASSUME NEW i \in defined'
      PROVE  RanIn(i, runs') \/ \E h \in Handles' : Registered(h)' /\ mods'[h].id = i
  <2>1. CASE RanIn(i, runs)
    BY <2>1, Grown
  <2>2. ASSUME NEW h \in Handles, Registered(h), mods[h].id = i
        PROVE  RanIn(i, runs') \/ \E g \in Handles' : Registered(g)' /\ mods'[g].id = i
    <3>1. h \in Handles' /\ mods'[h].id = i
      BY <2>2 DEF Kept
    <3> QED
      BY <2>2, <3>1
  <2> QED
    BY <2>1, <2>2 DEF RanInv, RanNames
<1> QED
  BY <1>1 DEF RanNames

LEMMA RanScriptsGo ==
  ASSUME TypeInv, TypeInv', RanInv, Grow, \A s \in scripts' : s.executed => s \in scripts
  PROVE  RanScripts'
<1>1. ASSUME NEW s \in scripts', s.executed PROVE ArrivedIn(s.id, runs')
  <2>1. ArrivedIn(s.id, runs)
    BY <1>1 DEF RanInv, RanScripts
  <2> QED
    BY <2>1, Grown
<1> QED
  BY <1>1 DEF RanScripts

(* A step that leaves the flags, the names and the scripts alone           *)
LEMMA RanIdle ==
  ASSUME TypeInv, TypeInv', RanInv, Kept, NewBlank, Handles \subseteq Handles', UNCHANGED runs, defined' \subseteq defined,
         \A h \in Handles : Alike(mods[h], mods'[h]),
         \A h \in Handles : Registered(h) => Registered(h)' \/ mods[h].id \notin defined',
         \A s \in scripts' : s.executed => s \in scripts
  PROVE  RanRest
<1>1. Grow
  BY SameGrow
<1>2. Firm
  BY <1>1 DEF Firm, Alike, RanFlags, Is
<1> QED
  BY <1>1, <1>2, RanModsGo, RanNamesGo, RanScriptsGo DEF RanRest

LEMMA RanOnly ==
  ASSUME TypeInv, TypeInv', RanInv, NEW h \in Handles, OnlyMod(h), SameRest(h), Alike(mods[h], mods'[h]),
         UNCHANGED << runs, registry >>, defined' \subseteq defined,
         \A s \in scripts' : s.executed => s \in scripts
  PROVE  RanRest
<1>1. Kept /\ Handles' = Handles
  BY OnlyKept DEF TypeInv
<1>2. \A g \in Handles : Alike(mods[g], mods'[g])
  BY DEF OnlyMod, Alike
<1>3. \A g \in Handles : Registered(g) => Registered(g)'
  BY DEF Registered
<1> QED
  BY <1>1, <1>2, <1>3, RanIdle DEF NewBlank

LEMMA RanSame ==
  ASSUME TypeInv, TypeInv', RanInv, SameMods \/ UNCHANGED mods, UNCHANGED << runs, registry >>, defined' \subseteq defined,
         \A s \in scripts' : s.executed => s \in scripts
  PROVE  RanRest
<1>1. Kept /\ Handles' = Handles /\ SameMods
  BY SameKept DEF TypeInv
<1>2. \A g \in Handles : Alike(mods[g], mods'[g])
  BY <1>1 DEF SameMods, Alike, RanFlags, Flags
<1>3. \A g \in Handles : Registered(g) => Registered(g)'
  BY DEF Registered
<1> QED
  BY <1>1, <1>2, <1>3, RanIdle DEF NewBlank

(* A frame of which RanInv says nothing                                    *)
Other(f) == f.op \notin {"init", "complete", "completed", "emit", "define"}
LEMMA OtherNew == ASSUME NEW f, Other(f), NEW ms, NEW rs PROVE RanNew(f, ms, rs)
BY DEF Other, RanNew, RanOk
LEMMA OtherOps ==
  ASSUME NEW h, NEW i
  PROVE  /\ Other(WireNext(h, i)) /\ Other(enable(h)) /\ Other([op |-> "wire", h |-> h, i |-> i])
         /\ Other(check(h, i)) /\ Other([op |-> "execCb", h |-> h]) /\ Other([op |-> "notify", h |-> h])
         /\ Other(checkLoaded)
BY DEF Other, WireNext, enable, check, checkLoaded
LEMMA OtherRequire == ASSUME NEW a, NEW b, NEW c, NEW d PROVE Other(require(a, b, c, d))
BY DEF Other, require
LEMMA OthersNew ==
  ASSUME NEW f, NEW ms, NEW rs,
         \/ \E h, i : f \in {WireNext(h, i), enable(h), [op |-> "wire", h |-> h, i |-> i], check(h, i),
                             [op |-> "execCb", h |-> h], [op |-> "notify", h |-> h], checkLoaded}
         \/ \E a, b, c, d : f = require(a, b, c, d)
  PROVE  RanNew(f, ms, rs)
BY OtherOps, OtherRequire, OtherNew

LEMMA RanQuiet == ASSUME TypeInv, TypeInv', RanInv, Quiet PROVE RanInv'
<1>1. RanRest /\ Firm
  <2>1. SameMods /\ UNCHANGED << runs, registry, defined, scripts >>
    BY DEF Quiet, names
  <2> QED
    BY <2>1, RanSame DEF RanRest
<1>2. \A f, ms, rs : Mild(f) => RanNew(f, ms, rs)
  BY DEF Mild, Keys, RanNew, RanOk
<1>3. CASE \A j \in DOMAIN stack' : Mild(stack'[j])
  <2>1. \A j \in DOMAIN stack' : RanNew(stack'[j], mods', runs')
    BY <1>2, <1>3
  <2>2. RanFrames' /\ RanDefines'
    BY <2>1 DEF RanFrames, RanDefines, RanNew, RanOk
  <2> QED
    BY <1>1, <2>2, RanParts DEF RanRest
<1>4. CASE UNCHANGED stack
  <2>1. IsSeq(stack') /\ \A j \in DOMAIN stack : j \in Nat \ {0}
    <3>1. IsSeq(stack) /\ IsSeq(stack')
      BY DEF TypeInv, StackOk
    <3> QED
      BY <3>1, SeqFrom
  <2>2. Came(0, 0, 0)
    BY <1>4, <2>1 DEF Came
  <2>3. (\A j \in 1..0 : FALSE) /\ 0 + 0 = 0 /\ \A j \in DOMAIN stack : j - 1 \in DOMAIN stack => j - 1 > 0
    BY <2>1
  <2>4. RanFrames'
    BY <1>1, <2>2, <2>3, RanFramesGo
  <2>5. ASSUME NEW j \in DOMAIN stack, j > 0, ~(j - 1 > 0), stack[j].op = "define", stack[j - 1].op = "execCb"
        PROVE  mods[stack[j].h].id = << >> \/ RanIn(mods[stack[j].h].id, runs')
    <3>1. PICK f : f = stack[j]
      OBVIOUS
    <3>2. ~(j - 1 \in DOMAIN stack)
      BY <2>3, <2>5
    <3>3. mods[f.h].id # << >> => RanIn(mods[f.h].id, runs)
      BY <2>5, <3>1, <3>2 DEF RanInv, RanDefines
    <3>4. UNCHANGED runs
      BY DEF Quiet
    <3> QED
      BY <3>1, <3>3, <3>4
  <2>6. RanDefines'
    BY <1>1, <2>2, <2>3, <2>5, RanDefinesGo
  <2> QED
    BY <1>1, <2>4, <2>6, RanParts DEF RanRest
<1>5. CASE /\ stack # << >> /\ Head(stack).op # "execCb"
           /\ \E k \in Nat : Shifted(k) /\ \A j \in 1..k : j \in DOMAIN stack' => Mild(stack'[j])
  <2>1. PICK k \in Nat : Shifted(k) /\ \A j \in 1..k : j \in DOMAIN stack' => Mild(stack'[j])
    BY <1>5
  <2>2. At(Top.op) /\ Top.op # "execCb"
    BY <1>5, TopGood DEF At, Top, TypeInv
  <2> QED
    BY <1>1, <1>2, <2>1, <2>2, RanAt DEF RanNew
<1> QED
  BY <1>3, <1>4, <1>5 DEF Quiet, QuietStack

LEMMA RanInit == ASSUME TypeInv, TypeInv', RanInv, DidInit PROVE RanInv'
<1>1. PICK h \in Handles : Inited(h) /\ At("init") /\ Plain
  BY DEF DidInit
<1>2. Kept /\ Handles' = Handles
  BY <1>1, OnlyKept DEF TypeInv, Inited
<1>3. UNCHANGED << runs, registry, defined, scripts >> /\ Grow
  BY <1>1, SameGrow DEF Plain, names, world, answers
<1>4. RanMod(mods'[h], runs')
  <2>1. RanOk(Top, mods, runs)
    BY <1>1 DEF At, RanInv, RanFrames
  <2>2. mods[h].id # << >> => ArrivedIn(mods[h].id, runs)
    BY <1>1, <2>1 DEF RanOk, Inited, At
  <2>3. RanMod(mods[h], runs)
    BY DEF RanInv, RanMods
  <2>4. mods'[h].id = mods[h].id /\ mods'[h].is = mods[h].is \cup {"inited"}
    BY <1>1 DEF Inited, SameRest
  <2> QED
    BY <1>3, <2>2, <2>3, <2>4 DEF RanMod
<1>5. \A g \in Handles : g # h => Alike(mods[g], mods'[g])
  BY <1>1 DEF Inited, OnlyMod, Alike
<1>6. RanMods'
  BY <1>2, <1>3, <1>4, <1>5, RanModsGo DEF NewBlank
<1>7. \A g \in Handles : Registered(g) => Registered(g)'
  BY <1>3 DEF Registered
<1>8. Firm
  BY <1>1, <1>2, <1>3 DEF Firm, Inited, OnlyMod, Is
<1>9. RanRest
  BY <1>2, <1>3, <1>6, <1>7, <1>8, RanNamesGo, RanScriptsGo DEF RanRest
<1>10. RanNew(stack'[1], mods', runs')
  BY <1>1, OthersNew DEF Inited
<1> QED
  BY <1>1, <1>9, <1>10, RanAt1 DEF Inited

LEMMA RanEnable == ASSUME TypeInv, TypeInv', RanInv, DidEnable PROVE RanInv'
<1>1. PICK h \in Handles : Enabled(h) /\ At("enable") /\ UNCHANGED << registry, names, world, answers >>
  BY DEF DidEnable
<1>2. Alike(mods[h], mods'[h])
  BY <1>1 DEF Enabled, Alike, RanFlags, SameRest, SameCall
<1>3. RanRest
  BY <1>1, <1>2, RanOnly DEF Enabled, names, world, answers
<1>4. RanNew(stack'[1], mods', runs')
  BY <1>1, OthersNew DEF Enabled
<1> QED
  BY <1>1, <1>3, <1>4, RanAt1 DEF Enabled

LEMMA RanWire == ASSUME TypeInv, TypeInv', RanInv, DidWire PROVE RanInv'
<1>1. PICK h \in Handles : WiredAll(h) /\ At("wire") /\ Plain
  BY DEF DidWire
<1>2. Alike(mods[h], mods'[h])
  BY <1>1 DEF WiredAll, Alike, RanFlags, SameRest, SameCall
<1>3. RanRest
  BY <1>1, <1>2, RanOnly DEF WiredAll, Plain, names, world, answers
<1>4. RanNew(stack'[1], mods', runs')
  BY <1>1, OthersNew DEF WiredAll
<1> QED
  BY <1>1, <1>3, <1>4, RanAt1 DEF WiredAll

(* A module whose dependencies are known has come, and is registered until *)
(* it is defined                                                           *)
LEMMA RanServe == ASSUME TypeInv, TypeInv', RanInv, WaitInv, DidServe PROVE RanInv'
<1>1. PICK h \in Handles, i \in Nat :
        Served(h, i) /\ At("wire") /\ UNCHANGED << registry, undefEvents, urlFetched, paths, wait, world, answers >>
  BY DEF DidServe
<1>2. UNCHANGED << runs, registry, mods, scripts >> /\ Kept /\ Handles' = Handles /\ Grow
  BY <1>1, SameKept, SameGrow DEF Served, world, answers, TypeInv
<1>3. \A g \in Handles : Alike(mods[g], mods'[g]) /\ (Registered(g) <=> Registered(g)')
  BY <1>2 DEF Alike, Registered
<1>4. Firm /\ RanMods'
  BY <1>2, <1>3, RanModsGo DEF Firm, Is, NewBlank
<1>5. RanScripts'
  BY <1>2, RanScriptsGo
<1>6. RanNames'
  <2>1. mods[h].id # << >> => RanIn(mods[h].id, runs) \/ Registered(h)
    <3>1. mods[h].deps # << >>
      BY <1>1 DEF Served
    <3>2. Is(h, "inited") /\ RanMod(mods[h], runs)
      BY <3>1 DEF RanInv, RanMods, RanMod, Is
    <3> QED
      BY <3>2 DEF WaitInv, RanMod, Is
  <2>2. \A i1 \in defined' : i1 \in defined \/ (i1 = mods[h].id /\ i1 # << >>)
    BY <1>1 DEF Served, isDefine
  <2>3. ASSUME NEW x \in defined' PROVE RanIn(x, runs) \/ \E g \in Handles : Registered(g) /\ mods[g].id = x
    BY <2>1, <2>2 DEF RanInv, RanNames
  <2>4. ASSUME NEW x \in defined' PROVE RanIn(x, runs') \/ \E g \in Handles' : Registered(g)' /\ mods'[g].id = x
    BY <1>2, <1>3, <2>3
  <2> QED
    BY <2>4 DEF RanNames
<1>7. RanNew(stack'[1], mods', runs')
  BY <1>1, OthersNew DEF Served
<1> QED
  BY <1>1, <1>4, <1>5, <1>6, <1>7, RanAt1 DEF Served, RanRest

LEMMA RanTake == ASSUME TypeInv, TypeInv', RanInv, DidTake PROVE RanInv'
<1>1. PICK h \in Handles, i \in Nat : Taken(h, i) /\ At("wire") /\ Plain
  BY DEF DidTake
<1>2. Alike(mods[h], mods'[h])
  BY <1>1 DEF Taken, Alike, SameRest, SameCall
<1>3. RanRest
  BY <1>1, <1>2, RanOnly DEF Taken, Plain, names, world, answers
<1>4. \/ Shifted(1) /\ RanNew(stack'[1], mods', runs')
      \/ Shifted(2) /\ RanNew(stack'[1], mods', runs') /\ RanNew(stack'[2], mods', runs')
  BY <1>1, OthersNew DEF Taken
<1> QED
  BY <1>1, <1>3, <1>4, RanAt1, RanAt2

LEMMA RanListen == ASSUME TypeInv, TypeInv', RanInv, DidListen PROVE RanInv'
<1>1. PICK h \in Handles, i \in Nat, g \in Nat :
        Listening(h, i, g) /\ At("wire") /\ UNCHANGED << names, wait, world, answers >>
  BY DEF DidListen
<1>2. Handles' = Handles \cup {g} /\ Kept /\ UNCHANGED << runs, defined, scripts >>
  <2>1. \A x \in Handles : x \in DOMAIN mods'
    <3>1. Handles' = DOMAIN mods'
      BY DEF TypeInv, ModsOk, Handles
    <3> QED
      BY <1>1, <3>1 DEF Listening
  <2> QED
    BY <1>1, <2>1 DEF Listening, Kept, names, world, answers
<1>3. \A x \in Handles : Alike(mods[x], mods'[x]) /\ (Registered(x) => Registered(x)')
  BY <1>1 DEF Listening, Alike
<1>4. NewBlank
  BY <1>1, <1>2 DEF NewBlank, Listening
<1>5. RanRest
  BY <1>2, <1>3, <1>4, RanIdle
<1>6. \/ Shifted(1) /\ RanNew(stack'[1], mods', runs')
      \/ Shifted(2) /\ RanNew(stack'[1], mods', runs') /\ RanNew(stack'[2], mods', runs')
  <2>1. \A f : f = WireNext(h, i) \/ f = enable(g) => RanNew(f, mods', runs')
    BY OthersNew
  <2>2. \/ Shifted(1) /\ stack'[1] = WireNext(h, i)
        \/ Shifted(2) /\ stack'[1] = enable(g) /\ stack'[2] = WireNext(h, i)
    BY <1>1 DEF Listening
  <2> QED
    BY <2>1, <2>2
<1> QED
  BY <1>1, <1>5, <1>6, RanAt1, RanAt2

LEMMA ScriptsMore ==
  ASSUME NEW h, load(h) \/ UNCHANGED << urlFetched, scripts >>
  PROVE  \A s \in scripts' : s.executed => s \in scripts
BY DEF load

LEMMA RanFetch == ASSUME TypeInv, TypeInv', RanInv, DidFetch PROVE RanInv'
<1>1. PICK h \in Handles : Fetching(h) /\ At("check")
  BY DEF DidFetch
<1>2. UNCHANGED << runs, registry, defined >> /\ \A s \in scripts' : s.executed => s \in scripts
  BY <1>1, ScriptsMore DEF DidFetch, answers, Fetching
<1>3. Alike(mods[h], mods'[h])
  BY <1>1 DEF Fetching, Alike, RanFlags, SameRest, SameCall
<1>4. RanRest
  BY <1>1, <1>2, <1>3, RanOnly DEF Fetching
<1>5. \/ Shifted(0)
      \/ Shifted(1) /\ RanNew(stack'[1], mods', runs')
  BY <1>1, OthersNew DEF Fetching
<1> QED
  BY <1>1, <1>4, <1>5, RanAt0, RanAt1

LEMMA RanStart == ASSUME TypeInv, TypeInv', RanInv, DidStart PROVE RanInv'
<1>1. PICK h \in Handles : Starting(h) /\ At("check") /\ Plain
  BY DEF DidStart
<1>2. Alike(mods[h], mods'[h])
  BY <1>1 DEF Starting, Alike, RanFlags, SameRest, SameCall
<1>3. RanRest
  BY <1>1, <1>2, RanOnly DEF Starting, Plain, names, world, answers
<1>4. Came(2, 1 - 2, 1) /\ stack'[1].op = "execCb" /\ stack'[2].op = "define" /\ 1 \in DOMAIN stack' /\ 2 + (1 - 2) = 1
  BY <1>1, CameAt DEF Starting
<1>5. \A j \in 1..2 : j = 1 \/ j = 2
  OBVIOUS
<1>6. \A f, ms, rs : f.op \in {"execCb", "define"} => RanOk(f, ms, rs)
  BY DEF RanOk
<1>7. RanFrames'
  BY <1>3, <1>4, <1>5, <1>6, RanFramesGo DEF RanRest
<1>8. ASSUME NEW j \in DOMAIN stack, j > 1, ~(j - 1 > 1) PROVE stack[j - 1].op # "execCb"
  <2>1. j \in Nat
    BY SeqFrom DEF TypeInv, StackOk
  <2>2. j - 1 = 1
    BY <1>8, <2>1
  <2> QED
    BY <1>1, <2>2 DEF At
<1>9. \A j \in 1..2 : j \in DOMAIN stack' /\ stack'[j].op = "define" => j - 1 \in DOMAIN stack' /\ stack'[j - 1].op = "execCb"
  <2>1. 2 - 1 = 1
    OBVIOUS
  <2> QED
    BY <1>4, <1>5, <2>1
<1>10. RanDefines'
  BY <1>3, <1>4, <1>8, <1>9, RanDefinesGo DEF RanRest
<1> QED
  BY <1>3, <1>7, <1>10, RanParts DEF RanRest

(* The source of a module runs: only now does runs change                  *)

(* The factory runs: the id of the Module has run before define goes on. *)
LEMMA RanExec == ASSUME TypeInv, TypeInv', CallsInv, FlagInv, RanInv, DidExec PROVE RanInv'
<1>1. PICK h \in Handles : Executed(h) /\ At("execCb") /\ UNCHANGED << registry, names, wait, world >>
  BY DEF DidExec
<1>2. UNCHANGED << mods, registry, defined, scripts >> /\ Kept /\ Handles' = Handles
  BY <1>1, SameKept DEF Executed, names, world, TypeInv
<1>3. PICK id \in Ids : id = mods[h].id
  BY <1>1 DEF Executed
<1>4. runs \in [Ids -> Nat]
  BY DEF TypeInv, SeenOk
<1>5. Grow
  BY <1>1, <1>3, <1>4 DEF Grow, Executed
<1>6. h = Top.h /\ stack[1].op = "execCb" /\ stack[1].h = h /\ 1 \in DOMAIN stack
  BY <1>1 DEF At, Executed
<1>7. 2 \in DOMAIN stack /\ stack[2].op = "define" /\ stack[2].h = h
  <2>1. 1 + 1 \in DOMAIN stack /\ stack[1 + 1].op = "define" /\ stack[1 + 1].h = h
    BY <1>6, CallsParts DEF Returning
  <2> QED
    BY <2>1
<1>8. RanIn(id, runs')
  <2>1. Is(h, "inited")
    BY <1>7 DEF FlagInv, Ready, Is
  <2>2. ArrivedIn(id, runs)
    BY <1>3, <2>1, RequireAssumption DEF RanInv, RanMods, RanMod, Is
  <2>3. CASE Kind[id] = "plain"
    BY <1>1, <1>3, <2>2, <2>3, <1>4 DEF ArrivedIn, RanIn, Executed
  <2>4. CASE Kind[id] # "plain"
    BY <1>1, <1>3, <2>4, <1>4 DEF RanIn, Executed
  <2> QED
    BY <2>3, <2>4
<1>9. Firm
  BY <1>2, <1>5 DEF Firm, Is
<1>10. RanRest
  <2>1. \A g \in Handles : Alike(mods[g], mods'[g]) /\ (Registered(g) => Registered(g)')
    BY <1>2 DEF Alike, Registered
  <2> QED
    BY <1>2, <1>5, <1>9, <2>1, RanModsGo, RanNamesGo, RanScriptsGo DEF RanRest, NewBlank
<1>11. ASSUME NEW n \in Nat, Shifted(n), \A j \in 1..n : j \in DOMAIN stack' => RanNew(stack'[j], mods', runs')
       PROVE  RanInv'
  <2>1. Came(n, 1 - n, 1) /\ n + (1 - n) = 1
    BY <1>1, <1>11, CameAt
  <2>2. RanFrames'
    BY <1>9, <1>11, <2>1, RanFramesGo DEF RanNew
  <2>3. ASSUME NEW j \in DOMAIN stack, j > 1, ~(j - 1 > 1), stack[j - 1].op = "execCb"
        PROVE  RanIn(mods[stack[j].h].id, runs')
    <3>1. j \in Nat
      BY SeqFrom DEF TypeInv, StackOk
    <3>2. j = 2
      BY <2>3, <3>1
    <3> QED
      BY <1>3, <1>7, <1>8, <3>2
  <2>4. RanDefines'
    BY <1>9, <1>11, <2>1, <2>3, RanDefinesGo DEF RanNew
  <2> QED
    BY <1>10, <2>2, <2>4, RanParts DEF RanRest
<1>12. CASE Shifted(0)
  <2>1. \A j \in 1..0 : FALSE
    OBVIOUS
  <2> QED
    BY <1>11, <1>12, <2>1
<1>13. CASE Shifted(1) /\ stack'[1] = require(Nested[mods[h].id], mods[h].id, NONE, NONE)
  <2>1. \A j \in 1..1 : j = 1
    OBVIOUS
  <2>2. RanNew(stack'[1], mods', runs')
    BY <1>13, OthersNew
  <2> QED
    BY <1>11, <1>13, <2>1, <2>2
<1> QED
  BY <1>1, <1>12, <1>13 DEF Executed

LEMMA RanThrow == ASSUME TypeInv, TypeInv', CallsInv, RanInv, DidThrow PROVE RanInv'
<1>1. PICK h \in Handles : Thrown(h) /\ At("execCb") /\ UNCHANGED << registry, names, wait, world, called >>
  BY DEF DidThrow
<1>2. SameMods /\ UNCHANGED << registry, defined, scripts >> /\ Kept /\ Handles' = Handles
  BY <1>1, SameKept DEF Thrown, names, world, TypeInv
<1>3. runs \in [Ids -> Nat]
  BY DEF TypeInv, SeenOk
<1>4. Grow
  BY <1>1, <1>3 DEF Grow, Thrown
<1>5. \A g \in Handles : Alike(mods[g], mods'[g]) /\ (Registered(g) => Registered(g)')
  BY <1>2 DEF SameMods, Alike, RanFlags, Flags, Registered
<1>6. Firm
  BY <1>2, <1>4 DEF Firm, SameMods, Flags, Is
<1>7. RanRest
  BY <1>2, <1>4, <1>5, <1>6, RanModsGo, RanNamesGo, RanScriptsGo DEF RanRest, NewBlank
<1>8. CASE stack' = << >>
  <2>1. DOMAIN stack' = {}
    BY <1>8
  <2>2. RanFrames' /\ RanDefines'
    BY <2>1 DEF RanFrames, RanDefines
  <2> QED
    BY <1>7, <2>2, RanParts DEF RanRest
<1>9. CASE Came(1, 1, 2) /\ 1 \in DOMAIN stack' /\ stack'[1].op = "onError"
  <2>1. (\A j \in 1..1 : j = 1) /\ 1 + 1 = 2
    OBVIOUS
  <2>2. RanFrames'
    BY <1>6, <1>9, <2>1, RanFramesGo DEF RanOk
  <2>3. ASSUME NEW j \in DOMAIN stack, j > 2, ~(j - 1 > 2) PROVE stack[j - 1].op # "execCb"
    <3>1. j \in Nat
      BY SeqFrom DEF TypeInv, StackOk
    <3>2. j - 1 = 2
      BY <2>3, <3>1
    <3>3. stack[1].op = "execCb" /\ 1 \in DOMAIN stack
      BY <1>1 DEF At
    <3>4. stack[1 + 1].op = "define"
      BY <3>3, CallsParts DEF Returning
    <3> QED
      BY <3>2, <3>4
  <2>4. RanDefines'
    BY <1>6, <1>9, <2>1, <2>3, RanDefinesGo
  <2> QED
    BY <1>7, <2>2, <2>4, RanParts DEF RanRest
<1> QED
  BY <1>1, <1>8, <1>9, CameThrown DEF At, TypeInv

LEMMA RanCall == ASSUME TypeInv, TypeInv', CallsInv, RanInv, DidCall PROVE RanInv'
<1>1. PICK h \in Handles : CalledBack(h) /\ At("execCb")
  BY DEF DidCall
<1>2. UNCHANGED << runs, registry, defined, mods >> /\ \A s \in scripts' : s.executed => s \in scripts
  BY <1>1, ScriptsMore DEF DidCall, CalledBack
<1>3. RanRest
  BY <1>1, <1>2, RanSame
<1>4. Came(0, 1 - 0, 1) /\ 0 + (1 - 0) = 1 /\ \A j \in 1..0 : FALSE
  BY <1>1, CameAt DEF CalledBack
<1>5. RanFrames'
  BY <1>3, <1>4, RanFramesGo DEF RanRest
<1>6. 2 \in DOMAIN stack /\ stack[2].h = h /\ mods[h].id = << >>
  <2>1. 1 + 1 \in DOMAIN stack /\ stack[1 + 1].h = h
    BY <1>1, CallsParts DEF Returning, At, CalledBack
  <2> QED
    BY <1>1, <2>1 DEF CalledBack, isDefine
<1>7. ASSUME NEW j \in DOMAIN stack, j > 1, ~(j - 1 > 1) PROVE mods[stack[j].h].id = << >>
  <2>1. j \in Nat
    BY SeqFrom DEF TypeInv, StackOk
  <2>2. j = 2
    BY <1>7, <2>1
  <2> QED
    BY <1>6, <2>2
<1>8. RanDefines'
  BY <1>3, <1>4, <1>7, RanDefinesGo DEF RanRest
<1> QED
  BY <1>3, <1>5, <1>8, RanParts DEF RanRest

(* What define adds to defined has run. *)
LEMMA RanDefine == ASSUME TypeInv, TypeInv', RanInv, DidDefine PROVE RanInv'
<1>1. PICK h \in Handles : DefinedNow(h) /\ At("define") /\ UNCHANGED << undefEvents, urlFetched, paths, world, answers >>
  BY DEF DidDefine
<1>2. Kept /\ Handles' = Handles /\ UNCHANGED << runs, scripts >> /\ Grow
  BY <1>1, OnlyKept, SameGrow DEF DefinedNow, world, answers, TypeInv
<1>3. mods[h].id # << >> => RanIn(mods[h].id, runs)
  <2>1. stack[1].op = "define" /\ stack[1].h = h /\ 1 \in DOMAIN stack
    BY <1>1 DEF At, DefinedNow
  <2>2. ~(1 - 1 \in DOMAIN stack)
    BY SeqFrom DEF TypeInv, StackOk
  <2> QED
    BY <2>1, <2>2 DEF RanInv, RanDefines
<1>4. RanMod(mods'[h], runs')
  <2>1. RanMod(mods[h], runs)
    BY DEF RanInv, RanMods
  <2>2. /\ mods'[h].id = mods[h].id /\ mods'[h].deps = mods[h].deps
        /\ mods'[h].is = (mods[h].is \ {"defining"}) \cup {"defined"}
    BY <1>1 DEF DefinedNow, SameRest, SameCall
  <2> QED
    BY <1>2, <1>3, <2>1, <2>2 DEF RanMod
<1>5. \A g \in Handles : g # h => Alike(mods[g], mods'[g])
  BY <1>1 DEF DefinedNow, OnlyMod, Alike
<1>6. RanMods'
  BY <1>2, <1>4, <1>5, RanModsGo DEF NewBlank
<1>7. Firm
  BY <1>1, <1>2 DEF Firm, DefinedNow, OnlyMod, Is
<1>8. RanScripts'
  BY <1>2, RanScriptsGo
<1>9. \A g \in Handles : Registered(g) => g = h \/ Registered(g)'
  BY <1>1, UnregisterFacts DEF TypeInv, Registered, DefinedNow
<1>10. RanNames'
  <2>1. ASSUME NEW x \in defined' PROVE RanIn(x, runs) \/ \E g \in Handles : g # h /\ Registered(g) /\ mods[g].id = x
    <3>1. x \in defined \/ (x = mods[h].id /\ x # << >>)
      BY <1>1 DEF DefinedNow, definedWith, isDefine
    <3>2. CASE x = mods[h].id /\ x # << >>
      BY <1>3, <3>2
    <3>3. CASE x \in defined
      <4>1. x # << >>
        BY <3>3, RequireAssumption DEF TypeInv, NamesOk
      <4>2. RanIn(x, runs) \/ \E g \in Handles : Registered(g) /\ mods[g].id = x
        BY <3>3 DEF RanInv, RanNames
      <4> QED
        BY <1>3, <4>1, <4>2
    <3> QED
      BY <3>1, <3>2, <3>3
  <2>2. ASSUME NEW x \in defined' PROVE RanIn(x, runs') \/ \E g \in Handles' : Registered(g)' /\ mods'[g].id = x
    <3>1. CASE RanIn(x, runs)
      BY <1>2, <3>1
    <3>2. ASSUME NEW g \in Handles, g # h, Registered(g), mods[g].id = x
          PROVE  \E y \in Handles' : Registered(y)' /\ mods'[y].id = x
      <4>1. g \in Handles' /\ Registered(g)' /\ mods'[g].id = x
        BY <1>2, <1>9, <3>2 DEF Kept
      <4> QED
        BY <4>1
    <3> QED
      BY <2>1, <3>1, <3>2
  <2> QED
    BY <2>2 DEF RanNames
<1>11. \/ Shifted(0)
       \/ Shifted(1) /\ RanNew(stack'[1], mods', runs')
  BY <1>1, OthersNew DEF DefinedNow
<1> QED
  BY <1>1, <1>6, <1>7, <1>8, <1>10, <1>11, RanAt0, RanAt1 DEF RanRest

LEMMA RanNotify == ASSUME TypeInv, TypeInv', RanInv, DidNotify PROVE RanInv'
<1>1. PICK h \in Handles : Emitting(h) /\ At("notify") /\ Plain
  BY DEF DidNotify
<1>2. Alike(mods[h], mods'[h])
  BY <1>1 DEF Emitting, Alike, RanFlags, SameRest, SameCall
<1>3. RanRest
  BY <1>1, <1>2, RanOnly DEF Emitting, Plain, names, world, answers
<1>4. "defined" \in mods'[h].is
  BY <1>1 DEF Emitting, Is
<1>5. RanNew(stack'[1], mods', runs')
  BY <1>1, <1>4 DEF Emitting, RanNew, RanOk
<1> QED
  BY <1>1, <1>3, <1>5, RanAt1 DEF Emitting

LEMMA RanEmitted == ASSUME TypeInv, TypeInv', RanInv, DidEmitted PROVE RanInv'
<1>1. PICK h \in Handles : ToldAll(h) /\ At("emit") /\ Plain
  BY DEF DidEmitted
<1>2. UNCHANGED << runs, registry, defined, scripts >> /\ Kept /\ Handles' = Handles /\ Grow
  BY <1>1, OnlyKept, SameGrow DEF ToldAll, Plain, names, world, answers, TypeInv
<1>3. Is(h, "defined")
  BY <1>1 DEF At, ToldAll, RanInv, RanFrames, RanOk, Is
<1>4. RanMod(mods'[h], runs')
  <2>1. RanMod(mods[h], runs)
    BY DEF RanInv, RanMods
  <2>2. mods'[h].id = mods[h].id /\ mods'[h].deps = mods[h].deps /\ mods'[h].is = mods[h].is \cup {"complete"}
    BY <1>1 DEF ToldAll, SameRest, SameCall
  <2> QED
    BY <1>2, <1>3, <2>1, <2>2 DEF RanMod, Is
<1>5. \A g \in Handles : g # h => Alike(mods[g], mods'[g])
  BY <1>1 DEF ToldAll, OnlyMod, Alike
<1>6. RanMods'
  BY <1>2, <1>4, <1>5, RanModsGo DEF NewBlank
<1>7. Firm
  BY <1>1, <1>2 DEF Firm, ToldAll, OnlyMod, Is
<1>8. \A g \in Handles : Registered(g) => Registered(g)'
  BY <1>2 DEF Registered
<1>9. RanRest
  BY <1>2, <1>6, <1>7, <1>8, RanNamesGo, RanScriptsGo DEF RanRest
<1> QED
  BY <1>1, <1>9, RanAt0 DEF ToldAll

LEMMA RanEmit == ASSUME TypeInv, TypeInv', RanInv, DidEmit PROVE RanInv'
<1>1. PICK h \in Handles, k \in Nat, i \in Nat, l \in Handles : Told(h, k, l, i) /\ At("emit") /\ Plain
  BY DEF DidEmit
<1>2. Alike(mods[l], mods'[l])
  BY <1>1 DEF Told, Alike, SameRest, SameCall
<1>3. RanRest
  BY <1>1, <1>2, RanOnly DEF Told, Plain, names, world, answers
<1>4. Is(h, "defined")
  BY <1>1 DEF At, Told, RanInv, RanFrames, RanOk, Is
<1>5. "defined" \in mods'[h].is
  BY <1>3, <1>4 DEF RanRest, Firm
<1>6. RanNew(stack'[1], mods', runs') /\ RanNew(stack'[2], mods', runs') /\ Shifted(2)
  <2>1. stack'[1] = check(l, FALSE) /\ stack'[2] = [op |-> "emit", h |-> h, k |-> k + 1] /\ Shifted(2)
    BY <1>1 DEF Told
  <2>2. RanNew(stack'[1], mods', runs')
    BY <2>1, OthersNew
  <2>3. RanNew(stack'[2], mods', runs')
    BY <1>5, <2>1 DEF RanNew, RanOk
  <2> QED
    BY <2>1, <2>2, <2>3
<1> QED
  BY <1>1, <1>3, <1>6, RanAt2

(* The Module that getModule finds or makes has what RanInv asks for. *)
LEMMA RanFound ==
  ASSUME TypeInv, TypeInv', RanInv, NEW id, NEW h, Found(id, h), Kept,
         UNCHANGED << runs, scripts, defined >>
  PROVE  RanRest
<1>1. Handles' = Handles \/ Handles' = Handles \cup {h}
  BY DEF Found, Handles
<1>2. \A g \in Handles : Alike(mods[g], mods'[g]) /\ (Registered(g) => Registered(g)')
  BY DEF Found, Alike
<1>3. NewBlank
  BY <1>1 DEF NewBlank, Found, NewMod
<1> QED
  BY <1>1, <1>2, <1>3, RanIdle

LEMMA RanPull ==
  ASSUME TypeInv, TypeInv', RanInv, NEW id \in Ids, NEW h, NEW deps, NEW g, Pulling(id, h, deps, g),
         UNCHANGED << runs, scripts, defined >>, NEW op, At(op), op # "execCb",
         ArrivedIn(id, runs), RanNew(g, mods', runs')
  PROVE  RanInv'
<1>1. RanRest
  BY RanFound DEF Pulling
<1>2. mods'[h].id = id /\ UNCHANGED runs
  BY DEF Pulling, Found
<1>3. RanNew(stack'[1], mods', runs')
  BY <1>2 DEF Pulling, init, RanNew, RanOk
<1>4. RanNew(stack'[2], mods', runs') /\ Shifted(2)
  BY DEF Pulling
<1> QED
  BY <1>1, <1>3, <1>4, RanAt2

LEMMA RanQueue == ASSUME TypeInv, TypeInv', RanInv, DidQueue PROVE RanInv'
<1>1. PICK i \in Sourced : \/ Pulls("require", i, Top)
                           \/ Top.id \in Ids /\ Pulls("complete", i, NextComplete(i))
  BY DEF DidQueue
<1>2. UNCHANGED << runs, scripts, defined >> /\ i \in Ids /\ ArrivedIn(i, runs)
  BY <1>1 DEF Pulls, names, answers, Sourced, ArrivedIn
<1>3. CASE Pulls("require", i, Top)
  <2>1. PICK h : Pulling(i, h, DepNames[i], Top) /\ At("require")
    BY <1>3 DEF Pulls
  <2>2. RanNew(Top, mods', runs')
    BY <2>1 DEF RanNew, RanOk, At
  <2> QED
    BY <1>2, <2>1, <2>2, RanPull
<1>4. CASE Top.id \in Ids /\ Pulls("complete", i, NextComplete(i))
  <2>1. PICK h : Pulling(i, h, DepNames[i], NextComplete(i)) /\ At("complete")
    BY <1>4 DEF Pulls
  <2>2. ArrivedIn(Top.id, runs)
    BY <2>1 DEF At, RanInv, RanFrames, RanOk
  <2>3. RanNew(NextComplete(i), mods', runs')
    BY <1>2, <2>2 DEF NextComplete, RanNew, RanOk
  <2> QED
    BY <1>2, <2>1, <2>3, RanPull
<1> QED
  BY <1>1, <1>3, <1>4

LEMMA RanEnd == ASSUME TypeInv, TypeInv', RanInv, DidEnd PROVE RanInv'
<1>1. QueueDone /\ At("complete") /\ UNCHANGED << registry, names, queues, wait, useInteractive, scripts, issued, answers >>
  BY DEF DidEnd
<1>2. RanRest /\ UNCHANGED runs
  BY <1>1, RanSame DEF QueueDone, names, answers
<1>3. ArrivedIn(Top.id, runs)
  BY <1>1 DEF At, RanInv, RanFrames, RanOk
<1>4. RanNew(stack'[1], mods', runs')
  BY <1>1, <1>2, <1>3 DEF QueueDone, RanNew, RanOk
<1> QED
  BY <1>1, <1>2, <1>4, RanAt1 DEF QueueDone

LEMMA RanGive == ASSUME TypeInv, TypeInv', RanInv, DidGive PROVE RanInv'
<1>1. PICK id \in Ids : Given(id) /\ At("completed") /\ UNCHANGED << names, wait, world, answers >>
  BY DEF DidGive
<1>2. PICK h : Pulling(id, h, ShimDeps(id), checkLoaded)
  BY <1>1 DEF Given
<1>3. ArrivedIn(id, runs)
  BY <1>1 DEF At, Given, RanInv, RanFrames, RanOk
<1>4. RanNew(checkLoaded, mods', runs')
  BY OthersNew
<1>5. UNCHANGED << runs, scripts, defined >>
  BY <1>1 DEF names, world, answers
<1> QED
  BY <1>1, <1>2, <1>3, <1>4, <1>5, RanPull

LEMMA RanRequire == ASSUME TypeInv, TypeInv', RanInv, DidRequire PROVE RanInv'
<1>1. PICK h \in Handles' : NewRequire(h) /\ At("require") /\ UNCHANGED << names, wait, world, answers >>
  BY DEF DidRequire
<1>2. UNCHANGED << runs, scripts, defined >> /\ Handles' = Handles \cup {h} /\ Kept /\ NewBlank
  BY <1>1 DEF NewRequire, names, world, answers, NewBlank
<1>3. \A g \in Handles : Alike(mods[g], mods'[g]) /\ (Registered(g) => Registered(g)')
  BY <1>1 DEF NewRequire, Alike
<1>4. RanRest
  BY <1>2, <1>3, RanIdle
<1>5. mods'[h].id = << >>
  BY <1>1 DEF NewRequire
<1>6. RanNew(stack'[1], mods', runs') /\ RanNew(stack'[2], mods', runs') /\ Shifted(2)
  <2>1. stack'[1] = init(h, Top.deps, Top.callback, Top.errback, TRUE) /\ stack'[2] = checkLoaded /\ Shifted(2)
    BY <1>1 DEF NewRequire
  <2>2. RanNew(stack'[1], mods', runs')
    BY <1>5, <2>1 DEF RanNew, RanOk, init
  <2> QED
    BY <2>1, <2>2, OthersNew
<1> QED
  BY <1>1, <1>4, <1>6, RanAt2

LEMMA RanForce == ASSUME TypeInv, TypeInv', RanInv, DidForce PROVE RanInv'
<1>1. PICK h \in Handles, i \in Nat : ForcedDep(h, i) /\ At("forced") /\ Plain
  BY DEF DidForce
<1>2. Alike(mods[h], mods'[h])
  BY <1>1 DEF ForcedDep, Alike, SameRest, SameCall
<1>3. RanRest
  BY <1>1, <1>2, RanOnly DEF ForcedDep, Plain, names, world, answers
<1>4. RanNew(stack'[1], mods', runs')
  BY <1>1 DEF ForcedDep, RanNew, RanOk
<1> QED
  BY <1>1, <1>3, <1>4, RanAt1 DEF ForcedDep

(* A module that moves to its fallback has not been initialized and is not defined. *)
LEMMA RanMove == ASSUME TypeInv, TypeInv', RanInv, DidMove PROVE RanInv'
<1>1. PICK id \in Ids : MovedAway(id) /\ Missing(id) /\ UNCHANGED << world, answers >>
  BY DEF DidMove
<1>2. UNCHANGED << mods, runs, scripts >> /\ defined' = defined \ {id} /\ Kept /\ Handles' = Handles
  BY <1>1, SameKept DEF MovedAway, undef, world, answers, TypeInv
<1>3. UNCHANGED registry \/ (Lookup(id) # 0 /\ registry' = Unregister(Lookup(id)))
  BY <1>1 DEF MovedAway, undef, removeWaiting
<1>4. ASSUME NEW g \in Handles, Registered(g) PROVE Registered(g)' \/ mods[g].id \notin defined'
  <2>1. CASE UNCHANGED registry
    BY <1>4, <2>1 DEF Registered
  <2>2. CASE Lookup(id) # 0 /\ registry' = Unregister(Lookup(id))
    <3>1. PICK h : h = Lookup(id)
      OBVIOUS
    <3>2. mods[h].id = id
      BY <2>2, <3>1, LookupFacts DEF TypeInv
    <3>3. g # h => Registered(g)'
      <4>1. \A k \in DOMAIN registry : registry[k] # h => \E j \in DOMAIN registry' : registry'[j] = registry[k]
        BY <2>2, <3>1, UnregisterFacts DEF TypeInv
      <4> QED
        BY <1>4, <4>1 DEF Registered
    <3> QED
      BY <1>2, <3>2, <3>3
  <2> QED
    BY <1>3, <2>1, <2>2
<1>5. RanRest
  <2>1. \A h \in Handles : Alike(mods[h], mods'[h])
    BY <1>2 DEF Alike
  <2> QED
    BY <1>2, <1>4, <2>1, RanIdle DEF NewBlank
<1>6. At(Top.op) /\ Top.op # "execCb"
  BY <1>1, TopGood DEF At, Top, TypeInv, MovedAway
<1>7. RanNew(stack'[1], mods', runs')
  BY <1>1, OthersNew DEF MovedAway
<1>8. \/ Shifted(1)
      \/ Shifted(2) /\ RanNew(stack'[2], mods', runs')
  <2>1. \A f : Mild(f) => RanNew(f, mods', runs')
    BY DEF Mild, Keys, RanNew, RanOk
  <2>2. Shifted(1) \/ (Shifted(2) /\ Mild(stack'[2]))
    BY <1>1 DEF MovedAway
  <2> QED
    BY <2>1, <2>2
<1> QED
  BY <1>5, <1>6, <1>7, <1>8, RanAt1, RanAt2

LEMMA RanAsk == ASSUME TypeInv, TypeInv', RanInv, DidAsk PROVE RanInv'
<1>1. PICK r \in Requires :
        Asking(r) /\ UNCHANGED << registry, names, queues, wait, useInteractive, scripts, answers >>
  BY DEF DidAsk
<1>2. RanRest
  BY <1>1, RanSame DEF Asking, names, answers
<1>3. RanNew(stack'[1], mods', runs')
  BY <1>1, OthersNew DEF Asking
<1> QED
  BY <1>1, <1>2, <1>3, RanFirst DEF Asking

LEMMA RanLoad == ASSUME TypeInv, TypeInv', RanInv, DidLoad PROVE RanInv'
<1>1. PICK s \in scripts :
        Loaded(s) /\ UNCHANGED << registry, names, queues, wait, useInteractive, issued, answers >>
  BY DEF DidLoad
<1>2. RanRest
  BY <1>1, RanSame DEF Loaded, names, answers
<1>3. ArrivedIn(s.id, runs) /\ UNCHANGED runs
  BY <1>1 DEF Loaded, RanInv, RanScripts, answers
<1>4. RanNew(stack'[1], mods', runs')
  BY <1>1, <1>3 DEF Loaded, RanNew, RanOk
<1> QED
  BY <1>1, <1>2, <1>4, RanFirst DEF Loaded

LEMMA RanFail == ASSUME TypeInv, TypeInv', RanInv, DidFail PROVE RanInv'
<1>1. PICK s \in scripts :
        Failing(s) /\ UNCHANGED << registry, names, queues, wait, useInteractive, issued, answers >>
  BY DEF DidFail
<1>2. RanRest
  BY <1>1, RanSame DEF Failing, names, answers
<1>3. stack = << >> /\ IsSeq(stack') /\ DOMAIN stack' = {1} /\ stack'[1] = [op |-> "scriptError", id |-> s.id]
  BY <1>1 DEF Failing
<1>4. RanNew(stack'[1], mods', runs')
  BY <1>3 DEF RanNew, RanOk
<1> QED
  BY <1>2, <1>3, <1>4, RanFirst

(* A script comes: if it has no define() it has run by then. *)
LEMMA RanRun == ASSUME TypeInv, TypeInv', RanInv, DidRun PROVE RanInv'
<1>1. PICK s \in scripts : Running(s) /\ UNCHANGED << registry, names, wait, useInteractive, issued, called >>
  BY DEF DidRun
<1>2. UNCHANGED << mods, stack, registry, defined >> /\ Kept /\ Handles' = Handles
  BY <1>1, SameKept DEF Running, names, TypeInv
<1>3. runs \in [Ids -> Nat] /\ s \in Script
  BY DEF TypeInv, SeenOk, PageOk
<1>4. Grow
  <2>1. s.id \in Ids /\ (runs' = [runs EXCEPT ![s.id] = @ + 1] \/ runs' = runs)
    BY <1>1 DEF Running
  <2> QED
    BY <1>3, <2>1 DEF Grow
<1>5. ArrivedIn(s.id, runs')
  BY <1>1, <1>3 DEF Running, Sourced, ArrivedIn
<1>6. RanScripts'
  <2>1. ASSUME NEW t \in scripts', t.executed PROVE ArrivedIn(t.id, runs')
    <3>1. t \in scripts \/ t = [s EXCEPT !.executed = TRUE]
      BY <1>1, <2>1 DEF Running
    <3>2. CASE t \in scripts
      <4>1. ArrivedIn(t.id, runs)
        BY <2>1, <3>2 DEF RanInv, RanScripts
      <4> QED
        BY <1>4, <4>1, Grown
    <3>3. CASE t = [s EXCEPT !.executed = TRUE]
      <4>1. t.id = s.id
        BY <1>3, <3>3 DEF Script
      <4> QED
        BY <1>5, <4>1
    <3> QED
      BY <3>1, <3>2, <3>3
  <2> QED
    BY <2>1 DEF RanScripts
<1>7. \A g \in Handles : Alike(mods[g], mods'[g]) /\ (Registered(g) => Registered(g)')
  BY <1>2 DEF Alike, Registered
<1>8. Firm /\ RanMods' /\ RanNames'
  BY <1>2, <1>4, <1>7, RanModsGo, RanNamesGo DEF Firm, Is, NewBlank
<1>9. DOMAIN stack' = {}
  BY <1>1 DEF Running
<1>10. RanFrames' /\ RanDefines'
  BY <1>9 DEF RanFrames, RanDefines
<1> QED
  BY <1>6, <1>8, <1>10, RanParts

(* RanInv is kept by every step of the loader. *)
LEMMA RanHolds ==
  ASSUME TypeInv, TypeInv', CallsInv, FlagInv, WaitInv, RanInv, Did
  PROVE  RanInv'
BY RanQuiet, RanInit, RanEnable, RanWire, RanServe, RanTake, RanListen, RanFetch, RanStart, RanExec,
   RanThrow,
   RanCall, RanDefine, RanNotify, RanEmitted, RanEmit, RanQueue, RanEnd, RanGive, RanRequire, RanForce, RanMove,
   RanAsk, RanLoad, RanFail, RanRun DEF Did

(* A Module of require counts the dependencies that it still lacks, up to  *)
(* where enable() has got                                                  *)
Anon(h) == h \in Handles /\ mods[h].id = << >>
Unmet(m, u) == {j \in 1..u : m.deps[j] \notin handlers} \ m.depMatched
Met(m, rs) == \A k \in DOMAIN m.deps : m.deps[k] \in handlers \/ RanIn(m.deps[k], rs)
CountMod(m, rs) ==
  /\ "enabled" \notin m.is => m.depCount = 0 /\ m.depMatched = {}
  /\ \A j \in m.depMatched : j \in DOMAIN m.deps /\ RanIn(m.deps[j], rs)
  /\ "enabled" \in m.is /\ "enabling" \notin m.is => m.depCount = Cardinality(Unmet(m, Len(m.deps)))
CountWire(m, i) ==
  /\ {"inited", "enabled", "enabling"} \subseteq m.is /\ i <= Len(m.deps) + 1
  /\ m.depCount = Cardinality(Unmet(m, i - 1)) /\ m.depMatched \subseteq 1..(i - 1)
Of(f, op, h) == f.op = op /\ f.h = h
CountFrames(h) ==
  /\ \A j \in DOMAIN stack : Of(stack[j], "wire", h) => CountWire(mods[h], stack[j].i)
  /\ \A j, k \in DOMAIN stack : Of(stack[j], "wire", h) /\ Of(stack[k], "wire", h) => j = k
  /\ \A j \in DOMAIN stack : Of(stack[j], "enable", h) => j = 1 /\ "enabled" \notin mods[h].is
  /\ \A j \in DOMAIN stack : Of(stack[j], "define", h) => Met(mods[h], runs)
(* h listens to the module i as its dependency u                           *)
Listens(h, u, i) ==
  \/ \E g \in Handles : mods[g].id = i /\ \E k \in DOMAIN mods[g].onDefined : mods[g].onDefined[k] = << h, u >>
  \/ i \in DOMAIN undefEvents /\ \E k \in DOMAIN undefEvents[i].defined : undefEvents[i].defined[k] = << h, u >>
Past(h, u) == \A k \in DOMAIN stack : Of(stack[k], "wire", h) => u < stack[k].i
CountHears(h) == \A u, i : Listens(h, u, i) =>
  /\ {"inited", "enabled"} \subseteq mods[h].is
  /\ u \in DOMAIN mods[h].deps /\ mods[h].deps[u] = i /\ i \notin handlers
  /\ Past(h, u)
CountFor(h) == CountMod(mods[h], runs) /\ CountFrames(h) /\ CountHears(h)
CountInv == \A h \in Handles : mods[h].id = << >> => CountFor(h)

CountFlags == {"inited", "enabled", "enabling"}
CountSame(m, n) ==
  /\ n.id = m.id /\ n.deps = m.deps /\ n.depCount = m.depCount /\ n.depMatched = m.depMatched
  /\ \A f \in CountFlags : f \in n.is <=> f \in m.is

(* What the count of a Module depends on. *)
LEMMA UnmetSame ==
  ASSUME NEW m, NEW n, CountSame(m, n), NEW u PROVE Unmet(n, u) = Unmet(m, u)
BY DEF Unmet, CountSame

LEMMA CountModSame ==
  ASSUME TypeInv, TypeInv', Grow, NEW m, NEW n, CountSame(m, n), CountMod(m, runs)
  PROVE  CountMod(n, runs')
<1>1. \A u : Unmet(n, u) = Unmet(m, u)
  BY UnmetSame
<1>2. \A i : RanIn(i, runs) => RanIn(i, runs')
  BY Grown
<1> QED
  BY <1>1, <1>2 DEF CountMod, CountSame, CountFlags

LEMMA MetSame ==
  ASSUME TypeInv, TypeInv', Grow, NEW m, NEW n, n.deps = m.deps, Met(m, runs)
  PROVE  Met(n, runs')
BY Grown DEF Met

LEMMA CountWireSame ==
  ASSUME NEW m, NEW n, CountSame(m, n), NEW i, CountWire(m, i) PROVE CountWire(n, i)
<1>1. \A u : Unmet(n, u) = Unmet(m, u)
  BY UnmetSame
<1> QED
  BY <1>1 DEF CountWire, CountSame, CountFlags

(* A frame that says nothing of the count of h                             *)
Quits(f, h) == f.op \in {"wire", "enable", "define"} => f.h # h

LEMMA FramesStay ==
  ASSUME TypeInv, TypeInv', Grow, NEW h, CountFrames(h), mods'[h].deps = mods[h].deps,
         "enabled" \in mods'[h].is <=> "enabled" \in mods[h].is,
         \A j \in DOMAIN stack : Of(stack[j], "wire", h) => CountWire(mods'[h], stack[j].i),
         NEW k, NEW d, NEW b, Came(k, d, b), b >= 1 \/ d = 0,
         \A j \in 1..k : j \in DOMAIN stack' =>
           Quits(stack'[j], h) \/ (stack'[j].op = "define" /\ Met(mods'[h], runs'))
  PROVE  CountFrames(h)' /\ \A u : Past(h, u) => Past(h, u)'
<1>1. PICK m, n : m = mods[h] /\ n = mods'[h]
  OBVIOUS
<1>2. ASSUME NEW op \in {"wire", "enable", "define"}, NEW j \in DOMAIN stack', Of(stack'[j], op, h),
             op # "define" \/ j > k
      PROVE  /\ j + d \in DOMAIN stack /\ stack'[j] = stack[j + d] /\ j \in Nat \ {0} /\ d \in Int /\ j + d > b /\ b \in Nat
             /\ Of(stack[j + d], op, h)
  <2>1. j \in Nat \ {0} /\ k \in Nat
    BY DEF Came
  <2>2. j > k
    BY <1>2, <2>1 DEF Quits, Of
  <2> QED
    BY <1>2, <2>1, <2>2 DEF Came, Of
<1>3. ASSUME NEW j \in DOMAIN stack', Of(stack'[j], "wire", h) PROVE CountWire(n, stack'[j].i)
  <2>1. PICK i : i = stack'[j].i
    OBVIOUS
  <2>2. CountWire(n, i)
    BY <1>1, <1>2, <1>3, <2>1
  <2> QED
    BY <2>1, <2>2
<1>4. ASSUME NEW i \in DOMAIN stack', NEW j \in DOMAIN stack', Of(stack'[i], "wire", h), Of(stack'[j], "wire", h)
      PROVE  i = j
  <2>1. i + d = j + d
    BY <1>2, <1>4 DEF CountFrames
  <2> QED
    BY <1>2, <1>4, <2>1
<1>5. ASSUME NEW j \in DOMAIN stack', Of(stack'[j], "enable", h) PROVE j = 1 /\ "enabled" \notin n.is
  <2>1. j + d = 1 /\ "enabled" \notin m.is
    BY <1>1, <1>2, <1>5 DEF CountFrames
  <2>2. j \in Nat \ {0} /\ d \in Int /\ j + d > b /\ b \in Nat
    BY <1>2, <1>5
  <2> QED
    BY <1>1, <2>1, <2>2
<1>6. ASSUME NEW j \in DOMAIN stack', Of(stack'[j], "define", h) PROVE Met(n, runs')
  <2>1. j \in Nat \ {0} /\ k \in Nat
    BY DEF Came
  <2>2. CASE j > k
    <3>1. Met(m, runs)
      BY <1>1, <1>2, <1>6, <2>2 DEF CountFrames
    <3>2. n.deps = m.deps
      BY <1>1
    <3> QED
      BY <3>1, <3>2, MetSame
  <2>3. CASE j <= k
    BY <1>1, <1>6, <2>1, <2>3 DEF Quits, Of
  <2> QED
    BY <2>1, <2>2, <2>3
<1>7. ASSUME NEW u, Past(h, u), NEW j \in DOMAIN stack', Of(stack'[j], "wire", h) PROVE u < stack'[j].i
  BY <1>2, <1>7 DEF Past
<1>8. \A u : Past(h, u) => Past(h, u)'
  BY <1>7 DEF Past
<1>9. CountFrames(h)'
  BY <1>1, <1>3, <1>4, <1>5, <1>6 DEF CountFrames
<1> QED
  BY <1>8, <1>9

Deaf(h) == \A u, i : Listens(h, u, i)' => Listens(h, u, i)

(* A step that leaves a Module of require and its listeners alone keeps its count. *)
LEMMA CountAside ==
  ASSUME TypeInv, TypeInv', Grow, NEW h, CountFor(h), CountSame(mods[h], mods'[h]), Deaf(h),
         NEW k, NEW d, NEW b, Came(k, d, b), b >= 1 \/ d = 0,
         \A j \in 1..k : j \in DOMAIN stack' => Quits(stack'[j], h)
  PROVE  CountFor(h)'
<1>1. CountFrames(h)' /\ \A u : Past(h, u) => Past(h, u)'
  <2>1. PICK m, n : m = mods[h] /\ n = mods'[h]
    OBVIOUS
  <2>2. \A i : CountWire(m, i) => CountWire(n, i)
    BY <2>1, CountWireSame
  <2>3. \A j \in DOMAIN stack : Of(stack[j], "wire", h) => CountWire(mods'[h], stack[j].i)
    BY <2>1, <2>2 DEF CountFor, CountFrames
  <2>4. n.deps = m.deps /\ ("enabled" \in n.is <=> "enabled" \in m.is)
    BY <2>1 DEF CountSame, CountFlags
  <2> QED
    BY <2>1, <2>3, <2>4, FramesStay DEF CountFor
<1>2. CountMod(mods[h], runs)'
  <2>1. PICK m, n : m = mods[h] /\ n = mods'[h]
    OBVIOUS
  <2>2. CountMod(n, runs')
    BY <2>1, CountModSame DEF CountFor
  <2> QED
    BY <2>1, <2>2 DEF CountMod, Unmet, RanIn
<1>3. ASSUME NEW u, NEW i, Listens(h, u, i)'
      PROVE  /\ {"inited", "enabled"} \subseteq mods'[h].is
             /\ u \in DOMAIN mods'[h].deps /\ mods'[h].deps[u] = i /\ i \notin handlers
             /\ Past(h, u)'
  <2>1. Listens(h, u, i)
    BY <1>3 DEF Deaf
  <2>2. /\ {"inited", "enabled"} \subseteq mods[h].is
        /\ u \in DOMAIN mods[h].deps /\ mods[h].deps[u] = i /\ i \notin handlers /\ Past(h, u)
    BY <2>1 DEF CountFor, CountHears
  <2> QED
    BY <1>1, <2>2 DEF CountSame, CountFlags
<1>4. CountHears(h)'
  BY <1>3 DEF CountHears
<1> QED
  BY <1>1, <1>2, <1>4 DEF CountFor

LEMMA DeafKept ==
  ASSUME Kept, UNCHANGED undefEvents,
         \A g \in Handles : mods'[g].onDefined = mods[g].onDefined,
         \A g \in Handles' : g \notin Handles =>
           mods'[g].onDefined = << >> \/ mods'[g].onDefined = EventsFor(mods'[g].id).defined
  PROVE  \A h : Deaf(h)
<1> SUFFICES ASSUME NEW h, NEW u, NEW i, Listens(h, u, i)' PROVE Listens(h, u, i)
  BY DEF Deaf
<1>1. CASE i \in DOMAIN undefEvents /\ \E k \in DOMAIN undefEvents[i].defined : undefEvents[i].defined[k] = << h, u >>
  BY <1>1 DEF Listens
<1>2. ASSUME NEW g \in Handles', mods'[g].id = i, NEW k \in DOMAIN mods'[g].onDefined, mods'[g].onDefined[k] = << h, u >>
      PROVE  Listens(h, u, i)
  <2>1. CASE g \in Handles
    <3>1. mods[g].id = i /\ mods'[g].onDefined = mods[g].onDefined
      BY <1>2, <2>1 DEF Kept
    <3> QED
      BY <1>2, <2>1, <3>1 DEF Listens
  <2>2. CASE g \notin Handles
    <3>1. PICK s : s = mods'[g].onDefined
      OBVIOUS
    <3>2. k \in DOMAIN s /\ s[k] = << h, u >> /\ (s = << >> \/ s = EventsFor(i).defined)
      BY <1>2, <2>2, <3>1
    <3>3. s # << >>
      BY <3>2
    <3>4. i \in DOMAIN undefEvents /\ s = undefEvents[i].defined
      BY <3>2, <3>3 DEF EventsFor, NoEvents
    <3> QED
      BY <3>2, <3>4 DEF Listens
  <2> QED
    BY <2>1, <2>2
<1> QED
  BY <1>1, <1>2 DEF Listens

LEMMA DeafSame == ASSUME UNCHANGED << mods, undefEvents >> PROVE \A h : Deaf(h)
BY DEF Deaf, Listens, Handles

(* A new frame that says nothing of a Module without an id other than x    *)
Minds(f, x) == f.op \in {"wire", "enable", "define"} => f.h = x \/ f.h \notin Handles \/ mods[f.h].id # << >>
OthersSame(x) == \A h \in Handles : mods[h].id = << >> /\ h # x => CountSame(mods[h], mods'[h]) /\ Deaf(h)

LEMMA CountOthers ==
  ASSUME TypeInv, TypeInv', CountInv, Grow, NEW x, OthersSame(x),
         NEW k, NEW d, NEW b, Came(k, d, b), b >= 1 \/ d = 0,
         \A j \in 1..k : j \in DOMAIN stack' => Minds(stack'[j], x)
  PROVE  \A h \in Handles : mods[h].id = << >> /\ h # x => CountFor(h)'
<1> SUFFICES ASSUME NEW h \in Handles, mods[h].id = << >>, h # x PROVE CountFor(h)'
  OBVIOUS
<1>1. CountFor(h) /\ CountSame(mods[h], mods'[h]) /\ Deaf(h)
  BY DEF CountInv, OthersSame
<1>2. \A j \in 1..k : j \in DOMAIN stack' => Quits(stack'[j], h)
  BY DEF Quits, Minds
<1> QED
  BY <1>1, <1>2, CountAside

LEMMA CountStep ==
  ASSUME TypeInv, TypeInv', CountInv, Grow, Kept, NEW x, OthersSame(x),
         NEW k, NEW d, NEW b, Came(k, d, b), b >= 1 \/ d = 0,
         \A j \in 1..k : j \in DOMAIN stack' => Minds(stack'[j], x),
         x \in Handles /\ mods[x].id = << >> => CountFor(x)',
         \A h \in Handles' : h \notin Handles => mods'[h].id # << >>
  PROVE  CountInv'
<1>1. ASSUME NEW h \in Handles', mods'[h].id = << >> PROVE CountFor(h)'
  <2>1. h \in Handles /\ mods[h].id = << >>
    BY <1>1 DEF Kept
  <2>2. CASE h = x
    BY <2>1, <2>2
  <2>3. CASE h # x
    BY <2>1, <2>3, CountOthers
  <2> QED
    BY <2>2, <2>3
<1> QED
  BY <1>1 DEF CountInv

LEMMA CountAt ==
  ASSUME TypeInv, TypeInv', CountInv, Grow, Kept, NEW x, OthersSame(x), NEW op, At(op), NEW n \in Nat, Shifted(n),
         \A j \in 1..n : j \in DOMAIN stack' => Minds(stack'[j], x),
         x \in Handles /\ mods[x].id = << >> => CountFor(x)',
         \A h \in Handles' : h \notin Handles => mods'[h].id # << >>
  PROVE  CountInv'
<1>1. Came(n, 1 - n, 1) /\ 1 >= 1
  BY CameAt
<1> QED
  BY <1>1, CountStep

CountRest(x) ==
  /\ Grow /\ Kept /\ OthersSame(x) /\ (x \in Handles /\ mods[x].id = << >> => CountFor(x)')
  /\ \A h \in Handles' : h \notin Handles => mods'[h].id # << >>
LEMMA CountAt0 ==
  ASSUME TypeInv, TypeInv', CountInv, NEW x, CountRest(x), NEW op, At(op), Shifted(0) PROVE CountInv'
<1>1. \A j \in 1..0 : FALSE
  OBVIOUS
<1> QED
  BY <1>1, CountAt DEF CountRest
LEMMA CountAt1 ==
  ASSUME TypeInv, TypeInv', CountInv, NEW x, CountRest(x), NEW op, At(op), Shifted(1), Minds(stack'[1], x)
  PROVE  CountInv'
<1>1. \A j \in 1..1 : j = 1
  OBVIOUS
<1> QED
  BY <1>1, CountAt DEF CountRest
LEMMA CountAt2 ==
  ASSUME TypeInv, TypeInv', CountInv, NEW x, CountRest(x), NEW op, At(op), Shifted(2),
         Minds(stack'[1], x), Minds(stack'[2], x)
  PROVE  CountInv'
<1>1. \A j \in 1..2 : j = 1 \/ j = 2
  OBVIOUS
<1> QED
  BY <1>1, CountAt DEF CountRest
LEMMA CountFirst ==
  ASSUME TypeInv, TypeInv', CountInv, NEW x, CountRest(x), stack = << >>, IsSeq(stack'), DOMAIN stack' = {1},
         Minds(stack'[1], x)
  PROVE  CountInv'
<1>1. Came(1, 0, 0)
  BY CameFirst
<1>2. \A j \in 1..1 : j = 1
  OBVIOUS
<1> QED
  BY <1>1, <1>2, CountStep DEF CountRest

(* Steps of Modules with an id                                             *)
LEMMA CountOnly ==
  ASSUME TypeInv, TypeInv', CountInv, Grow, NEW h \in Handles, OnlyMod(h), SameRest(h), UNCHANGED undefEvents,
         mods[h].id = << >> => CountFor(h)'
  PROVE  CountRest(h)
<1>1. Kept /\ Handles' = Handles
  BY OnlyKept DEF TypeInv
<1>2. \A g : Deaf(g)
  <2>1. \A g \in Handles : mods'[g].onDefined = mods[g].onDefined
    BY DEF OnlyMod, SameRest
  <2> QED
    BY <1>1, <2>1, DeafKept
<1>3. \A g \in Handles : g # h => CountSame(mods[g], mods'[g])
  BY DEF OnlyMod, CountSame
<1> QED
  BY <1>1, <1>2, <1>3 DEF CountRest, OthersSame

LEMMA CountNone ==
  ASSUME TypeInv, TypeInv', CountInv, Grow, SameMods \/ UNCHANGED mods, UNCHANGED undefEvents
  PROVE  CountRest(0)
<1>1. Kept /\ Handles' = Handles /\ SameMods
  BY SameKept DEF TypeInv
<1>2. \A g : Deaf(g)
  <2>1. \A g \in Handles : mods'[g].onDefined = mods[g].onDefined
    BY <1>1 DEF SameMods
  <2> QED
    BY <1>1, <2>1, DeafKept
<1>3. \A g \in Handles : CountSame(mods[g], mods'[g])
  BY <1>1 DEF SameMods, CountSame, CountFlags, Flags
<1>4. 0 \notin Handles
  BY DEF Handles
<1> QED
  BY <1>1, <1>2, <1>3, <1>4 DEF CountRest, OthersSame

(* A Module of which neither the count nor its flags change                *)
LEMMA CountStill ==
  ASSUME TypeInv, TypeInv', CountInv, Grow, NEW h \in Handles, OnlyMod(h), SameRest(h), SameCount(h), SameCall(h),
         UNCHANGED undefEvents, \A f \in CountFlags : f \in mods'[h].is <=> f \in mods[h].is
  PROVE  CountRest(0)
<1>1. Kept /\ Handles' = Handles
  BY OnlyKept DEF TypeInv
<1>2. \A g : Deaf(g)
  <2>1. \A g \in Handles : mods'[g].onDefined = mods[g].onDefined
    BY DEF OnlyMod, SameRest
  <2> QED
    BY <1>1, <2>1, DeafKept
<1>3. \A g \in Handles : CountSame(mods[g], mods'[g])
  BY DEF OnlyMod, CountSame, SameRest, SameCount, SameCall
<1>4. 0 \notin Handles
  BY DEF Handles
<1> QED
  BY <1>1, <1>2, <1>3, <1>4 DEF CountRest, OthersSame

Countless(f) == f.op \notin {"wire", "enable", "define"}
LEMMA MindsNot == ASSUME NEW f, Countless(f), NEW x PROVE Minds(f, x)
BY DEF Countless, Minds
LEMMA MindsOps ==
  ASSUME NEW f, NEW x,
         \/ \E h, i : f \in {check(h, i), [op |-> "execCb", h |-> h], [op |-> "notify", h |-> h], checkLoaded,
                             [op |-> "emit", h |-> h, k |-> i], [op |-> "complete", id |-> h, found |-> i],
                             [op |-> "completed", id |-> h, found |-> i], [op |-> "scriptError", id |-> h]}
         \/ \E a, b, c, d : f = require(a, b, c, d)
         \/ \E a, b, c, d, e : f = init(a, b, c, d, e)
         \/ \E i : f \in {WireNext(x, i), enable(x), [op |-> "wire", h |-> x, i |-> i]}
  PROVE  Minds(f, x)
BY DEF Minds, check, checkLoaded, require, init, WireNext, enable

LEMMA CountQuiet == ASSUME TypeInv, TypeInv', CountInv, Quiet PROVE CountInv'
<1>1. Grow /\ UNCHANGED undefEvents /\ SameMods
  BY SameGrow DEF Quiet, names
<1>2. CountRest(0)
  BY <1>1, CountNone
<1>3. \A f : Mild(f) => Minds(f, 0)
  BY DEF Mild, Keys, Minds
<1>4. IsSeq(stack') /\ Len(stack') \in Nat /\ DOMAIN stack' = 1..Len(stack')
  <2>1. IsSeq(stack')
    BY DEF TypeInv, StackOk
  <2> QED
    BY <2>1, SeqFrom
<1>5. ASSUME NEW k, NEW d, NEW b, Came(k, d, b), b >= 1 \/ d = 0, \A j \in 1..k : j \in DOMAIN stack' => Mild(stack'[j])
      PROVE  CountInv'
  BY <1>2, <1>3, <1>5, CountStep DEF CountRest
<1>6. CASE \A j \in DOMAIN stack' : Mild(stack'[j])
  <2>1. PICK k : k = Len(stack')
    OBVIOUS
  <2>2. k \in Nat /\ DOMAIN stack' = 1..k
    BY <1>4, <2>1
  <2>3. Came(k, 0, 0)
    BY <1>4, <2>2 DEF Came
  <2> QED
    BY <1>5, <1>6, <2>2, <2>3
<1>7. CASE UNCHANGED stack
  <2>1. \A j \in DOMAIN stack' : j \in Nat \ {0}
    BY <1>4
  <2>2. Came(0, 0, 0) /\ \A j \in 1..0 : FALSE
    BY <1>4, <1>7, <2>1 DEF Came
  <2> QED
    BY <1>5, <2>2
<1>8. CASE stack # << >> /\ \E k \in Nat : Shifted(k) /\ \A j \in 1..k : j \in DOMAIN stack' => Mild(stack'[j])
  <2>1. PICK k \in Nat : Shifted(k) /\ \A j \in 1..k : j \in DOMAIN stack' => Mild(stack'[j])
    BY <1>8
  <2>2. Came(k, 1 - k, 1) /\ 1 >= 1
    BY <1>8, <2>1, CameShifted DEF TypeInv
  <2> QED
    BY <1>5, <2>1, <2>2
<1> QED
  BY <1>6, <1>7, <1>8 DEF Quiet, QuietStack

LEMMA CountFetch == ASSUME TypeInv, TypeInv', CountInv, DidFetch PROVE CountInv'
<1>1. PICK h \in Handles : Fetching(h) /\ At("check")
  BY DEF DidFetch
<1>2. Grow /\ UNCHANGED undefEvents
  BY SameGrow DEF DidFetch, answers
<1>3. CountRest(0)
  <2>1. \A f \in CountFlags : f \in mods'[h].is <=> f \in mods[h].is
    BY <1>1 DEF Fetching, CountFlags
  <2> QED
    BY <1>1, <1>2, <2>1, CountStill DEF Fetching
<1>4. Shifted(0) \/ (Shifted(1) /\ Minds(stack'[1], 0))
  BY <1>1, MindsOps DEF Fetching
<1> QED
  BY <1>1, <1>3, <1>4, CountAt0, CountAt1

LEMMA CountExec == ASSUME TypeInv, TypeInv', CountInv, DidExec PROVE CountInv'
<1>1. PICK h \in Handles : Executed(h) /\ At("execCb") /\ UNCHANGED << registry, names, wait, world >>
  BY DEF DidExec
<1>2. runs \in [Ids -> Nat]
  BY DEF TypeInv, SeenOk
<1>3. Grow
  BY <1>1, <1>2 DEF Grow, Executed
<1>4. CountRest(0)
  BY <1>1, <1>3, CountNone DEF Executed, names
<1>5. Shifted(0) \/ (Shifted(1) /\ Minds(stack'[1], 0))
  BY <1>1, MindsOps DEF Executed
<1> QED
  BY <1>1, <1>4, <1>5, CountAt0, CountAt1

LEMMA CountThrow == ASSUME TypeInv, TypeInv', CountInv, DidThrow PROVE CountInv'
<1>1. PICK h \in Handles : Thrown(h) /\ At("execCb") /\ UNCHANGED << registry, names, wait, world, called >>
  BY DEF DidThrow
<1>2. runs \in [Ids -> Nat]
  BY DEF TypeInv, SeenOk
<1>3. Grow
  BY <1>1, <1>2 DEF Grow, Thrown
<1>4. CountRest(0)
  BY <1>1, <1>3, CountNone DEF Thrown, names
<1>5. CASE Came(0, 0, 0)
  <2>1. \A j \in 1..0 : FALSE
    OBVIOUS
  <2> QED
    BY <1>4, <1>5, <2>1, CountStep DEF CountRest
<1>6. CASE Came(1, 1, 2) /\ 1 \in DOMAIN stack' /\ stack'[1].op = "onError"
  <2>1. (\A j \in 1..1 : j = 1) /\ 2 >= 1
    OBVIOUS
  <2>2. \A j \in 1..1 : j \in DOMAIN stack' => Minds(stack'[j], 0)
    BY <1>6, <2>1 DEF Minds
  <2> QED
    BY <1>4, <1>6, <2>1, <2>2, CountStep DEF CountRest
<1> QED
  BY <1>1, <1>5, <1>6, CameThrown DEF At, TypeInv

LEMMA CountCall == ASSUME TypeInv, TypeInv', CountInv, DidCall PROVE CountInv'
<1>1. PICK h \in Handles : CalledBack(h) /\ At("execCb")
  BY DEF DidCall
<1>2. Grow /\ UNCHANGED << mods, undefEvents >>
  BY <1>1, SameGrow DEF DidCall, CalledBack
<1> QED
  BY <1>1, <1>2, CountNone, CountAt0 DEF CalledBack

LEMMA CountDefine == ASSUME TypeInv, TypeInv', CountInv, DidDefine PROVE CountInv'
<1>1. PICK h \in Handles : DefinedNow(h) /\ At("define") /\ UNCHANGED << undefEvents, urlFetched, paths, world, answers >>
  BY DEF DidDefine
<1>2. Grow
  BY <1>1, SameGrow DEF answers
<1>3. CountRest(0)
  <2>1. \A f \in CountFlags : f \in mods'[h].is <=> f \in mods[h].is
    BY <1>1 DEF DefinedNow, CountFlags
  <2> QED
    BY <1>1, <1>2, <2>1, CountStill DEF DefinedNow
<1>4. Shifted(0) \/ (Shifted(1) /\ Minds(stack'[1], 0))
  BY <1>1, MindsOps DEF DefinedNow
<1> QED
  BY <1>1, <1>3, <1>4, CountAt0, CountAt1

LEMMA CountNotify == ASSUME TypeInv, TypeInv', CountInv, DidNotify PROVE CountInv'
<1>1. PICK h \in Handles : Emitting(h) /\ At("notify") /\ Plain
  BY DEF DidNotify
<1>2. Grow /\ UNCHANGED undefEvents
  BY <1>1, SameGrow DEF Plain, names, answers
<1>3. CountRest(0)
  <2>1. \A f \in CountFlags : f \in mods'[h].is <=> f \in mods[h].is
    BY <1>1 DEF Emitting, CountFlags
  <2> QED
    BY <1>1, <1>2, <2>1, CountStill DEF Emitting
<1>4. Shifted(1) /\ Minds(stack'[1], 0)
  BY <1>1, MindsOps DEF Emitting
<1> QED
  BY <1>1, <1>3, <1>4, CountAt1

LEMMA CountEmitted == ASSUME TypeInv, TypeInv', CountInv, DidEmitted PROVE CountInv'
<1>1. PICK h \in Handles : ToldAll(h) /\ At("emit") /\ Plain
  BY DEF DidEmitted
<1>2. Grow /\ UNCHANGED undefEvents
  BY <1>1, SameGrow DEF Plain, names, answers
<1>3. CountRest(0)
  <2>1. \A f \in CountFlags : f \in mods'[h].is <=> f \in mods[h].is
    BY <1>1 DEF ToldAll, CountFlags
  <2> QED
    BY <1>1, <1>2, <2>1, CountStill DEF ToldAll
<1> QED
  BY <1>1, <1>3, CountAt0 DEF ToldAll

LEMMA CountEnd == ASSUME TypeInv, TypeInv', CountInv, DidEnd PROVE CountInv'
<1>1. QueueDone /\ At("complete") /\ UNCHANGED << mods, names, answers >>
  BY DEF DidEnd, QueueDone
<1>2. CountRest(0)
  BY <1>1, SameGrow, CountNone DEF names, answers
<1>3. Shifted(1) /\ Minds(stack'[1], 0)
  BY <1>1, MindsOps DEF QueueDone
<1> QED
  BY <1>1, <1>2, <1>3, CountAt1

LEMMA CountFound ==
  ASSUME TypeInv, TypeInv', CountInv, NEW id \in Ids, NEW h, Found(id, h), Kept, UNCHANGED << runs, undefEvents >>
  PROVE  CountRest(0)
<1>1. id # << >>
  BY RequireAssumption
<1>2. \A g \in Handles' : g \notin Handles => g = h /\ NewMod(h, id, id)
  BY DEF Found, Handles
<1>3. \A g : Deaf(g)
  <2>1. \A g \in Handles : mods'[g].onDefined = mods[g].onDefined
    BY DEF Found
  <2>2. ASSUME NEW g \in Handles', g \notin Handles PROVE mods'[g].onDefined = EventsFor(mods'[g].id).defined
    BY <1>2, <2>2 DEF NewMod
  <2> QED
    BY <2>1, <2>2, DeafKept
<1>4. \A g \in Handles : CountSame(mods[g], mods'[g])
  BY DEF Found, CountSame
<1>5. 0 \notin Handles /\ \A g \in Handles' : g \notin Handles => mods'[g].id # << >>
  BY <1>1, <1>2 DEF Handles, NewMod
<1> QED
  BY <1>3, <1>4, <1>5, SameGrow DEF CountRest, OthersSame
LEMMA CountPull ==
  ASSUME TypeInv, TypeInv', CountInv, NEW id \in Ids, NEW h, NEW deps, NEW g, Pulling(id, h, deps, g),
         UNCHANGED << runs, undefEvents >>, NEW op, At(op), Countless(g)
  PROVE  CountInv'
<1>1. CountRest(0)
  BY CountFound DEF Pulling
<1>2. Minds(stack'[1], 0)
  BY MindsOps DEF Pulling
<1>3. Minds(stack'[2], 0) /\ Shifted(2)
  BY MindsNot DEF Pulling
<1> QED
  BY <1>1, <1>2, <1>3, CountAt2

LEMMA CountQueue == ASSUME TypeInv, TypeInv', CountInv, DidQueue PROVE CountInv'
<1>1. PICK i \in Sourced : \/ Pulls("require", i, Top)
                           \/ Top.id \in Ids /\ Pulls("complete", i, NextComplete(i))
  BY DEF DidQueue
<1>2. UNCHANGED << runs, undefEvents >> /\ i \in Ids
  BY <1>1 DEF Pulls, names, answers, Sourced
<1>3. PICK op, g : op \in {"require", "complete"} /\ At(op) /\ Pulls(op, i, g) /\ Countless(g)
  <2>1. CASE Pulls("require", i, Top)
    <3>1. At("require") /\ Countless(Top)
      BY <2>1 DEF Pulls, At, Countless
    <3> QED
      BY <2>1, <3>1
  <2>2. CASE Pulls("complete", i, NextComplete(i))
    <3>1. At("complete") /\ Countless(NextComplete(i))
      BY <2>2 DEF Pulls, NextComplete, Countless
    <3> QED
      BY <2>2, <3>1
  <2> QED
    BY <1>1, <2>1, <2>2
<1>4. PICK h : Pulling(i, h, DepNames[i], g)
  BY <1>3 DEF Pulls
<1> QED
  BY <1>2, <1>3, <1>4, CountPull

LEMMA CountGive == ASSUME TypeInv, TypeInv', CountInv, DidGive PROVE CountInv'
<1>1. PICK id \in Ids : Given(id) /\ At("completed") /\ UNCHANGED << names, wait, world, answers >>
  BY DEF DidGive
<1>2. PICK h : Pulling(id, h, ShimDeps(id), checkLoaded)
  BY <1>1 DEF Given
<1>3. Countless(checkLoaded) /\ UNCHANGED << runs, undefEvents >>
  BY <1>1 DEF Countless, checkLoaded, names, answers
<1> QED
  BY <1>1, <1>2, <1>3, CountPull

LEMMA CountForce == ASSUME TypeInv, TypeInv', CountInv, DidForce PROVE CountInv'
<1>1. PICK h \in Handles, i \in Nat : ForcedDep(h, i) /\ At("forced") /\ Plain
  BY DEF DidForce
<1>2. Grow /\ UNCHANGED undefEvents
  BY <1>1, SameGrow DEF Plain, names, answers
<1>3. CountRest(h)
  BY <1>1, <1>2, CountOnly DEF ForcedDep, isDefine
<1>4. Shifted(1) /\ Minds(stack'[1], h)
  BY <1>1 DEF ForcedDep, Minds
<1> QED
  BY <1>1, <1>3, <1>4, CountAt1

LEMMA CountEvent == ASSUME TypeInv, TypeInv', CountInv, DidAsk \/ DidLoad \/ DidFail PROVE CountInv'
<1>1. UNCHANGED << mods, undefEvents, runs >>
  BY DEF DidAsk, DidLoad, DidFail, Asking, Loaded, Failing, names, answers
<1>2. CountRest(0)
  BY <1>1, SameGrow, CountNone
<1>3. stack = << >> /\ IsSeq(stack') /\ DOMAIN stack' = {1} /\ Countless(stack'[1])
  <2>1. CASE DidAsk
    BY <2>1 DEF DidAsk, Asking, require, Countless
  <2>2. CASE DidLoad
    BY <2>2 DEF DidLoad, Loaded, Countless
  <2>3. CASE DidFail
    BY <2>3 DEF DidFail, Failing, Countless
  <2> QED
    BY <2>1, <2>2, <2>3
<1>4. Minds(stack'[1], 0)
  BY <1>3, MindsNot
<1> QED
  BY <1>2, <1>3, <1>4, CountFirst

LEMMA CountRun == ASSUME TypeInv, TypeInv', CountInv, DidRun PROVE CountInv'
<1>1. PICK s \in scripts : Running(s) /\ UNCHANGED << registry, names, wait, useInteractive, issued, called >>
  BY DEF DidRun
<1>2. runs \in [Ids -> Nat] /\ IsSeq(stack')
  BY DEF TypeInv, SeenOk, StackOk
<1>3. Grow
  BY <1>1, <1>2 DEF Grow, Running
<1>4. CountRest(0)
  BY <1>1, <1>3, CountNone DEF Running, names
<1>5. Came(0, 0, 0) /\ \A j \in 1..0 : FALSE
  <2>1. DOMAIN stack' = {}
    BY <1>1 DEF Running
  <2> QED
    BY <1>2, <2>1 DEF Came
<1> QED
  BY <1>4, <1>5, CountStep DEF CountRest

LEMMA CountMove == ASSUME TypeInv, TypeInv', CountInv, DidMove PROVE CountInv'
<1>1. PICK id \in Ids : MovedAway(id) /\ Missing(id) /\ UNCHANGED << world, answers >>
  BY DEF DidMove
<1>2. UNCHANGED << mods, runs >> /\ Kept /\ Handles' = Handles /\ Grow
  BY <1>1, SameKept, SameGrow DEF MovedAway, answers, TypeInv
<1>3. \A h : Deaf(h)
  <2> SUFFICES ASSUME NEW h, NEW u, NEW i, Listens(h, u, i)' PROVE Listens(h, u, i)
    BY DEF Deaf
  <2>1. CASE \E g \in Handles : mods[g].id = i /\ \E k \in DOMAIN mods[g].onDefined : mods[g].onDefined[k] = << h, u >>
    BY <2>1 DEF Listens
  <2>2. CASE /\ i \in DOMAIN undefEvents'
             /\ \E k \in DOMAIN undefEvents'[i].defined : undefEvents'[i].defined[k] = << h, u >>
    <3>1. PICK g : g = Lookup(id)
      OBVIOUS
    <3>2. g # 0 => g \in Handles /\ mods[g].id = id
      BY <3>1, LookupFacts DEF TypeInv
    <3>3. \/ g # 0 /\ i = id /\ undefEvents'[i].defined = mods[g].onDefined
          \/ i \in DOMAIN undefEvents /\ undefEvents'[i] = undefEvents[i]
      <4>1. CASE g # 0 /\ mods[g].onDefined # << >>
        <5>1. undefEvents' = [x \in DOMAIN undefEvents \cup {id} |->
                                IF x = id THEN [defined |-> mods[g].onDefined, error |-> mods[g].onError]
                                          ELSE undefEvents[x]]
          BY <1>1, <3>1, <4>1 DEF MovedAway, undef
        <5> QED
          BY <2>2, <4>1, <5>1
      <4>2. CASE ~(g # 0 /\ mods[g].onDefined # << >>)
        <5>1. undefEvents' = [x \in DOMAIN undefEvents \ {id} |-> undefEvents[x]]
          BY <1>1, <3>1, <4>2 DEF MovedAway, undef
        <5> QED
          BY <2>2, <5>1
      <4> QED
        BY <4>1, <4>2
    <3>4. CASE g # 0 /\ i = id /\ undefEvents'[i].defined = mods[g].onDefined
      BY <2>2, <3>2, <3>4 DEF Listens
    <3>5. CASE i \in DOMAIN undefEvents /\ undefEvents'[i] = undefEvents[i]
      BY <2>2, <3>5 DEF Listens
    <3> QED
      BY <3>3, <3>4, <3>5
  <2> QED
    BY <1>2, <2>1, <2>2 DEF Listens
<1>4. CountRest(0)
  BY <1>2, <1>3 DEF CountRest, OthersSame, CountSame, Handles
<1>5. At(Top.op)
  BY <1>1, TopGood DEF At, Top, TypeInv, MovedAway
<1>6. Minds(stack'[1], 0)
  BY <1>1, MindsOps DEF MovedAway
<1>7. Shifted(1) \/ (Shifted(2) /\ Minds(stack'[2], 0))
  BY <1>1 DEF MovedAway, Mild, Keys, Minds
<1> QED
  BY <1>4, <1>5, <1>6, <1>7, CountAt1, CountAt2

(* No call of this kind for h is left                                      *)
LEMMA Fewer ==
  ASSUME NEW op, NEW h, NEW k, NEW d, NEW b, Came(k, d, b),
         \A j \in 1..k : j \in DOMAIN stack' => ~Of(stack'[j], op, h),
         \A i \in DOMAIN stack : i > b => ~Of(stack[i], op, h)
  PROVE  \A j \in DOMAIN stack' : ~Of(stack'[j], op, h)
<1> SUFFICES ASSUME NEW j \in DOMAIN stack', Of(stack'[j], op, h) PROVE FALSE
  OBVIOUS
<1>1. j \in Nat \ {0} /\ k \in Nat
  BY DEF Came
<1>2. j > k
  BY <1>1
<1>3. PICK i : i = j + d
  OBVIOUS
<1>4. i \in DOMAIN stack /\ i > b /\ stack'[j] = stack[i]
  BY <1>1, <1>2, <1>3 DEF Came
<1> QED
  BY <1>4 DEF Of

LEMMA CountRequire == ASSUME TypeInv, TypeInv', CountInv, DidRequire PROVE CountInv'
<1>1. PICK h \in Handles' : NewRequire(h) /\ At("require") /\ UNCHANGED << names, wait, world, answers >>
  BY DEF DidRequire
<1>2. Grow /\ Kept /\ Handles' = Handles \cup {h} /\ h \notin Handles /\ UNCHANGED << undefEvents, runs >>
  BY <1>1, SameGrow DEF NewRequire, names, answers
<1>3. \A x : Deaf(x)
  <2>1. \A g \in Handles : mods'[g].onDefined = mods[g].onDefined
    BY <1>1 DEF NewRequire
  <2>2. \A g \in Handles' : g \notin Handles => mods'[g].onDefined = << >>
    BY <1>1, <1>2 DEF NewRequire
  <2> QED
    BY <1>2, <2>1, <2>2, DeafKept
<1>4. OthersSame(h)
  BY <1>1, <1>3 DEF OthersSame, CountSame, NewRequire
<1>5. Came(2, 1 - 2, 1)
  BY <1>1, CameAt DEF NewRequire
<1>6. \A j \in 1..2 : j \in DOMAIN stack' => Countless(stack'[j])
  <2>1. \A j \in 1..2 : j = 1 \/ j = 2
    OBVIOUS
  <2> QED
    BY <1>1, <2>1 DEF NewRequire, init, checkLoaded, Countless
<1>7. \A g \in Handles : mods[g].id = << >> /\ g # h => CountFor(g)'
  <2>1. \A j \in 1..2 : j \in DOMAIN stack' => Minds(stack'[j], h)
    BY <1>6, MindsNot
  <2>2. 1 >= 1
    OBVIOUS
  <2> QED
    BY <1>2, <1>4, <1>5, <2>1, <2>2, CountOthers
<1>8. \A op \in {"wire", "enable", "define"} : \A j \in DOMAIN stack' : ~Of(stack'[j], op, h)
  <2> SUFFICES ASSUME NEW op \in {"wire", "enable", "define"} PROVE \A j \in DOMAIN stack' : ~Of(stack'[j], op, h)
    OBVIOUS
  <2>1. \A j \in 1..2 : j \in DOMAIN stack' => ~Of(stack'[j], op, h)
    BY <1>6 DEF Of, Countless
  <2>2. \A i \in DOMAIN stack : i > 1 => ~Of(stack[i], op, h)
    <3>1. \A f \in Frames : f.op \in {"wire", "enable", "define"} => f.h \in Handles
      BY DEF TypeInv, StackOk, Good, Handles
    <3> QED
      BY <1>2, <3>1 DEF Of, Frames
  <2> QED
    BY <1>5, <2>1, <2>2, Fewer
<1>9. CountMod(mods[h], runs)'
  <2>1. PICK m : m = mods'[h]
    OBVIOUS
  <2>2. m.is = {} /\ m.depCount = 0 /\ m.depMatched = {}
    BY <1>1, <2>1 DEF NewRequire
  <2> QED
    BY <2>1, <2>2 DEF CountMod
<1>10. CountFrames(h)'
  BY <1>8 DEF CountFrames
<1>11. CountHears(h)'
  <2>1. \A u, i : ~Listens(h, u, i)
    <3>1. ASSUME NEW g \in Handles, NEW k \in DOMAIN mods[g].onDefined, NEW u, mods[g].onDefined[k] = << h, u >> PROVE FALSE
      <4>1. PICK s : s = mods[g].onDefined
        OBVIOUS
      <4>2. s \in Seq(Hears(Len(mods)))
        BY <4>1, HandleFacts, ModFields DEF TypeInv
      <4>3. s[k] \in Hears(Len(mods))
        BY <3>1, <4>1, <4>2
      <4> QED
        BY <1>2, <3>1, <4>1, <4>3 DEF Hears, Handles
    <3>2. ASSUME NEW i \in DOMAIN undefEvents, NEW k \in DOMAIN undefEvents[i].defined, NEW u,
                 undefEvents[i].defined[k] = << h, u >> PROVE FALSE
      <4>1. PICK s : s = undefEvents[i].defined
        OBVIOUS
      <4>2. s \in Seq(Hears(Len(mods)))
        BY <4>1 DEF TypeInv, NamesOk, Heard
      <4>3. s[k] \in Hears(Len(mods))
        BY <3>2, <4>1, <4>2
      <4> QED
        BY <1>2, <3>2, <4>1, <4>3 DEF Hears, Handles
    <3> QED
      BY <3>1, <3>2 DEF Listens
  <2>2. \A u, i : ~Listens(h, u, i)'
    BY <1>3, <2>1 DEF Deaf
  <2> QED
    BY <2>2 DEF CountHears
<1>12. CountFor(h)'
  BY <1>9, <1>10, <1>11 DEF CountFor
<1>13. ASSUME NEW g \in Handles', mods'[g].id = << >> PROVE CountFor(g)'
  <2>1. CASE g = h
    BY <1>12, <2>1
  <2>2. CASE g # h
    <3>1. g \in Handles /\ mods[g].id = << >>
      BY <1>2, <1>13, <2>2 DEF Kept
    <3> QED
      BY <1>7, <2>2, <3>1
  <2> QED
    BY <2>1, <2>2
<1> QED
  BY <1>13 DEF CountInv

(* Nothing speaks of a Module that is not enabled yet                      *)
LEMMA NotYet ==
  ASSUME TypeInv, FlagInv, NEW h, CountFor(h), "inited" \notin mods[h].is \/ "enabled" \notin mods[h].is
  PROVE  /\ \A j \in DOMAIN stack : ~Of(stack[j], "wire", h) /\ ~Of(stack[j], "define", h)
         /\ \A u, i : ~Listens(h, u, i)
         /\ \A j \in DOMAIN stack : Of(stack[j], "enable", h) => j = 1
<1>1. PICK m : m = mods[h]
  OBVIOUS
<1>2. \A i : ~CountWire(m, i)
  BY <1>1 DEF CountWire
<1>3. \A j \in DOMAIN stack : ~Of(stack[j], "wire", h)
  BY <1>1, <1>2 DEF CountFor, CountFrames
<1>4. \A j \in DOMAIN stack : ~Of(stack[j], "define", h)
  BY DEF FlagInv, Ready, Of
<1>5. \A u, i : ~Listens(h, u, i)
  BY DEF CountFor, CountHears
<1> QED
  BY <1>3, <1>4, <1>5 DEF CountFor, CountFrames

(* init gives a Module of require the names it asks for; it is counted from enable() on. *)
LEMMA CountInit == ASSUME TypeInv, TypeInv', CallsInv, FlagInv, CountInv, DidInit PROVE CountInv'
<1>1. PICK h \in Handles : Inited(h) /\ At("init") /\ Plain
  BY DEF DidInit
<1>2. Grow /\ UNCHANGED << undefEvents, runs >>
  BY <1>1, SameGrow DEF Plain, names, answers
<1>3. Came(1, 1 - 1, 1)
  BY <1>1, CameAt DEF Inited
<1>4. Shifted(1) /\ Minds(stack'[1], h)
  <2>1. stack'[1] = enable(h) \/ stack'[1] = check(h, FALSE)
    BY <1>1 DEF Inited
  <2> QED
    BY <1>1, <2>1 DEF Inited, Minds, enable, check
<1>5. ASSUME mods[h].id = << >> PROVE CountFor(h)'
  <2>1. CountFor(h) /\ "inited" \notin mods[h].is /\ "enabled" \notin mods[h].is
    BY <1>1, <1>5, CallsParts DEF CountInv, Inited, Is, CallMods, isDefine
  <2>2. /\ \A j \in DOMAIN stack : ~Of(stack[j], "wire", h) /\ ~Of(stack[j], "define", h)
        /\ \A u, i : ~Listens(h, u, i)
        /\ \A j \in DOMAIN stack : Of(stack[j], "enable", h) => j = 1
    BY <2>1, NotYet
  <2>3. \A j \in 1..1 : j = 1
    OBVIOUS
  <2>4. "enabled" \notin mods'[h].is
    BY <1>1, <2>1 DEF Inited
  <2>5. \A op \in {"wire", "define"} : \A j \in DOMAIN stack' : ~Of(stack'[j], op, h)
    <3> SUFFICES ASSUME NEW op \in {"wire", "define"} PROVE \A j \in DOMAIN stack' : ~Of(stack'[j], op, h)
      OBVIOUS
    <3>1. \A j \in 1..1 : j \in DOMAIN stack' => ~Of(stack'[j], op, h)
      BY <1>1, <2>3 DEF Inited, enable, check, Of
    <3>2. \A i \in DOMAIN stack : i > 1 => ~Of(stack[i], op, h)
      BY <2>2
    <3> QED
      BY <1>3, <3>1, <3>2, Fewer
  <2>6. \A j \in DOMAIN stack' : Of(stack'[j], "enable", h) => j = 1
    <3> SUFFICES ASSUME NEW j \in DOMAIN stack', Of(stack'[j], "enable", h), j # 1 PROVE FALSE
      OBVIOUS
    <3>1. j \in Nat \ {0} /\ (j > 1 => j + (1 - 1) \in DOMAIN stack /\ stack'[j] = stack[j + (1 - 1)])
      BY <1>3 DEF Came
    <3>2. j > 1 /\ j + (1 - 1) = j
      BY <3>1
    <3>3. j \in DOMAIN stack /\ Of(stack[j], "enable", h)
      BY <3>1, <3>2 DEF Of
    <3> QED
      BY <2>2, <3>2, <3>3
  <2>7. CountMod(mods[h], runs)'
    <3>1. PICK m, n : m = mods[h] /\ n = mods'[h]
      OBVIOUS
    <3>2. m.depCount = 0 /\ m.depMatched = {}
      BY <2>1, <3>1 DEF CountFor, CountMod
    <3>3. n.depCount = 0 /\ n.depMatched = {} /\ "enabled" \notin n.is
      BY <1>1, <2>4, <3>1, <3>2 DEF Inited, SameCount
    <3> QED
      BY <3>1, <3>3 DEF CountMod
  <2>8. \A u, i : ~Listens(h, u, i)'
    <3>1. Kept /\ Handles' = Handles /\ \A g \in Handles : mods'[g].onDefined = mods[g].onDefined
      BY <1>1, OnlyKept DEF TypeInv, Inited, OnlyMod, SameRest
    <3> QED
      BY <1>2, <2>2, <3>1, DeafKept DEF Deaf
  <2>9. CountFrames(h)'
    BY <2>4, <2>5, <2>6 DEF CountFrames
  <2>10. CountHears(h)'
    BY <2>8 DEF CountHears
  <2> QED
    BY <2>7, <2>9, <2>10 DEF CountFor
<1>6. CountRest(h)
  BY <1>1, <1>2, <1>5, CountOnly DEF Inited
<1> QED
  BY <1>1, <1>4, <1>6, CountAt1

(* enable() starts with nothing counted, and nobody is told yet. *)
LEMMA CountEnable == ASSUME TypeInv, TypeInv', CallsInv, FlagInv, CountInv, DidEnable PROVE CountInv'
<1>1. PICK h \in Handles : Enabled(h) /\ At("enable") /\ UNCHANGED << registry, names, world, answers >>
  BY DEF DidEnable
<1>2. Grow /\ UNCHANGED << undefEvents, runs >>
  BY <1>1, SameGrow DEF names, answers
<1>3. Came(1, 1 - 1, 1)
  BY <1>1, CameAt DEF Enabled
<1>4. Shifted(1) /\ Minds(stack'[1], h)
  BY <1>1, MindsOps DEF Enabled
<1>5. ASSUME mods[h].id = << >> PROVE CountFor(h)'
  <2>1. CountFor(h) /\ Of(stack[1], "enable", h) /\ 1 \in DOMAIN stack
    BY <1>1, <1>5 DEF CountInv, Enabled, At, Of
  <2>2. "enabled" \notin mods[h].is /\ "inited" \in mods[h].is
    BY <1>1, <1>5, <2>1, CallsParts DEF CountFor, CountFrames, CallFrames, CallOk, Of
  <2>3. /\ \A j \in DOMAIN stack : ~Of(stack[j], "wire", h) /\ ~Of(stack[j], "define", h)
        /\ \A u, i : ~Listens(h, u, i)
        /\ \A j \in DOMAIN stack : Of(stack[j], "enable", h) => j = 1
    BY <2>1, <2>2, NotYet
  <2>4. (\A j \in 1..1 : j = 1) /\ stack'[1].op = "wire" /\ stack'[1].i = 1
    BY <1>1 DEF Enabled
  <2>5. \A op \in {"enable", "define"} : \A j \in DOMAIN stack' : ~Of(stack'[j], op, h)
    <3> SUFFICES ASSUME NEW op \in {"enable", "define"} PROVE \A j \in DOMAIN stack' : ~Of(stack'[j], op, h)
      OBVIOUS
    <3>1. \A j \in 1..1 : j \in DOMAIN stack' => ~Of(stack'[j], op, h)
      BY <2>4 DEF Of
    <3>2. \A i \in DOMAIN stack : i > 1 => ~Of(stack[i], op, h)
      <4>1. \A i \in DOMAIN stack : i > 1 => i # 1
        OBVIOUS
      <4> QED
        BY <2>3, <4>1
    <3> QED
      BY <1>3, <3>1, <3>2, Fewer
  <2>6. \A j \in DOMAIN stack' : Of(stack'[j], "wire", h) => j = 1
    <3> SUFFICES ASSUME NEW j \in DOMAIN stack', Of(stack'[j], "wire", h), j # 1 PROVE FALSE
      OBVIOUS
    <3>1. j \in Nat \ {0} /\ (j > 1 => j + (1 - 1) \in DOMAIN stack /\ stack'[j] = stack[j + (1 - 1)])
      BY <1>3 DEF Came
    <3>2. j > 1 /\ j + (1 - 1) = j
      BY <3>1
    <3>3. j \in DOMAIN stack /\ Of(stack[j], "wire", h)
      BY <3>1, <3>2 DEF Of
    <3> QED
      BY <2>3, <3>3
  <2>7. CountMod(mods'[h], runs') /\ CountWire(mods'[h], 1)
    <3>1. PICK m, n : m = mods[h] /\ n = mods'[h]
      OBVIOUS
    <3>2. m.depCount = 0 /\ m.depMatched = {}
      BY <2>1, <2>2, <3>1 DEF CountFor, CountMod
    <3>3. /\ n.depCount = 0 /\ n.depMatched = {} /\ {"inited", "enabled", "enabling"} \subseteq n.is
      BY <1>1, <2>2, <3>1, <3>2 DEF Enabled, SameCount
    <3>4. Unmet(n, 1 - 1) = {}
      <4>1. 1..(1 - 1) = {}
        OBVIOUS
      <4> QED
        BY <4>1 DEF Unmet
    <3>5. Len(n.deps) \in Nat
      <4>1. n \in Mod(Len(mods'))
        BY <1>1, <3>1, OnlyKept, HandleFacts DEF TypeInv, Enabled, ModsOk, Handles
      <4>2. n.deps \in Seq(Ids \cup handlers)
        BY <4>1, ModFields
      <4> QED
        BY <4>2
    <3> QED
      <4>1. CountMod(n, runs')
        BY <3>3 DEF CountMod
      <4>2. n.depCount = Cardinality(Unmet(n, 1 - 1)) /\ n.depMatched \subseteq 1..(1 - 1)
        BY <3>3, <3>4, FS_EmptySet
      <4>3. CountWire(n, 1)
        BY <3>3, <3>5, <4>2 DEF CountWire
      <4> QED
        BY <3>1, <4>1, <4>3
  <2>8. \A u, i : ~Listens(h, u, i)'
    <3>1. Kept /\ Handles' = Handles /\ \A g \in Handles : mods'[g].onDefined = mods[g].onDefined
      BY <1>1, OnlyKept DEF TypeInv, Enabled, OnlyMod, SameRest
    <3> QED
      BY <1>2, <2>3, <3>1, DeafKept DEF Deaf
  <2>9. CountFrames(h)'
    <3>1. PICK n : n = mods'[h]
      OBVIOUS
    <3>2. ASSUME NEW j \in DOMAIN stack', Of(stack'[j], "wire", h) PROVE CountWire(n, stack'[j].i)
      BY <2>4, <2>6, <2>7, <3>1, <3>2
    <3> QED
      BY <2>5, <2>6, <3>1, <3>2 DEF CountFrames
  <2>10. CountHears(h)' /\ CountMod(mods[h], runs)'
    BY <2>7, <2>8 DEF CountHears
  <2> QED
    BY <2>9, <2>10 DEF CountFor
<1>6. CountRest(h)
  BY <1>1, <1>2, <1>5, CountOnly DEF Enabled
<1> QED
  BY <1>1, <1>4, <1>6, CountAt1

(* The set of what a Module lacks                                          *)
LEMMA UnmetFinite == ASSUME NEW m, NEW u \in Int PROVE IsFiniteSet(Unmet(m, u)) /\ Cardinality(Unmet(m, u)) \in Nat
<1>1. IsFiniteSet(1..u)
  BY FS_Interval
<1>2. Unmet(m, u) \in SUBSET (1..u)
  BY DEF Unmet
<1>3. IsFiniteSet(Unmet(m, u))
  BY <1>1, <1>2, FS_Subset
<1> QED
  BY <1>3, FS_CardinalityType

LEMMA NextFacts ==
  ASSUME NEW m, NEW n, n.deps = m.deps, n.is = m.is, NEW i \in Nat \ {0}, i <= Len(m.deps), Len(m.deps) \in Nat,
         DOMAIN m.deps = 1..Len(m.deps), NEW rs, CountWire(m, i), \A j \in m.depMatched : RanIn(m.deps[j], rs),
         \/ m.deps[i] \in handlers /\ n.depCount = m.depCount /\ n.depMatched = m.depMatched
         \/ /\ m.deps[i] \notin handlers /\ RanIn(m.deps[i], rs) /\ n.depMatched = m.depMatched \cup {i}
            /\ i \notin m.depMatched => n.depCount = m.depCount
         \/ /\ m.deps[i] \notin handlers /\ n.depCount = m.depCount + 1 /\ n.depMatched = m.depMatched
  PROVE  CountWire(n, i + 1) /\ CountMod(n, rs)
<1>1. /\ {"inited", "enabled", "enabling"} \subseteq n.is /\ i + 1 <= Len(n.deps) + 1
      /\ m.depCount = Cardinality(Unmet(m, i - 1)) /\ m.depMatched \subseteq 1..(i - 1)
  BY DEF CountWire
<1>2. i \notin m.depMatched /\ i + 1 - 1 = i /\ m.depMatched \subseteq 1..i /\ i \notin 1..(i - 1)
  BY <1>1
<1>3. 1..i = 1..(i - 1) \cup {i}
  OBVIOUS
<1>4. IsFiniteSet(Unmet(m, i - 1)) /\ i \notin Unmet(m, i - 1)
  BY <1>2, UnmetFinite DEF Unmet
<1>5. n.depCount = Cardinality(Unmet(n, i)) /\ n.depMatched \subseteq 1..i /\ \A j \in n.depMatched : RanIn(n.deps[j], rs)
  <2>1. CASE m.deps[i] \in handlers /\ n.depCount = m.depCount /\ n.depMatched = m.depMatched
    <3>1. Unmet(n, i) = Unmet(m, i - 1)
      BY <1>3, <2>1 DEF Unmet
    <3> QED
      BY <1>1, <1>2, <2>1, <3>1
  <2>2. CASE /\ m.deps[i] \notin handlers /\ RanIn(m.deps[i], rs) /\ n.depMatched = m.depMatched \cup {i}
             /\ i \notin m.depMatched => n.depCount = m.depCount
    <3>1. Unmet(n, i) = Unmet(m, i - 1)
      BY <1>2, <1>3, <2>2 DEF Unmet
    <3>2. n.depMatched \subseteq 1..i
      BY <1>2, <1>3, <2>2
    <3> QED
      BY <1>1, <1>2, <2>2, <3>1, <3>2
  <2>3. CASE m.deps[i] \notin handlers /\ n.depCount = m.depCount + 1 /\ n.depMatched = m.depMatched
    <3>1. Unmet(n, i) = Unmet(m, i - 1) \cup {i}
      BY <1>2, <1>3, <2>3 DEF Unmet
    <3>2. Cardinality(Unmet(n, i)) = Cardinality(Unmet(m, i - 1)) + 1
      BY <1>4, <3>1, FS_AddElement
    <3> QED
      BY <1>1, <1>2, <2>3, <3>2
  <2> QED
    BY <2>1, <2>2, <2>3
<1>6. CountWire(n, i + 1)
  BY <1>1, <1>2, <1>5 DEF CountWire
<1>7. \A j \in n.depMatched : j \in DOMAIN n.deps
  <2>1. \A j \in 1..i : j \in 1..Len(m.deps)
    OBVIOUS
  <2> QED
    BY <1>5, <2>1
<1>8. CountMod(n, rs)
  BY <1>1, <1>5, <1>7 DEF CountMod
<1> QED
  BY <1>6, <1>8

(* defineDep: a dependency that is told for the first time is counted down. *)
LEMMA ToldFacts ==
  ASSUME NEW m, NEW n, n.deps = m.deps, m.depCount \in Int, NEW i \in Nat \ {0}, m.deps[i] \notin handlers,
         n.depMatched = m.depMatched \cup {i},
         n.depCount = IF i \in m.depMatched THEN m.depCount ELSE m.depCount - 1,
         NEW w \in Nat, i <= w, m.depCount = Cardinality(Unmet(m, w))
  PROVE  n.depCount = Cardinality(Unmet(n, w))
<1>1. CASE i \in m.depMatched
  <2>1. n.depMatched = m.depMatched /\ n.depCount = m.depCount
    BY <1>1
  <2> QED
    BY <2>1 DEF Unmet
<1>2. CASE i \notin m.depMatched
  <2>1. Unmet(n, w) = Unmet(m, w) \ {i} /\ i \in Unmet(m, w)
    BY <1>2 DEF Unmet
  <2>2. IsFiniteSet(Unmet(m, w))
    BY UnmetFinite
  <2>3. Cardinality(Unmet(n, w)) = Cardinality(Unmet(m, w)) - 1
    BY <2>1, <2>2, FS_RemoveElement
  <2> QED
    BY <1>2, <2>3
<1> QED
  BY <1>1, <1>2

(* What a Module of require is like                                        *)
LEMMA DepFacts ==
  ASSUME TypeInv, NEW h \in Handles
  PROVE  /\ Len(mods[h].deps) \in Nat /\ DOMAIN mods[h].deps = 1..Len(mods[h].deps) /\ mods[h].depCount \in Int
         /\ \A k \in DOMAIN mods[h].deps : mods[h].deps[k] \in Ids \cup handlers
<1>1. PICK m : m = mods[h]
  OBVIOUS
<1>2. m.deps \in Seq(Ids \cup handlers) /\ m.depCount \in Int
  BY <1>1, HandleFacts, ModFields DEF TypeInv
<1>3. Len(m.deps) \in Nat /\ DOMAIN m.deps = 1..Len(m.deps) /\ \A k \in DOMAIN m.deps : m.deps[k] \in Ids \cup handlers
  BY <1>2
<1> QED
  BY <1>1, <1>2, <1>3

LEMMA HearsKept ==
  ASSUME NEW h, CountHears(h), Deaf(h), mods'[h].deps = mods[h].deps,
         {"inited", "enabled"} \cap mods[h].is \subseteq mods'[h].is, \A u : Past(h, u) => Past(h, u)'
  PROVE  CountHears(h)'
<1>1. ASSUME NEW u, NEW i, Listens(h, u, i)'
      PROVE  /\ {"inited", "enabled"} \subseteq mods'[h].is
             /\ u \in DOMAIN mods'[h].deps /\ mods'[h].deps[u] = i /\ i \notin handlers
             /\ Past(h, u)'
  <2>1. Listens(h, u, i)
    BY <1>1 DEF Deaf
  <2>2. /\ {"inited", "enabled"} \subseteq mods[h].is
        /\ u \in DOMAIN mods[h].deps /\ mods[h].deps[u] = i /\ i \notin handlers /\ Past(h, u)
    BY <2>1 DEF CountHears
  <2> QED
    BY <2>2
<1> QED
  BY <1>1 DEF CountHears

(* enable() goes on to the next dependency of a Module of require          *)

(* enable() goes on to the next dependency, which is one more to wait for. *)
LEMMA CountWired ==
  ASSUME TypeInv, TypeInv', Grow, NEW h \in Handles, CountFor(h), At("wire"), Top.h = h, NEW i, i = Top.i,
         i \in Nat \ {0}, i \in DOMAIN mods[h].deps,
         mods'[h].deps = mods[h].deps, mods'[h].is = mods[h].is, CountWire(mods'[h], i + 1), CountMod(mods'[h], runs'),
         NEW k \in Nat, Shifted(k), k >= 1, stack'[k] = WireNext(h, i),
         \A j \in 1..k : j \in DOMAIN stack' => j = k \/ Quits(stack'[j], h),
         \A u, v : Listens(h, u, v)' => Listens(h, u, v) \/ (u = i /\ v = mods[h].deps[i] /\ v \notin handlers)
  PROVE  CountFor(h)'
<1>1. PICK m, n : m = mods[h] /\ n = mods'[h]
  OBVIOUS
<1>2. Came(k, 1 - k, 1)
  BY CameAt
<1>3. 1 \in DOMAIN stack /\ Of(stack[1], "wire", h) /\ stack[1].i = i
  BY DEF At, Of
<1>4. WireNext(h, i).op = "wire" /\ WireNext(h, i).i = i + 1
  BY DEF WireNext
<1>5. ASSUME NEW j \in DOMAIN stack', NEW op \in {"wire", "enable", "define"}, Of(stack'[j], op, h)
      PROVE  \/ j = k /\ op = "wire" /\ stack'[j].i = i + 1
             \/ op = "define" /\ \E a \in DOMAIN stack : Of(stack[a], "define", h)
  <2>1. j \in Nat \ {0} /\ k \in Nat
    BY <1>2 DEF Came
  <2>2. CASE j > k
    <3>1. PICK a : a = j + (1 - k)
      OBVIOUS
    <3>2. a \in DOMAIN stack /\ a > 1 /\ stack'[j] = stack[a]
      BY <1>2, <2>2, <3>1 DEF Came
    <3>3. Of(stack[a], op, h) /\ a # 1
      BY <1>5, <2>1, <3>1, <3>2 DEF Of
    <3>4. op # "wire" /\ op # "enable"
      BY <1>3, <3>2, <3>3 DEF CountFor, CountFrames
    <3> QED
      BY <3>2, <3>3, <3>4
  <2>3. CASE j <= k
    <3>1. j = k
      BY <1>5, <2>1, <2>3 DEF Quits, Of
    <3> QED
      BY <1>4, <1>5, <3>1 DEF Of
  <2> QED
    BY <2>1, <2>2, <2>3
<1>6. CountFrames(h)'
  <2>1. ASSUME NEW j \in DOMAIN stack', Of(stack'[j], "wire", h) PROVE CountWire(n, stack'[j].i)
    <3>1. stack'[j].i = i + 1
      BY <1>5, <2>1
    <3> QED
      BY <1>1, <3>1
  <2>2. \A a, b \in DOMAIN stack' : Of(stack'[a], "wire", h) /\ Of(stack'[b], "wire", h) => a = b
    BY <1>5
  <2>3. \A j \in DOMAIN stack' : ~Of(stack'[j], "enable", h)
    BY <1>5
  <2>4. ASSUME NEW j \in DOMAIN stack', Of(stack'[j], "define", h) PROVE Met(n, runs')
    <3>1. Met(m, runs)
      BY <1>1, <1>5, <2>4 DEF CountFor, CountFrames
    <3> QED
      BY <1>1, <3>1, MetSame
  <2> QED
    BY <1>1, <2>1, <2>2, <2>3, <2>4 DEF CountFrames
<1>7. ASSUME NEW u \in DOMAIN mods[h].deps, u = i \/ Past(h, u) PROVE Past(h, u)'
  <2>1. u = i \/ u < i
    BY <1>3, <1>7 DEF Past
  <2>2. ASSUME NEW j \in DOMAIN stack', Of(stack'[j], "wire", h) PROVE u < stack'[j].i
    <3>1. stack'[j].i = i + 1
      BY <1>5, <2>2
    <3>2. u \in Int
      BY DepFacts
    <3> QED
      BY <2>1, <3>1, <3>2
  <2> QED
    BY <2>2 DEF Past
<1>8. ASSUME NEW u, NEW v, Listens(h, u, v)'
      PROVE  /\ {"inited", "enabled"} \subseteq mods'[h].is
             /\ u \in DOMAIN mods'[h].deps /\ mods'[h].deps[u] = v /\ v \notin handlers
             /\ Past(h, u)'
  <2>1. CASE Listens(h, u, v)
    <3>1. /\ {"inited", "enabled"} \subseteq mods[h].is
          /\ u \in DOMAIN mods[h].deps /\ mods[h].deps[u] = v /\ v \notin handlers /\ Past(h, u)
      BY <2>1 DEF CountFor, CountHears
    <3> QED
      BY <1>7, <3>1
  <2>2. CASE u = i /\ v = mods[h].deps[i] /\ v \notin handlers
    <3>1. {"inited", "enabled"} \subseteq n.is
      BY <1>1 DEF CountWire
    <3> QED
      BY <1>1, <1>7, <2>2, <3>1
  <2> QED
    BY <1>8, <2>1, <2>2
<1>9. CountHears(h)'
  BY <1>8 DEF CountHears
<1> QED
  BY <1>6, <1>9 DEF CountFor

(* What can be served is there                                             *)

(* A dependency that is found defined has run. *)
LEMMA AvailableRan == ASSUME TypeInv, RanInv, NEW id, Available(id) PROVE RanIn(id, runs)
<1>1. RanIn(id, runs) \/ \E h \in Handles : Registered(h) /\ mods[h].id = id
  BY DEF RanInv, RanNames, Available
<1>2. CASE \E h \in Handles : Registered(h) /\ mods[h].id = id
  <2>1. PICK k \in DOMAIN registry : mods[registry[k]].id = id
    BY <1>2 DEF Registered
  <2>2. PICK g : g = Lookup(id)
    OBVIOUS
  <2>3. g # 0 /\ g \in Handles /\ mods[g].id = id
    BY <2>1, <2>2, LookupFacts DEF TypeInv
  <2>4. "complete" \in mods[g].is /\ id \in Ids
    BY <2>2, <2>3 DEF Available, Is, TypeInv, NamesOk
  <2>5. RanMod(mods[g], runs) /\ id # << >>
    BY <2>3, <2>4, RequireAssumption DEF RanInv, RanMods
  <2> QED
    BY <2>3, <2>4, <2>5 DEF RanMod
<1> QED
  BY <1>1, <1>2

(* At a dependency of a Module of require                                  *)
LEMMA WireFacts ==
  ASSUME TypeInv, NEW h \in Handles, CountFor(h), At("wire"), Top.h = h
  PROVE  CountWire(mods[h], Top.i) /\ CountMod(mods[h], runs) /\ Top.i \in Nat \ {0}
<1>1. 1 \in DOMAIN stack /\ Of(stack[1], "wire", h) /\ stack[1] = Top
  BY DEF At, Of
<1>2. CountWire(mods[h], stack[1].i)
  BY <1>1 DEF CountFor, CountFrames
<1>3. Good(Top, Len(mods)) /\ Top.op = "wire"
  BY TopGood DEF At, TypeInv
<1>4. Top.i \in Nat \ {0}
  BY <1>3 DEF Good
<1> QED
  BY <1>1, <1>2, <1>4 DEF CountFor

LEMMA CountServe == ASSUME TypeInv, TypeInv', CountInv, DidServe PROVE CountInv'
<1>1. PICK h \in Handles, i \in Nat :
        Served(h, i) /\ UNCHANGED << registry, undefEvents, urlFetched, paths, wait, world, answers >>
  BY DEF DidServe
<1>2. Grow /\ UNCHANGED << mods, undefEvents, runs >> /\ Kept /\ Handles' = Handles /\ At("wire")
  BY <1>1, SameGrow, SameKept DEF answers, Served, TypeInv, DidServe
<1>3. \A x : Deaf(x)
  BY <1>2, DeafSame
<1>4. ASSUME mods[h].id = << >> PROVE CountFor(h)'
  <2>1. PICK m, n : m = mods[h] /\ n = mods'[h]
    OBVIOUS
  <2>2. n = m /\ CountFor(h) /\ i = Top.i /\ Top.h = h
    BY <1>1, <1>2, <1>4, <2>1 DEF CountInv, Served
  <2>3. CountWire(m, i) /\ CountMod(m, runs) /\ i \in Nat \ {0}
    BY <1>2, <2>1, <2>2, WireFacts
  <2>4. DOMAIN m.deps = 1..Len(m.deps) /\ Len(m.deps) \in Nat /\ i \in 1..Len(m.deps) /\ m.deps[i] \in handlers
    BY <1>1, <2>1, DepFacts DEF Served
  <2>5. CountWire(n, i + 1) /\ CountMod(n, runs')
    <3>1. \A j \in m.depMatched : RanIn(m.deps[j], runs')
      BY <1>2, <2>3 DEF CountMod
    <3>2. n.deps = m.deps /\ n.is = m.is /\ n.depCount = m.depCount /\ n.depMatched = m.depMatched
      BY <2>2
    <3>3. i <= Len(m.deps)
      BY <2>4
    <3> QED
      BY <2>3, <2>4, <3>1, <3>2, <3>3, NextFacts
  <2>6. \A u, v : Listens(h, u, v)' => Listens(h, u, v)
    BY <1>3 DEF Deaf
  <2>7. Shifted(1) /\ stack'[1] = WireNext(h, i) /\ \A j \in 1..1 : j = 1
    BY <1>1 DEF Served
  <2> QED
    BY <1>2, <2>1, <2>2, <2>3, <2>4, <2>5, <2>6, <2>7, CountWired
<1>5. CountRest(h)
  BY <1>2, <1>3, <1>4 DEF CountRest, OthersSame, CountSame
<1>6. Shifted(1) /\ Minds(stack'[1], h)
  BY <1>1, MindsOps DEF Served
<1> QED
  BY <1>2, <1>5, <1>6, CountAt1

(* A dependency that is found defined is counted at once. *)
LEMMA CountTake == ASSUME TypeInv, TypeInv', RanInv, CountInv, DidTake PROVE CountInv'
<1>1. PICK h \in Handles, i \in Nat : Taken(h, i) /\ Plain
  BY DEF DidTake
<1>2. Grow /\ UNCHANGED << undefEvents, runs >> /\ At("wire")
  BY <1>1, SameGrow DEF Plain, names, answers, DidTake
<1>3. Kept /\ Handles' = Handles /\ \A g \in Handles : mods'[g].onDefined = mods[g].onDefined
  BY <1>1, OnlyKept DEF TypeInv, Taken, OnlyMod, SameRest
<1>4. \A x : Deaf(x)
  BY <1>2, <1>3, DeafKept
<1>5. \A d \in Handles : d = Lookup(mods[h].deps[i]) => mods[d].id # << >>
  <2> SUFFICES ASSUME NEW d \in Handles, d = Lookup(mods[h].deps[i]) PROVE mods[d].id # << >>
    OBVIOUS
  <2>1. d # 0 /\ mods[h].deps[i] # << >>
    BY <1>1, RequireAssumption DEF Taken, AtDep, Handles
  <2> QED
    BY <2>1, LookupFacts DEF TypeInv
<1>6. ASSUME mods[h].id = << >> PROVE CountFor(h)'
  <2>1. PICK m, n : m = mods[h] /\ n = mods'[h]
    OBVIOUS
  <2>2. n.deps = m.deps /\ n.is = m.is /\ CountFor(h) /\ i = Top.i /\ Top.h = h
    BY <1>1, <1>2, <1>6, <2>1 DEF CountInv, Taken, AtDep, SameCall
  <2>3. CountWire(m, i) /\ CountMod(m, runs) /\ i \in Nat \ {0}
    BY <1>2, <2>1, <2>2, WireFacts
  <2>4. DOMAIN m.deps = 1..Len(m.deps) /\ Len(m.deps) \in Nat /\ i \in 1..Len(m.deps) /\ m.deps[i] \notin handlers
    BY <1>1, <2>1, DepFacts DEF Taken, AtDep
  <2>5. CountWire(n, i + 1) /\ CountMod(n, runs')
    <3>1. \A j \in m.depMatched : RanIn(m.deps[j], runs')
      BY <1>2, <2>3 DEF CountMod
    <3>2. RanIn(m.deps[i], runs')
      BY <1>1, <1>2, <2>1, AvailableRan DEF Taken
    <3>3. n.depMatched = m.depMatched \cup {i} /\ (i \notin m.depMatched => n.depCount = m.depCount)
      BY <1>1, <2>1 DEF Taken
    <3>4. i <= Len(m.deps) /\ n.deps = m.deps /\ n.is = m.is
      BY <2>2, <2>4
    <3>5. /\ m.deps[i] \notin handlers /\ RanIn(m.deps[i], runs') /\ n.depMatched = m.depMatched \cup {i}
          /\ i \notin m.depMatched => n.depCount = m.depCount
      BY <2>4, <3>2, <3>3
    <3> QED
      BY <2>3, <2>4, <3>1, <3>4, <3>5, NextFacts
  <2>6. \A u, v : Listens(h, u, v)' => Listens(h, u, v)
    BY <1>4 DEF Deaf
  <2>7. CASE Shifted(1) /\ stack'[1] = WireNext(h, i)
    <3>1. \A j \in 1..1 : j = 1
      OBVIOUS
    <3> QED
      BY <1>2, <2>1, <2>2, <2>3, <2>4, <2>5, <2>6, <2>7, <3>1, CountWired
  <2>8. CASE /\ Shifted(2) /\ stack'[2] = WireNext(h, i)
             /\ \E d \in Handles : d = Lookup(mods[h].deps[i]) /\ stack'[1] = enable(d)
    <3>1. \A j \in 1..2 : j = 1 \/ j = 2
      OBVIOUS
    <3>2. Quits(stack'[1], h)
      BY <1>5, <1>6, <2>8 DEF Quits, enable
    <3> QED
      BY <1>2, <2>1, <2>2, <2>3, <2>4, <2>5, <2>6, <2>8, <3>1, <3>2, CountWired
  <2> QED
    BY <1>1, <2>7, <2>8 DEF Taken
<1>7. CountRest(h)
  BY <1>1, <1>2, <1>6, CountOnly DEF Taken
<1>8. Minds(WireNext(h, i), h)
  BY MindsOps
<1>9. CASE Shifted(1) /\ stack'[1] = WireNext(h, i)
  BY <1>2, <1>7, <1>8, <1>9, CountAt1
<1>10. CASE /\ Shifted(2) /\ stack'[2] = WireNext(h, i)
            /\ \E d \in Handles : d = Lookup(mods[h].deps[i]) /\ stack'[1] = enable(d)
  <2>1. Minds(stack'[1], h)
    BY <1>5, <1>10 DEF Minds, enable
  <2> QED
    BY <1>2, <1>7, <1>8, <1>10, <2>1, CountAt2
<1> QED
  BY <1>1, <1>9, <1>10 DEF Taken

(* Who listens after h has begun to listen to g                            *)
LEMMA ListensNow ==
  ASSUME TypeInv, TypeInv', NEW h \in Handles, NEW i, NEW g, Listening(h, i, g), UNCHANGED undefEvents,
         NEW x, NEW u, NEW v, Listens(x, u, v)'
  PROVE  Listens(x, u, v) \/ (x = h /\ u = i /\ v = mods[h].deps[i])
<1>1. CASE v \in DOMAIN undefEvents /\ \E k \in DOMAIN undefEvents[v].defined : undefEvents[v].defined[k] = << x, u >>
  BY <1>1 DEF Listens
<1>2. ASSUME NEW y \in Handles', mods'[y].id = v, NEW k \in DOMAIN mods'[y].onDefined, mods'[y].onDefined[k] = << x, u >>
      PROVE  Listens(x, u, v) \/ (x = h /\ u = i /\ v = mods[h].deps[i])
  <2>1. CASE y \in Handles /\ y # g
    <3>1. mods[y].id = v /\ mods'[y].onDefined = mods[y].onDefined
      BY <1>2, <2>1 DEF Listening
    <3> QED
      BY <1>2, <2>1, <3>1 DEF Listens
  <2>2. CASE y = g
    <3>1. PICK s, t : s = mods'[g].onDefined /\ t = IF g \in Handles THEN mods[g].onDefined ELSE EventsFor(mods[h].deps[i]).defined
      OBVIOUS
    <3>2. s = Append(t, << h, i >>) /\ mods'[g].id = mods[h].deps[i] /\ (g \in Handles => mods[g].id = mods[h].deps[i])
      BY <3>1 DEF Listening
    <3>3. t \in Seq(Hears(Len(mods)))
      <4>1. CASE g \in Handles
        BY <3>1, <4>1, HandleFacts, ModFields DEF TypeInv
      <4>2. CASE g \notin Handles
        BY <3>1, <4>2, EventsTyped DEF TypeInv, Heard
      <4> QED
        BY <4>1, <4>2
    <3>4. k = Len(t) + 1 \/ (k \in DOMAIN t /\ s[k] = t[k])
      <4>1. k \in DOMAIN s
        BY <1>2, <2>2, <3>1
      <4> QED
        BY <3>2, <3>3, <4>1
    <3>5. CASE k = Len(t) + 1
      <4>1. s[k] = << h, i >>
        BY <3>2, <3>3, <3>5
      <4>2. << x, u >> = << h, i >>
        BY <1>2, <2>2, <3>1, <4>1
      <4>3. x = h /\ u = i
        BY <4>2
      <4> QED
        BY <1>2, <2>2, <3>2, <4>3
    <3>6. CASE k \in DOMAIN t /\ s[k] = t[k]
      <4>1. t[k] = << x, u >> /\ v = mods[h].deps[i]
        BY <1>2, <2>2, <3>1, <3>2, <3>6
      <4>2. CASE g \in Handles
        BY <3>1, <3>2, <3>6, <4>1, <4>2 DEF Listens
      <4>3. CASE g \notin Handles
        <5>1. t = EventsFor(v).defined /\ t # << >>
          BY <3>1, <3>6, <4>1, <4>3
        <5>2. v \in DOMAIN undefEvents /\ t = undefEvents[v].defined
          BY <5>1 DEF EventsFor, NoEvents
        <5> QED
          BY <3>6, <4>1, <5>2 DEF Listens
      <4> QED
        BY <4>2, <4>3
    <3> QED
      BY <3>4, <3>5, <3>6
  <2>3. y = g \/ (y \in Handles /\ y # g)
    BY DEF Listening
  <2> QED
    BY <2>1, <2>2, <2>3
<1> QED
  BY <1>1, <1>2 DEF Listens

(* A dependency that is not defined gets a listener, and is told by emit. *)
LEMMA CountListen == ASSUME TypeInv, TypeInv', CountInv, DidListen PROVE CountInv'
<1>1. PICK h \in Handles, i \in Nat, g \in Nat : Listening(h, i, g) /\ UNCHANGED << names, wait, world, answers >>
  BY DEF DidListen
<1>2. Grow /\ UNCHANGED << undefEvents, runs >> /\ At("wire")
  BY <1>1, SameGrow DEF names, answers, DidListen
<1>3. Kept
  <2>0. Handles' = DOMAIN mods'
    BY DEF TypeInv, ModsOk, Handles
  <2>1. \A x \in Handles : x \in DOMAIN mods'
    BY <1>1, <2>0 DEF Listening
  <2> QED
    BY <1>1, <2>1 DEF Listening, Kept
<1>4. /\ \A x, u, v : Listens(x, u, v)' => Listens(x, u, v) \/ (x = h /\ u = i /\ v = mods[h].deps[i])
      /\ \A x : x # h => Deaf(x)
  <2>1. \A x, u, v : Listens(x, u, v)' => Listens(x, u, v) \/ (x = h /\ u = i /\ v = mods[h].deps[i])
    BY <1>1, <1>2, ListensNow
  <2> QED
    BY <2>1 DEF Deaf
<1>5. mods[h].deps[i] # << >> /\ (g \in Handles => mods[g].id # << >>) /\ mods'[g].id # << >>
  <2>1. mods[h].deps[i] # << >>
    <3>1. mods[h].deps[i] \in Ids
      BY <1>1 DEF Listening, AtDep
    <3> QED
      BY <3>1, RequireAssumption
  <2> QED
    BY <1>1, <2>1 DEF Listening
<1>6. \/ Shifted(1) /\ stack'[1] = WireNext(h, i)
      \/ Shifted(2) /\ stack'[1] = enable(g) /\ stack'[2] = WireNext(h, i)
  BY <1>1 DEF Listening
<1>7. ASSUME mods[h].id = << >> PROVE CountFor(h)'
  <2>1. PICK m, n : m = mods[h] /\ n = mods'[h]
    OBVIOUS
  <2>2. n.deps = m.deps /\ n.is = m.is /\ CountFor(h) /\ i = Top.i /\ Top.h = h
    BY <1>1, <1>2, <1>7, <2>1 DEF CountInv, Listening, AtDep
  <2>3. CountWire(m, i) /\ CountMod(m, runs) /\ i \in Nat \ {0}
    BY <1>2, <2>1, <2>2, WireFacts
  <2>4. DOMAIN m.deps = 1..Len(m.deps) /\ Len(m.deps) \in Nat /\ i \in 1..Len(m.deps) /\ m.deps[i] \notin handlers
    BY <1>1, <2>1, DepFacts DEF Listening, AtDep
  <2>5. CountWire(n, i + 1) /\ CountMod(n, runs')
    <3>1. \A j \in m.depMatched : RanIn(m.deps[j], runs')
      BY <1>2, <2>3 DEF CountMod
    <3>2. n.depMatched = m.depMatched /\ n.depCount = m.depCount + 1
      BY <1>1, <2>1 DEF Listening
    <3>3. i <= Len(m.deps) /\ n.deps = m.deps /\ n.is = m.is
      BY <2>2, <2>4
    <3> QED
      BY <2>3, <2>4, <3>1, <3>2, <3>3, NextFacts
  <2>6. \A u, v : Listens(h, u, v)' => Listens(h, u, v) \/ (u = i /\ v = mods[h].deps[i] /\ v \notin handlers)
    BY <1>4, <2>1, <2>4
  <2>7. CASE Shifted(1) /\ stack'[1] = WireNext(h, i)
    <3>1. \A j \in 1..1 : j = 1
      OBVIOUS
    <3> QED
      BY <1>2, <2>1, <2>2, <2>3, <2>4, <2>5, <2>6, <2>7, <3>1, CountWired
  <2>8. CASE Shifted(2) /\ stack'[1] = enable(g) /\ stack'[2] = WireNext(h, i)
    <3>1. \A j \in 1..2 : j = 1 \/ j = 2
      OBVIOUS
    <3>2. Quits(stack'[1], h)
      BY <1>5, <1>7, <2>8 DEF Quits, enable
    <3> QED
      BY <1>2, <2>1, <2>2, <2>3, <2>4, <2>5, <2>6, <2>8, <3>1, <3>2, CountWired
  <2> QED
    BY <1>6, <2>7, <2>8
<1>8. CountRest(h)
  <2>1. ASSUME NEW x \in Handles, x # h PROVE CountSame(mods[x], mods'[x])
    BY <1>1, <2>1 DEF Listening, CountSame
  <2>2. OthersSame(h)
    BY <1>4, <2>1 DEF OthersSame
  <2>3. \A x \in Handles' : x \notin Handles => mods'[x].id # << >>
    BY <1>1, <1>5 DEF Listening
  <2> QED
    BY <1>2, <1>3, <1>7, <2>2, <2>3 DEF CountRest
<1>9. Minds(WireNext(h, i), h)
  BY MindsOps
<1>10. CASE Shifted(1) /\ stack'[1] = WireNext(h, i)
  BY <1>2, <1>8, <1>9, <1>10, CountAt1
<1>11. CASE Shifted(2) /\ stack'[1] = enable(g) /\ stack'[2] = WireNext(h, i)
  <2>1. Minds(stack'[1], h)
    BY <1>5, <1>11 DEF Minds, enable
  <2> QED
    BY <1>2, <1>8, <1>9, <1>11, <2>1, CountAt2
<1> QED
  BY <1>6, <1>10, <1>11

LEMMA CountWireEnd == ASSUME TypeInv, TypeInv', CountInv, DidWire PROVE CountInv'
<1>1. PICK h \in Handles : WiredAll(h) /\ Plain
  BY DEF DidWire
<1>2. Grow /\ UNCHANGED << undefEvents, runs >> /\ At("wire")
  BY <1>1, SameGrow DEF Plain, names, answers, DidWire
<1>3. Kept /\ Handles' = Handles /\ \A g \in Handles : mods'[g].onDefined = mods[g].onDefined
  BY <1>1, OnlyKept DEF TypeInv, WiredAll, OnlyMod, SameRest
<1>4. \A x : Deaf(x)
  BY <1>2, <1>3, DeafKept
<1>5. Came(1, 1 - 1, 1)
  BY <1>1, <1>2, CameAt DEF WiredAll
<1>6. ASSUME mods[h].id = << >> PROVE CountFor(h)'
  <2>1. PICK m, n, i : m = mods[h] /\ n = mods'[h] /\ i = Top.i
    OBVIOUS
  <2>2. n.deps = m.deps /\ n.is = m.is \ {"enabling"} /\ CountFor(h) /\ Top.h = h
        /\ n.depCount = m.depCount /\ n.depMatched = m.depMatched
    BY <1>1, <1>2, <1>6, <2>1 DEF CountInv, WiredAll, SameCall, SameCount
  <2>3. CountWire(m, i) /\ CountMod(m, runs) /\ i \in Nat \ {0}
    BY <1>2, <2>1, <2>2, WireFacts
  <2>4. Len(m.deps) \in Nat /\ i > Len(m.deps)
    BY <1>1, <2>1, DepFacts DEF WiredAll
  <2>5. CountMod(n, runs')
    <3>1. i - 1 = Len(m.deps) /\ {"inited", "enabled"} \subseteq n.is
      BY <2>2, <2>3, <2>4 DEF CountWire
    <3>2. Unmet(n, Len(n.deps)) = Unmet(m, i - 1)
      BY <2>2, <3>1 DEF Unmet
    <3>3. n.depCount = Cardinality(Unmet(n, Len(n.deps)))
      BY <2>2, <2>3, <3>2 DEF CountWire
    <3>4. \A j \in n.depMatched : j \in DOMAIN n.deps /\ RanIn(n.deps[j], runs')
      BY <1>2, <2>2, <2>3 DEF CountMod
    <3> QED
      BY <3>1, <3>3, <3>4 DEF CountMod
  <2>6. 1 \in DOMAIN stack /\ Of(stack[1], "wire", h)
    BY <1>2, <2>2 DEF At, Of
  <2>7. \A op \in {"wire", "enable"} : \A j \in DOMAIN stack' : ~Of(stack'[j], op, h)
    <3> SUFFICES ASSUME NEW op \in {"wire", "enable"} PROVE \A j \in DOMAIN stack' : ~Of(stack'[j], op, h)
      OBVIOUS
    <3>1. \A j \in 1..1 : j \in DOMAIN stack' => ~Of(stack'[j], op, h)
      <4>1. \A j \in 1..1 : j = 1
        OBVIOUS
      <4> QED
        BY <1>1, <4>1 DEF WiredAll, check, Of
    <3>2. \A a \in DOMAIN stack : a > 1 => ~Of(stack[a], op, h)
      <4>1. \A a \in DOMAIN stack : a > 1 => a # 1
        OBVIOUS
      <4> QED
        BY <2>2, <2>6, <4>1 DEF CountFor, CountFrames
    <3> QED
      BY <1>5, <3>1, <3>2, Fewer
  <2>8. ASSUME NEW j \in DOMAIN stack', Of(stack'[j], "define", h) PROVE Met(n, runs')
    <3>1. \E a \in DOMAIN stack : Of(stack[a], "define", h)
      <4>1. j \in Nat \ {0}
        BY <1>5 DEF Came
      <4>2. j # 1
        BY <1>1, <2>8 DEF WiredAll, check, Of
      <4>3. PICK a : a = j + (1 - 1)
        OBVIOUS
      <4>4. a \in DOMAIN stack /\ stack'[j] = stack[a]
        BY <1>5, <4>1, <4>2, <4>3 DEF Came
      <4> QED
        BY <2>8, <4>4 DEF Of
    <3>2. Met(m, runs)
      BY <2>1, <2>2, <3>1 DEF CountFor, CountFrames
    <3> QED
      BY <1>2, <2>2, <3>2, MetSame
  <2>9. CountFrames(h)'
    BY <2>1, <2>7, <2>8 DEF CountFrames
  <2>10. CountHears(h)'
    <3>1. \A u : Past(h, u) => Past(h, u)'
      BY <2>7 DEF Past
    <3>2. mods'[h].deps = mods[h].deps /\ {"inited", "enabled"} \cap mods[h].is \subseteq mods'[h].is
      BY <2>1, <2>2
    <3>3. CountHears(h) /\ Deaf(h)
      BY <1>4, <2>2 DEF CountFor
    <3> QED
      BY <3>1, <3>2, <3>3, HearsKept
  <2> QED
    BY <2>1, <2>5, <2>9, <2>10 DEF CountFor
<1>7. CountRest(h)
  BY <1>1, <1>2, <1>6, CountOnly DEF WiredAll
<1>8. Shifted(1) /\ Minds(stack'[1], h)
  <2>1. Shifted(1) /\ stack'[1] = check(h, FALSE)
    BY <1>1 DEF WiredAll
  <2> QED
    BY <2>1, MindsOps
<1> QED
  BY <1>2, <1>7, <1>8, CountAt1

(* emit tells the listeners of a module that is defined, each for its own dependency. *)
LEMMA CountEmit == ASSUME TypeInv, TypeInv', RanInv, CountInv, DidEmit PROVE CountInv'
<1>1. PICK h \in Handles, k \in Nat, i \in Nat, l \in Handles : Told(h, k, l, i) /\ Plain
  BY DEF DidEmit
<1>2. Grow /\ UNCHANGED << undefEvents, runs >> /\ At("emit")
  BY <1>1, SameGrow DEF Plain, names, answers, DidEmit
<1>3. Kept /\ Handles' = Handles /\ \A g \in Handles : mods'[g].onDefined = mods[g].onDefined
  BY <1>1, OnlyKept DEF TypeInv, Told, OnlyMod, SameRest
<1>4. \A x : Deaf(x)
  BY <1>2, <1>3, DeafKept
<1>5. Came(2, 1 - 2, 1) /\ 1 >= 1
  BY <1>1, <1>2, CameAt DEF Told
<1>6. \A j \in 1..2 : j \in DOMAIN stack' => Countless(stack'[j])
  <2>1. \A j \in 1..2 : j = 1 \/ j = 2
    OBVIOUS
  <2> QED
    BY <1>1, <2>1 DEF Told, check, Countless
<1>7. ASSUME mods[l].id = << >> PROVE CountFor(l)'
  <2>1. PICK m, n, v : m = mods[l] /\ n = mods'[l] /\ v = mods[h].id
    OBVIOUS
  <2>2. /\ n.deps = m.deps /\ n.is = m.is /\ CountFor(l) /\ n.depMatched = m.depMatched \cup {i}
        /\ n.depCount = (IF i \in m.depMatched THEN m.depCount ELSE m.depCount - 1)
    BY <1>1, <1>7, <2>1 DEF CountInv, Told, SameCall
  <2>3. Listens(l, i, v)
    BY <1>1, <2>1 DEF Told, Listens
  <2>4. /\ {"inited", "enabled"} \subseteq m.is /\ i \in DOMAIN m.deps /\ m.deps[i] = v /\ v \notin handlers
        /\ Past(l, i)
    BY <2>1, <2>2, <2>3 DEF CountFor, CountHears
  <2>5. /\ DOMAIN m.deps = 1..Len(m.deps) /\ Len(m.deps) \in Nat /\ i \in 1..Len(m.deps) /\ m.depCount \in Int
        /\ i \in Nat \ {0} /\ i <= Len(m.deps) /\ m.deps[i] \in Ids
    BY <2>1, <2>4, DepFacts
  <2>6. RanIn(m.deps[i], runs')
    <3>1. "defined" \in mods[h].is
      BY <1>1, <1>2 DEF RanInv, RanFrames, RanOk, At, Told
    <3>2. mods[h].id # << >> /\ RanMod(mods[h], runs)
      BY <2>1, <2>4, <2>5, RequireAssumption DEF RanInv, RanMods
    <3> QED
      BY <1>2, <2>1, <2>4, <3>1, <3>2 DEF RanMod
  <2>7. \A j \in n.depMatched : j \in DOMAIN n.deps /\ RanIn(n.deps[j], runs')
    BY <1>2, <2>1, <2>2, <2>4, <2>6 DEF CountFor, CountMod
  <2>8. CountMod(n, runs')
    <3>1. ASSUME "enabling" \notin n.is PROVE n.depCount = Cardinality(Unmet(n, Len(n.deps)))
      <4>1. m.depCount = Cardinality(Unmet(m, Len(m.deps)))
        BY <2>1, <2>2, <2>4, <3>1 DEF CountFor, CountMod
      <4>2. PICK w : w = Len(m.deps)
        OBVIOUS
      <4>3. w \in Nat /\ i <= w /\ i \in Nat \ {0} /\ m.depCount = Cardinality(Unmet(m, w)) /\ m.deps[i] \notin handlers
        BY <2>4, <2>5, <4>1, <4>2
      <4>4. /\ n.deps = m.deps /\ n.depMatched = m.depMatched \cup {i} /\ m.depCount \in Int
            /\ n.depCount = (IF i \in m.depMatched THEN m.depCount ELSE m.depCount - 1)
        BY <2>2, <2>5
      <4>5. n.depCount = Cardinality(Unmet(n, w))
        BY <4>3, <4>4, ToldFacts
      <4> QED
        BY <2>2, <4>2, <4>5
    <3> QED
      BY <2>2, <2>4, <2>7, <3>1 DEF CountMod
  <2>9. ASSUME NEW j \in DOMAIN stack, Of(stack[j], "wire", l) PROVE CountWire(n, stack[j].i)
    <3>1. PICK a : a = stack[j].i
      OBVIOUS
    <3>2. CountWire(m, a) /\ i < a
      BY <2>1, <2>2, <2>4, <2>9, <3>1 DEF CountFor, CountFrames, Past
    <3>3. a \in Nat
      <4>1. Good(stack[j], Len(mods)) /\ stack[j].op = "wire"
        BY <2>9 DEF TypeInv, StackOk, Frames, Of
      <4> QED
        BY <3>1, <4>1 DEF Good
    <3>4. i <= a - 1 /\ a - 1 \in Nat
      BY <2>5, <3>2, <3>3
    <3>5. m.depCount = Cardinality(Unmet(m, a - 1)) /\ m.depMatched \subseteq 1..(a - 1)
      BY <3>2 DEF CountWire
    <3>6. n.depCount = Cardinality(Unmet(n, a - 1))
      <4>1. PICK w : w = a - 1
        OBVIOUS
      <4>2. w \in Nat /\ i <= w /\ i \in Nat \ {0} /\ m.depCount = Cardinality(Unmet(m, w)) /\ m.deps[i] \notin handlers
        BY <2>4, <2>5, <3>4, <3>5, <4>1
      <4>3. /\ n.deps = m.deps /\ n.depMatched = m.depMatched \cup {i} /\ m.depCount \in Int
            /\ n.depCount = (IF i \in m.depMatched THEN m.depCount ELSE m.depCount - 1)
        BY <2>2, <2>5
      <4> QED
        BY <4>1, <4>2, <4>3, ToldFacts
    <3>7. n.depMatched \subseteq 1..(a - 1)
      BY <2>2, <2>5, <3>4, <3>5
    <3> QED
      BY <2>2, <3>1, <3>2, <3>6, <3>7 DEF CountWire
  <2>10. CountFrames(l)' /\ \A u : Past(l, u) => Past(l, u)'
    <3>1. \A j \in 1..2 : j \in DOMAIN stack' => Quits(stack'[j], l)
      BY <1>6 DEF Quits, Countless
    <3>2. CountFrames(l) /\ mods'[l].deps = mods[l].deps /\ ("enabled" \in mods'[l].is <=> "enabled" \in mods[l].is)
      BY <2>1, <2>2 DEF CountFor
    <3>3. \A j \in DOMAIN stack : Of(stack[j], "wire", l) => CountWire(mods'[l], stack[j].i)
      BY <2>1, <2>9
    <3> QED
      BY <1>2, <1>5, <3>1, <3>2, <3>3, FramesStay
  <2>11. CountHears(l)'
    <3>1. mods'[l].deps = mods[l].deps /\ {"inited", "enabled"} \cap mods[l].is \subseteq mods'[l].is
      BY <2>1, <2>2
    <3>2. CountHears(l) /\ Deaf(l)
      BY <1>4, <2>2 DEF CountFor
    <3> QED
      BY <2>10, <3>1, <3>2, HearsKept
  <2> QED
    BY <2>1, <2>8, <2>10, <2>11 DEF CountFor
<1>8. CountRest(l)
  BY <1>1, <1>2, <1>7, CountOnly DEF Told
<1>9. Shifted(2) /\ {1, 2} \subseteq DOMAIN stack'
  BY <1>1 DEF Told
<1>10. Minds(stack'[1], l) /\ Minds(stack'[2], l)
  <2>1. 1 \in 1..2 /\ 2 \in 1..2
    OBVIOUS
  <2> QED
    BY <1>6, <1>9, <2>1, MindsNot
<1> QED
  BY <1>2, <1>8, <1>9, <1>10, CountAt2

(* check starts define when depCount is 0: then every dependency has run. *)
LEMMA CountStart == ASSUME TypeInv, TypeInv', CountInv, DidStart PROVE CountInv'
<1>1. PICK h \in Handles : Starting(h) /\ Plain
  BY DEF DidStart
<1>2. Grow /\ UNCHANGED << undefEvents, runs >> /\ At("check")
  BY <1>1, SameGrow DEF Plain, names, answers, DidStart
<1>3. Kept /\ Handles' = Handles /\ \A g \in Handles : mods'[g].onDefined = mods[g].onDefined
  BY <1>1, OnlyKept DEF TypeInv, Starting, OnlyMod, SameRest
<1>4. Deaf(h)
  BY <1>2, <1>3, DeafKept
<1>5. Came(2, 1 - 2, 1) /\ 1 >= 1
  BY <1>1, <1>2, CameAt DEF Starting
<1>6. ASSUME mods[h].id = << >> PROVE CountFor(h)'
  <2>1. PICK m, n : m = mods[h] /\ n = mods'[h]
    OBVIOUS
  <2>2. CountFor(h) /\ CountSame(m, n)
    BY <1>1, <1>6, <2>1 DEF CountInv, CountSame, CountFlags, Starting, SameCall, SameCount, SameRest
  <2>3. m.depCount < 1 /\ "enabled" \in m.is /\ "enabling" \notin m.is
    BY <1>1, <2>1 DEF Starting, Is
  <2>4. Len(m.deps) \in Nat /\ DOMAIN m.deps = 1..Len(m.deps)
    BY <2>1, DepFacts
  <2>5. Unmet(m, Len(m.deps)) = {}
    <3>1. m.depCount = Cardinality(Unmet(m, Len(m.deps)))
      BY <2>1, <2>2, <2>3 DEF CountFor, CountMod
    <3>2. IsFiniteSet(Unmet(m, Len(m.deps))) /\ Cardinality(Unmet(m, Len(m.deps))) \in Nat
      BY <2>4, UnmetFinite
    <3>3. Cardinality(Unmet(m, Len(m.deps))) = 0
      BY <2>3, <3>1, <3>2
    <3> QED
      BY <3>2, <3>3, FS_EmptySet
  <2>6. Met(n, runs')
    <3>1. Met(m, runs)
      BY <2>1, <2>2, <2>4, <2>5 DEF CountFor, CountMod, Unmet, Met
    <3> QED
      BY <1>2, <2>2, <3>1, MetSame DEF CountSame
  <2>7. \A j \in 1..2 : j \in DOMAIN stack' => Quits(stack'[j], h) \/ (stack'[j].op = "define" /\ Met(mods'[h], runs'))
    <3>1. \A j \in 1..2 : j = 1 \/ j = 2
      OBVIOUS
    <3> QED
      BY <1>1, <2>1, <2>6, <3>1 DEF Starting, Quits
  <2>8. CountFrames(h)' /\ \A u : Past(h, u) => Past(h, u)'
    <3>1. \A a : CountWire(m, a) => CountWire(n, a)
      BY <2>2, CountWireSame
    <3>2. \A j \in DOMAIN stack : Of(stack[j], "wire", h) => CountWire(mods'[h], stack[j].i)
      BY <2>1, <2>2, <3>1 DEF CountFor, CountFrames
    <3>3. CountFrames(h) /\ mods'[h].deps = mods[h].deps /\ ("enabled" \in mods'[h].is <=> "enabled" \in mods[h].is)
      BY <2>1, <2>2 DEF CountFor, CountSame, CountFlags
    <3> QED
      BY <1>2, <1>5, <2>7, <3>2, <3>3, FramesStay
  <2>9. CountMod(n, runs')
    BY <1>2, <2>1, <2>2, CountModSame DEF CountFor
  <2>10. CountHears(h)'
    <3>1. mods'[h].deps = mods[h].deps /\ {"inited", "enabled"} \cap mods[h].is \subseteq mods'[h].is
      BY <2>1, <2>2 DEF CountSame, CountFlags
    <3> QED
      BY <1>4, <2>2, <2>8, <3>1, HearsKept DEF CountFor
  <2> QED
    BY <2>1, <2>8, <2>9, <2>10 DEF CountFor
<1>7. CountRest(h)
  BY <1>1, <1>2, <1>6, CountOnly DEF Starting
<1>8. Shifted(2) /\ Minds(stack'[1], h) /\ Minds(stack'[2], h)
  BY <1>1 DEF Starting, Minds
<1> QED
  BY <1>2, <1>7, <1>8, CountAt2

(* CountInv is kept by every step of the loader. *)
LEMMA CountHolds ==
  ASSUME TypeInv, TypeInv', CallsInv, FlagInv, RanInv, CountInv, Did PROVE CountInv'
<1>1. CASE Quiet \/ DidInit \/ DidEnable \/ DidWire \/ DidServe \/ DidTake \/ DidListen \/ DidFetch \/ DidStart
  BY <1>1, CountQuiet, CountInit, CountEnable, CountWireEnd, CountServe, CountTake, CountListen,
     CountFetch, CountStart
<1>2. CASE DidExec \/ DidThrow \/ DidCall \/ DidDefine \/ DidNotify \/ DidEmitted \/ DidEmit \/ DidQueue \/ DidEnd
  BY <1>2, CountExec, CountThrow, CountCall, CountDefine, CountNotify, CountEmitted, CountEmit,
     CountQueue, CountEnd
<1>3. CASE DidGive \/ DidRequire \/ DidForce \/ DidMove \/ DidAsk \/ DidLoad \/ DidFail \/ DidRun
  BY <1>3, CountGive, CountRequire, CountForce, CountMove, CountEvent, CountRun
<1> QED
  BY <1>1, <1>2, <1>3 DEF Did

(* The callback of a require is passed on, from the call of require over   *)
(* the call of init to its Module, which calls it                          *)
User(r) == << "user", r >>
Carries(f, r) == f.op \in {"init", "require"} /\ f.callback = User(r)
Serves(h, r) == h \in Handles /\ mods[h].callback = User(r)
Unstarted(m) == {"defining", "defined"} \cap m.is = {}
CarryOk(f, r, ms) ==
  /\ f.op = "require" /\ f.callback = User(r) => f.deps = AskedNames[r] /\ f.base = NONE
  /\ f.op = "init" /\ f.callback = User(r) =>
       f.deps = AskedNames[r] /\ ms[f.h].id = << >> /\ ms[f.h].base = NONE
CarryPart(r) ==
  /\ \A j \in DOMAIN stack : CarryOk(stack[j], r, mods)
  /\ \A j, k \in DOMAIN stack : Carries(stack[j], r) /\ Carries(stack[k], r) => j = k
  /\ \A j \in DOMAIN stack : Carries(stack[j], r) => r <= issued /\ called[r] = 0 /\ \A h : ~Serves(h, r)
ServePart(r) ==
  /\ r > issued => called[r] = 0 /\ \A h : ~Serves(h, r)
  /\ \A g, h : Serves(g, r) /\ Serves(h, r) => g = h
  /\ \A h : Serves(h, r) =>
       /\ mods[h].id = << >> /\ "inited" \in mods[h].is /\ mods[h].deps = normalizeAll(AskedNames[r], NONE)
       /\ Unstarted(mods[h]) => called[r] = 0
       /\ \A j \in DOMAIN stack : Of(stack[j], "execCb", h) => called[r] = 0
OnceInv == \A r \in Requires : CarryPart(r) /\ ServePart(r)

(* A step that does not touch the callback of r                            *)
Spares(r) ==
  /\ Kept /\ issued' >= issued /\ called'[r] = called[r]
  /\ \A h : Serves(h, r)' <=> Serves(h, r)
  /\ \A h \in Handles : Serves(h, r) =>
       /\ mods'[h].deps = mods[h].deps /\ ("inited" \in mods[h].is => "inited" \in mods'[h].is)
       /\ Unstarted(mods'[h]) => Unstarted(mods[h])
NewCall(f, r) == ~Carries(f, r) /\ \A h : Serves(h, r) /\ Of(f, "execCb", h) => called[r] = 0

(* A step that does not touch the callback of a require keeps OnceInv for it. *)
LEMMA OnceAside ==
  ASSUME TypeInv, TypeInv', NEW r \in Requires, CarryPart(r), ServePart(r), Spares(r),
         NEW k, NEW d, NEW b, Came(k, d, b), \A j \in 1..k : j \in DOMAIN stack' => NewCall(stack'[j], r)
  PROVE  CarryPart(r)' /\ ServePart(r)'
<1>1. r \in Nat /\ issued \in Nat /\ issued' \in Nat /\ issued' >= issued /\ called'[r] = called[r]
  BY RequireAssumption DEF TypeInv, PageOk, Spares
<1>2. ASSUME NEW j \in DOMAIN stack', ~NewCall(stack'[j], r)
      PROVE  j + d \in DOMAIN stack /\ stack'[j] = stack[j + d] /\ j \in Nat \ {0} /\ d \in Int
  <2>1. j \in Nat \ {0} /\ k \in Nat
    BY DEF Came
  <2>2. j > k
    BY <1>2, <2>1
  <2> QED
    BY <2>1, <2>2 DEF Came
<1>3. ASSUME NEW j \in DOMAIN stack' PROVE CarryOk(stack'[j], r, mods')
  <2>1. PICK f : f = stack'[j]
    OBVIOUS
  <2>2. CASE NewCall(f, r)
    BY <2>1, <2>2 DEF NewCall, Carries, CarryOk
  <2>3. CASE ~NewCall(f, r)
    <3>1. PICK a \in DOMAIN stack : f = stack[a]
      BY <1>2, <2>1, <2>3
    <3>2. CarryOk(f, r, mods) /\ Good(f, Len(mods))
      BY <3>1 DEF CarryPart, TypeInv, StackOk, Frames
    <3>3. f.op = "init" => f.h \in Handles
      BY <3>2 DEF Good, Handles
    <3>4. CarryOk(f, r, mods')
      BY <3>2, <3>3 DEF CarryOk, Spares, Kept
    <3> QED
      BY <2>1, <3>4
  <2> QED
    BY <2>2, <2>3
<1>4. ASSUME NEW i \in DOMAIN stack', NEW j \in DOMAIN stack', Carries(stack'[i], r), Carries(stack'[j], r) PROVE i = j
  <2>1. i + d = j + d
    BY <1>2, <1>4 DEF CarryPart, NewCall
  <2> QED
    BY <1>2, <1>4, <2>1 DEF NewCall
<1>5. ASSUME NEW j \in DOMAIN stack', Carries(stack'[j], r)
      PROVE  r <= issued' /\ called'[r] = 0 /\ \A h : ~Serves(h, r)'
  <2>1. r <= issued /\ called[r] = 0 /\ \A h : ~Serves(h, r)
    BY <1>2, <1>5 DEF CarryPart, NewCall
  <2> QED
    BY <1>1, <2>1 DEF Spares
<1>6. CarryPart(r)'
  BY <1>3, <1>4, <1>5 DEF CarryPart
<1>7. r > issued' => called'[r] = 0 /\ \A h : ~Serves(h, r)'
  BY <1>1 DEF ServePart, Spares
<1>8. ASSUME NEW h, Serves(h, r)'
      PROVE  /\ mods'[h].id = << >> /\ "inited" \in mods'[h].is /\ mods'[h].deps = normalizeAll(AskedNames[r], NONE)
             /\ Unstarted(mods'[h]) => called'[r] = 0
             /\ \A j \in DOMAIN stack' : Of(stack'[j], "execCb", h) => called'[r] = 0
  <2>1. Serves(h, r) /\ h \in Handles
    BY <1>8 DEF Spares, Serves
  <2>2. /\ mods[h].id = << >> /\ "inited" \in mods[h].is /\ mods[h].deps = normalizeAll(AskedNames[r], NONE)
        /\ Unstarted(mods[h]) => called[r] = 0
        /\ \A j \in DOMAIN stack : Of(stack[j], "execCb", h) => called[r] = 0
    BY <2>1 DEF ServePart
  <2>3. ASSUME NEW j \in DOMAIN stack', Of(stack'[j], "execCb", h) PROVE called[r] = 0
    <3>1. CASE NewCall(stack'[j], r)
      BY <2>1, <2>3, <3>1 DEF NewCall
    <3>2. CASE ~NewCall(stack'[j], r)
      <4>1. PICK a \in DOMAIN stack : stack'[j] = stack[a]
        BY <1>2, <3>2
      <4>2. Of(stack[a], "execCb", h)
        BY <2>3, <4>1 DEF Of
      <4> QED
        BY <2>2, <4>2
    <3> QED
      BY <3>1, <3>2
  <2>4. PICK m, n : m = mods[h] /\ n = mods'[h]
    OBVIOUS
  <2>5. n.id = m.id /\ n.deps = m.deps /\ "inited" \in n.is /\ (Unstarted(n) => Unstarted(m))
    BY <2>1, <2>2, <2>4 DEF Spares, Kept
  <2> QED
    BY <1>1, <2>2, <2>3, <2>4, <2>5
<1>9. \A g, h : Serves(g, r)' /\ Serves(h, r)' => g = h
  BY DEF Spares, ServePart
<1>10. ServePart(r)'
  BY <1>7, <1>8, <1>9 DEF ServePart, Unstarted
<1> QED
  BY <1>6, <1>10

SparesAll == \A r \in Requires : Spares(r)
NewCalls(f) == \A r \in Requires : NewCall(f, r)

LEMMA OnceStep ==
  ASSUME TypeInv, TypeInv', OnceInv, SparesAll, NEW k, NEW d, NEW b, Came(k, d, b),
         \A j \in 1..k : j \in DOMAIN stack' => NewCalls(stack'[j])
  PROVE  OnceInv'
<1>1. ASSUME NEW r \in Requires PROVE CarryPart(r)' /\ ServePart(r)'
  <2>1. CarryPart(r) /\ ServePart(r) /\ Spares(r) /\ \A j \in 1..k : j \in DOMAIN stack' => NewCall(stack'[j], r)
    BY DEF OnceInv, SparesAll, NewCalls
  <2> QED
    BY <2>1, OnceAside
<1> QED
  BY <1>1 DEF OnceInv

LEMMA OnceAt0 ==
  ASSUME TypeInv, TypeInv', OnceInv, SparesAll, NEW op, At(op), Shifted(0) PROVE OnceInv'
<1>1. Came(0, 1 - 0, 1) /\ \A j \in 1..0 : FALSE
  BY CameAt
<1> QED
  BY <1>1, OnceStep
LEMMA OnceAt1 ==
  ASSUME TypeInv, TypeInv', OnceInv, SparesAll, NEW op, At(op), Shifted(1), NewCalls(stack'[1]) PROVE OnceInv'
<1>1. Came(1, 1 - 1, 1) /\ \A j \in 1..1 : j = 1
  BY CameAt
<1> QED
  BY <1>1, OnceStep
LEMMA OnceAt2 ==
  ASSUME TypeInv, TypeInv', OnceInv, SparesAll, NEW op, At(op), Shifted(2), NewCalls(stack'[1]), NewCalls(stack'[2])
  PROVE  OnceInv'
<1>1. Came(2, 1 - 2, 1) /\ \A j \in 1..2 : j = 1 \/ j = 2
  BY CameAt
<1> QED
  BY <1>1, OnceStep
LEMMA OnceFirst ==
  ASSUME TypeInv, TypeInv', OnceInv, SparesAll, stack = << >>, IsSeq(stack'), DOMAIN stack' = {1}, NewCalls(stack'[1])
  PROVE  OnceInv'
<1>1. Came(1, 0, 0) /\ \A j \in 1..1 : j = 1
  BY CameFirst
<1> QED
  BY <1>1, OnceStep

LEMMA SparesSame ==
  ASSUME TypeInv, TypeInv', SameMods \/ UNCHANGED mods, issued' >= issued, UNCHANGED called
  PROVE  SparesAll
<1>1. Kept /\ Handles' = Handles /\ SameMods
  BY SameKept DEF TypeInv
<1>2. ASSUME NEW g \in Handles
      PROVE  /\ mods'[g].deps = mods[g].deps /\ mods'[g].callback = mods[g].callback
             /\ "inited" \in mods[g].is => "inited" \in mods'[g].is
             /\ Unstarted(mods'[g]) => Unstarted(mods[g])
  <2>1. \A f \in {"inited", "defining", "defined"} : f \in mods'[g].is <=> f \in mods[g].is
    BY <1>1 DEF SameMods, Flags
  <2> QED
    BY <1>1, <2>1 DEF SameMods, Unstarted
<1> QED
  BY <1>1, <1>2 DEF SparesAll, Spares, Serves

LEMMA Issued == ASSUME TypeInv, UNCHANGED issued PROVE issued' >= issued
BY DEF TypeInv, PageOk

LEMMA SparesOnly ==
  ASSUME TypeInv, TypeInv', NEW h \in Handles, OnlyMod(h), SameRest(h), SameCall(h), UNCHANGED << issued, called >>,
         {"inited", "defined"} \cap mods[h].is \subseteq mods'[h].is,
         "defining" \in mods[h].is => {"defining", "defined"} \cap mods'[h].is # {}
  PROVE  SparesAll
<1>1. Kept /\ Handles' = Handles
  BY OnlyKept DEF TypeInv
<1>2. ASSUME NEW g \in Handles
      PROVE  /\ mods'[g].deps = mods[g].deps /\ mods'[g].callback = mods[g].callback
             /\ "inited" \in mods[g].is => "inited" \in mods'[g].is
             /\ Unstarted(mods'[g]) => Unstarted(mods[g])
  BY DEF OnlyMod, SameCall, Unstarted
<1>3. issued' >= issued
  BY Issued
<1> QED
  BY <1>1, <1>2, <1>3 DEF SparesAll, Spares, Serves

LEMMA NewPlain == ASSUME NEW f, f.op \notin {"init", "require", "execCb"} PROVE NewCalls(f)
BY DEF NewCalls, NewCall, Carries, Of
LEMMA NewOps ==
  ASSUME NEW f,
         \E h, i : f \in {check(h, i), enable(h), [op |-> "notify", h |-> h], checkLoaded, WireNext(h, i),
                          [op |-> "emit", h |-> h, k |-> i], [op |-> "complete", id |-> h, found |-> i],
                          [op |-> "completed", id |-> h, found |-> i], [op |-> "scriptError", id |-> h],
                          [op |-> "wire", h |-> h, i |-> i]}
  PROVE  NewCalls(f)
<1>1. f.op \notin {"init", "require", "execCb"}
  BY DEF check, enable, checkLoaded, WireNext
<1> QED
  BY <1>1, NewPlain
LEMMA NewOther ==
  ASSUME NEW c, c = NONE \/ \E h : c = << "load", h >>
  PROVE  /\ \A a, b, d : NewCalls(require(a, b, c, d))
         /\ \A a, b, d, e : NewCalls(init(a, b, c, d, e))
<1>1. \A r \in Requires : c # User(r)
  BY RequireAssumption DEF User
<1> QED
  BY <1>1 DEF NewCalls, NewCall, Carries, Of, require, init

LEMMA OnceQuiet == ASSUME TypeInv, TypeInv', OnceInv, Quiet PROVE OnceInv'
<1>1. PICK k \in Nat, b \in Nat, d \in Int : Came(k, d, b) /\ \A j \in 1..k : j \in DOMAIN stack' => Mild(stack'[j])
  BY CameQuiet
<1>2. SparesAll
  BY SparesSame, Issued DEF Quiet
<1>3. \A f : Mild(f) => NewCalls(f)
  BY NewPlain DEF Mild, Keys
<1> QED
  BY <1>1, <1>2, <1>3, OnceStep

LEMMA OnceEnable == ASSUME TypeInv, TypeInv', OnceInv, DidEnable PROVE OnceInv'
<1>1. PICK h \in Handles : Enabled(h) /\ At("enable") /\ UNCHANGED << issued, called >>
  BY DEF DidEnable, world, answers
<1>2. SparesAll
  BY <1>1, SparesOnly DEF Enabled
<1> QED
  BY <1>1, <1>2, NewOps, OnceAt1 DEF Enabled

LEMMA OnceWire == ASSUME TypeInv, TypeInv', OnceInv, DidWire PROVE OnceInv'
<1>1. PICK h \in Handles : WiredAll(h) /\ At("wire") /\ UNCHANGED << issued, called >>
  BY DEF DidWire, Plain, world, answers
<1>2. SparesAll
  BY <1>1, SparesOnly DEF WiredAll
<1> QED
  BY <1>1, <1>2, NewOps, OnceAt1 DEF WiredAll

LEMMA OnceServe == ASSUME TypeInv, TypeInv', OnceInv, DidServe PROVE OnceInv'
<1>1. PICK h \in Handles, i \in Nat : Served(h, i) /\ At("wire") /\ UNCHANGED << issued, called >>
  BY DEF DidServe, world, answers
<1>2. SparesAll
  BY <1>1, SparesSame, Issued DEF Served
<1> QED
  BY <1>1, <1>2, NewOps, OnceAt1 DEF Served

LEMMA OnceTake == ASSUME TypeInv, TypeInv', OnceInv, DidTake PROVE OnceInv'
<1>1. PICK h \in Handles, i \in Nat : Taken(h, i) /\ At("wire") /\ UNCHANGED << issued, called >>
  BY DEF DidTake, Plain, world, answers
<1>2. SparesAll
  BY <1>1, SparesOnly DEF Taken
<1>3. \A f : f = WireNext(h, i) \/ (\E d : f = enable(d)) => NewCalls(f)
  BY NewOps
<1> QED
  BY <1>1, <1>2, <1>3, OnceAt1, OnceAt2 DEF Taken

LEMMA SparesAdded ==
  ASSUME TypeInv, TypeInv', Kept, Handles \subseteq Handles', UNCHANGED << issued, called >>,
         \A g \in Handles : mods'[g].is = mods[g].is /\ mods'[g].deps = mods[g].deps /\ mods'[g].callback = mods[g].callback,
         \A g \in Handles' : g \notin Handles => mods'[g].callback = NONE
  PROVE  SparesAll
<1>1. \A r \in Requires : User(r) # NONE
  BY RequireAssumption DEF User
<1>2. ASSUME NEW g \in Handles
      PROVE  /\ mods'[g].deps = mods[g].deps /\ mods'[g].callback = mods[g].callback
             /\ "inited" \in mods[g].is => "inited" \in mods'[g].is
             /\ Unstarted(mods'[g]) => Unstarted(mods[g])
  BY DEF Unstarted
<1>3. \A r \in Requires : \A h : Serves(h, r)' <=> Serves(h, r)
  BY <1>1, <1>2 DEF Serves
<1>4. issued' >= issued
  BY Issued
<1> QED
  BY <1>2, <1>3, <1>4 DEF SparesAll, Spares

LEMMA OnceListen == ASSUME TypeInv, TypeInv', OnceInv, DidListen PROVE OnceInv'
<1>1. PICK h \in Handles, i \in Nat, g \in Nat : Listening(h, i, g) /\ At("wire") /\ UNCHANGED << issued, called >>
  BY DEF DidListen, world, answers
<1>2. Kept
  <2>0. Handles' = DOMAIN mods'
    BY DEF TypeInv, ModsOk, Handles
  <2>1. \A x \in Handles : x \in DOMAIN mods'
    BY <1>1, <2>0 DEF Listening
  <2> QED
    BY <1>1, <2>1 DEF Listening, Kept
<1>3. \A x \in Handles : mods'[x].is = mods[x].is /\ mods'[x].deps = mods[x].deps /\ mods'[x].callback = mods[x].callback
  BY <1>1 DEF Listening
<1>4. Handles \subseteq Handles' /\ \A x \in Handles' : x \notin Handles => mods'[x].callback = NONE
  BY <1>1 DEF Listening
<1>5. SparesAll
  BY <1>1, <1>2, <1>3, <1>4, SparesAdded
<1>6. \A f : f = WireNext(h, i) \/ f = enable(g) => NewCalls(f)
  BY NewOps
<1>7. \/ Shifted(1) /\ stack'[1] = WireNext(h, i)
      \/ Shifted(2) /\ stack'[1] = enable(g) /\ stack'[2] = WireNext(h, i)
  BY <1>1 DEF Listening
<1> QED
  BY <1>1, <1>5, <1>6, <1>7, OnceAt1, OnceAt2

LEMMA OnceFetch == ASSUME TypeInv, TypeInv', OnceInv, DidFetch PROVE OnceInv'
<1>1. PICK h \in Handles : Fetching(h) /\ At("check") /\ UNCHANGED << issued, called >>
  BY DEF DidFetch, answers
<1>2. SparesAll
  BY <1>1, SparesOnly DEF Fetching
<1>3. \A a, b, d : NewCalls(require(a, b, << "load", h >>, d))
  BY NewOther
<1> QED
  BY <1>1, <1>2, <1>3, OnceAt0, OnceAt1 DEF Fetching

LEMMA OnceStart == ASSUME TypeInv, TypeInv', OnceInv, DidStart PROVE OnceInv'
<1>1. PICK h \in Handles : Starting(h) /\ At("check") /\ UNCHANGED << issued, called >>
  BY DEF DidStart, Plain, world, answers
<1>2. SparesAll
  BY <1>1, SparesOnly DEF Starting
<1>3. Shifted(2) /\ stack'[1] = [op |-> "execCb", h |-> h] /\ stack'[2].op = "define"
  BY <1>1 DEF Starting
<1>4. NewCalls(stack'[1])
  <2>1. ASSUME NEW r \in Requires, Serves(h, r) PROVE called[r] = 0
    <3>1. Unstarted(mods[h])
      BY <1>1 DEF Starting, Unstarted, Is
    <3> QED
      BY <2>1, <3>1 DEF OnceInv, ServePart
  <2> QED
    BY <1>3, <2>1 DEF NewCalls, NewCall, Carries, Of
<1> QED
  BY <1>1, <1>2, <1>3, <1>4, NewPlain, OnceAt2

LEMMA OnceExec == ASSUME TypeInv, TypeInv', OnceInv, DidExec PROVE OnceInv'
<1>1. PICK h \in Handles : Executed(h) /\ At("execCb") /\ UNCHANGED issued
  BY DEF DidExec, world
<1>2. SparesAll
  BY <1>1, SparesSame, Issued DEF Executed
<1>3. \A a, b, d : NewCalls(require(a, b, NONE, d))
  BY NewOther
<1> QED
  BY <1>1, <1>2, <1>3, OnceAt0, OnceAt1 DEF Executed

LEMMA OnceThrow == ASSUME TypeInv, TypeInv', OnceInv, DidThrow PROVE OnceInv'
<1>1. PICK h \in Handles : Thrown(h) /\ At("execCb") /\ UNCHANGED << issued, called >>
  BY DEF DidThrow, world
<1>2. SparesAll
  BY <1>1, SparesSame, Issued DEF Thrown
<1>3. CASE Came(0, 0, 0)
  <2>1. \A j \in 1..0 : FALSE
    OBVIOUS
  <2> QED
    BY <1>2, <1>3, <2>1, OnceStep
<1>4. CASE Came(1, 1, 2) /\ stack'[1].op = "onError"
  <2>1. \A j \in 1..1 : j = 1
    OBVIOUS
  <2>2. NewCalls(stack'[1])
    BY <1>4, NewPlain
  <2> QED
    BY <1>2, <1>4, <2>1, <2>2, OnceStep
<1> QED
  BY <1>1, <1>3, <1>4, CameThrown DEF At, TypeInv

LEMMA OnceDefine == ASSUME TypeInv, TypeInv', OnceInv, DidDefine PROVE OnceInv'
<1>1. PICK h \in Handles : DefinedNow(h) /\ At("define") /\ UNCHANGED << issued, called >>
  BY DEF DidDefine, world, answers
<1>2. SparesAll
  BY <1>1, SparesOnly DEF DefinedNow
<1> QED
  BY <1>1, <1>2, NewOps, OnceAt0, OnceAt1 DEF DefinedNow

LEMMA OnceNotify == ASSUME TypeInv, TypeInv', OnceInv, DidNotify PROVE OnceInv'
<1>1. PICK h \in Handles : Emitting(h) /\ At("notify") /\ UNCHANGED << issued, called >>
  BY DEF DidNotify, Plain, world, answers
<1>2. SparesAll
  BY <1>1, SparesOnly DEF Emitting
<1> QED
  BY <1>1, <1>2, NewOps, OnceAt1 DEF Emitting

LEMMA OnceEmitted == ASSUME TypeInv, TypeInv', OnceInv, DidEmitted PROVE OnceInv'
<1>1. PICK h \in Handles : ToldAll(h) /\ At("emit") /\ UNCHANGED << issued, called >>
  BY DEF DidEmitted, Plain, world, answers
<1>2. SparesAll
  BY <1>1, SparesOnly DEF ToldAll
<1> QED
  BY <1>1, <1>2, OnceAt0 DEF ToldAll

LEMMA OnceEmit == ASSUME TypeInv, TypeInv', OnceInv, DidEmit PROVE OnceInv'
<1>1. PICK h \in Handles, k \in Nat, i \in Nat, l \in Handles :
        Told(h, k, l, i) /\ At("emit") /\ UNCHANGED << issued, called >>
  BY DEF DidEmit, Plain, world, answers
<1>2. SparesAll
  BY <1>1, SparesOnly DEF Told
<1> QED
  BY <1>1, <1>2, NewOps, OnceAt2 DEF Told

LEMMA OnceForce == ASSUME TypeInv, TypeInv', OnceInv, DidForce PROVE OnceInv'
<1>1. PICK h \in Handles, i \in Nat : ForcedDep(h, i) /\ At("forced") /\ UNCHANGED << issued, called >>
  BY DEF DidForce, Plain, world, answers
<1>2. SparesAll
  BY <1>1, SparesOnly DEF ForcedDep
<1> QED
  BY <1>1, <1>2, NewPlain, OnceAt1 DEF ForcedDep

LEMMA OnceEnd == ASSUME TypeInv, TypeInv', OnceInv, DidEnd PROVE OnceInv'
<1>1. QueueDone /\ At("complete") /\ UNCHANGED << issued, called >>
  BY DEF DidEnd, answers
<1>2. SparesAll
  BY <1>1, SparesSame, Issued DEF QueueDone
<1> QED
  BY <1>1, <1>2, NewOps, OnceAt1 DEF QueueDone

LEMMA OnceMove == ASSUME TypeInv, TypeInv', OnceInv, DidMove PROVE OnceInv'
<1>1. PICK id \in Ids : MovedAway(id) /\ UNCHANGED << issued, called >>
  BY DEF DidMove, world, answers
<1>2. SparesAll
  BY <1>1, SparesSame, Issued DEF MovedAway
<1>3. At(Top.op)
  BY <1>1, TopGood DEF At, Top, TypeInv, MovedAway
<1>4. NewCalls(stack'[1])
  BY <1>1, NewOther DEF MovedAway
<1>5. Shifted(1) \/ (Shifted(2) /\ NewCalls(stack'[2]))
  BY <1>1, NewPlain DEF MovedAway, Mild, Keys
<1> QED
  BY <1>2, <1>3, <1>4, <1>5, OnceAt1, OnceAt2

(* getModule gives nobody the callback. *)
LEMMA SparesFound ==
  ASSUME TypeInv, TypeInv', NEW id, NEW h, Found(id, h), Kept, UNCHANGED << issued, called >>
  PROVE  SparesAll
<1>1. \A g \in Handles' : g \notin Handles => mods'[g].callback = NONE
  BY DEF Found, NewMod, Handles
<1>2. \A g \in Handles : mods'[g].is = mods[g].is /\ mods'[g].deps = mods[g].deps /\ mods'[g].callback = mods[g].callback
  BY DEF Found
<1>3. Handles \subseteq Handles'
  BY DEF Found, Handles
<1> QED
  BY <1>1, <1>2, <1>3, SparesAdded

LEMMA OncePull ==
  ASSUME TypeInv, TypeInv', OnceInv, NEW id, NEW h, NEW deps, NEW g, Pulling(id, h, deps, g),
         UNCHANGED << issued, called >>, NEW op, At(op), NewCalls(g) \/ g = Top
  PROVE  OnceInv'
<1>1. SparesAll /\ Shifted(2) /\ stack'[2] = g /\ 2 \in DOMAIN stack'
  BY SparesFound DEF Pulling
<1>2. NewCalls(stack'[1])
  BY NewOther DEF Pulling
<1>3. CASE NewCalls(g)
  BY <1>1, <1>2, <1>3, OnceAt2
<1>4. CASE g = Top
  <2>1. Came(2, 1 - 2, 1)
    BY <1>1, CameAt
  <2>2. Came(1, 0 - 1, 0)
    <3>1. ASSUME NEW j \in DOMAIN stack', j > 1
          PROVE  /\ j + (0 - 1) \in DOMAIN stack /\ j + (0 - 1) > 0 /\ stack'[j] = stack[j + (0 - 1)]
                 /\ j + (0 - 1) + 1 \in DOMAIN stack => j + 1 \in DOMAIN stack'
      <4>1. CASE j = 2
        <5>1. j + (0 - 1) = 1 /\ j + 1 = 3
          BY <4>1
        <5>2. stack'[j] = stack[1] /\ 1 \in DOMAIN stack
          BY <1>1, <1>4, <4>1 DEF At
        <5>3. 2 \in DOMAIN stack => 3 \in DOMAIN stack'
          <6>1. Len(stack) \in Nat /\ DOMAIN stack = 1..Len(stack) /\ DOMAIN stack' = 1..(Len(stack) - 1 + 2)
            BY <1>1, ShiftedAt, TopGood DEF At, TypeInv, Shifted
          <6> QED
            BY <6>1
        <5> QED
          BY <5>1, <5>2, <5>3
      <4>2. CASE j # 2
        <5>1. j \in Nat \ {0}
          BY <2>1 DEF Came
        <5>2. j > 2 /\ j + (1 - 2) = j + (0 - 1)
          BY <3>1, <4>2, <5>1
        <5>3. /\ j + (1 - 2) \in DOMAIN stack /\ j + (1 - 2) > 1 /\ stack'[j] = stack[j + (1 - 2)]
              /\ j + (1 - 2) + 1 \in DOMAIN stack => j + 1 \in DOMAIN stack'
          BY <2>1, <5>2 DEF Came
        <5> QED
          BY <5>1, <5>2, <5>3
      <4> QED
        BY <4>1, <4>2
    <3>2. IsSeq(stack') /\ \A j \in DOMAIN stack' : j \in Nat \ {0}
      BY <2>1 DEF Came
    <3> QED
      BY <3>1, <3>2 DEF Came
  <2>3. \A j \in 1..1 : j = 1
    OBVIOUS
  <2> QED
    BY <1>1, <1>2, <2>2, <2>3, OnceStep
<1> QED
  BY <1>3, <1>4

LEMMA OnceQueue == ASSUME TypeInv, TypeInv', OnceInv, DidQueue PROVE OnceInv'
<1>1. PICK i \in Sourced : \/ Pulls("require", i, Top)
                           \/ Top.id \in Ids /\ Pulls("complete", i, NextComplete(i))
  BY DEF DidQueue
<1>2. PICK op, g : At(op) /\ Pulls(op, i, g) /\ (NewCalls(g) \/ g = Top)
  <2>1. NewCalls(NextComplete(i))
    BY NewOps DEF NextComplete
  <2> QED
    BY <1>1, <2>1 DEF Pulls
<1>3. PICK h : Pulling(i, h, DepNames[i], g)
  BY <1>2 DEF Pulls
<1>4. UNCHANGED << issued, called >>
  BY <1>2 DEF Pulls, answers
<1> QED
  BY <1>2, <1>3, <1>4, OncePull

LEMMA OnceGive == ASSUME TypeInv, TypeInv', OnceInv, DidGive PROVE OnceInv'
<1>1. PICK id \in Ids : Given(id) /\ At("completed") /\ UNCHANGED << issued, called >>
  BY DEF DidGive, world, answers
<1>2. PICK h : Pulling(id, h, ShimDeps(id), checkLoaded)
  BY <1>1 DEF Given
<1>3. NewCalls(checkLoaded)
  BY NewOps
<1> QED
  BY <1>1, <1>2, <1>3, OncePull

LEMMA OnceLoad == ASSUME TypeInv, TypeInv', OnceInv, DidLoad \/ DidFail PROVE OnceInv'
<1>1. UNCHANGED << mods, issued, called >>
  BY DEF DidLoad, DidFail, Loaded, Failing, answers
<1>2. SparesAll
  BY <1>1, SparesSame, Issued
<1>3. stack = << >> /\ IsSeq(stack') /\ DOMAIN stack' = {1} /\ NewCalls(stack'[1])
  BY NewOps DEF DidLoad, DidFail, Loaded, Failing
<1> QED
  BY <1>2, <1>3, OnceFirst

LEMMA OnceRun == ASSUME TypeInv, TypeInv', OnceInv, DidRun PROVE OnceInv'
<1>1. PICK s \in scripts : Running(s) /\ UNCHANGED << issued, called >>
  BY DEF DidRun
<1>2. SparesAll
  BY <1>1, SparesSame, Issued DEF Running
<1>3. Came(0, 0, 0) /\ \A j \in 1..0 : FALSE
  <2>1. DOMAIN stack' = {} /\ IsSeq(stack')
    BY <1>1 DEF Running, TypeInv, StackOk
  <2> QED
    BY <2>1 DEF Came
<1> QED
  BY <1>2, <1>3, OnceStep

(* What the call on top says of the callback of r                          *)
LEMMA OnceTop ==
  ASSUME OnceInv, NEW r \in Requires, NEW op, At(op), Carries(Top, r)
  PROVE  /\ CarryOk(Top, r, mods) /\ r <= issued /\ called[r] = 0 /\ \A h : ~Serves(h, r)
         /\ \A j \in DOMAIN stack : j > 1 => ~Carries(stack[j], r)
<1>1. 1 \in DOMAIN stack /\ stack[1] = Top /\ \A j \in DOMAIN stack : j > 1 => j # 1
  BY DEF At
<1> QED
  BY <1>1 DEF OnceInv, CarryPart

(* The page calls require: nothing is known of the callback yet            *)

(* The page calls require: the callback is new. *)
LEMMA OnceAsk == ASSUME TypeInv, TypeInv', OnceInv, DidAsk PROVE OnceInv'
<1>1. PICK s \in Requires : Asking(s) /\ UNCHANGED << mods, called >>
  BY DEF DidAsk, Asking, answers
<1>2. issued \in Nat /\ issued' \in Nat /\ issued' >= issued /\ s = issued + 1 /\ issued' = s
  BY <1>1 DEF Asking, TypeInv, PageOk
<1>3. SparesAll
  BY <1>1, <1>2, SparesSame
<1>4. PICK eb : stack'[1] = require(AskedNames[s], NONE, User(s), eb)
  BY <1>1 DEF Asking, User
<1>5. Came(1, 0, 0) /\ DOMAIN stack' = {1} /\ \A j \in 1..1 : j = 1
  BY <1>1, CameFirst DEF Asking
<1>6. ASSUME NEW r \in Requires, r # s PROVE CarryPart(r)' /\ ServePart(r)'
  <2>1. NewCall(stack'[1], r)
    BY <1>4, <1>6 DEF NewCall, Carries, require, Of, User
  <2>2. Spares(r) /\ CarryPart(r) /\ ServePart(r)
    BY <1>3 DEF SparesAll, OnceInv
  <2> QED
    BY <1>5, <2>1, <2>2, OnceAside
<1>7. CarryPart(s)' /\ ServePart(s)'
  <2>1. called[s] = 0 /\ \A h : ~Serves(h, s)
    BY <1>2 DEF OnceInv, ServePart
  <2>2. called'[s] = 0 /\ \A h : ~Serves(h, s)'
    BY <1>1, <2>1 DEF Serves, Handles
  <2>3. ServePart(s)'
    BY <2>2 DEF ServePart
  <2>4. \A j \in DOMAIN stack' : CarryOk(stack'[j], s, mods')
    BY <1>4, <1>5 DEF CarryOk, require
  <2>5. CarryPart(s)'
    BY <1>2, <1>5, <2>2, <2>4 DEF CarryPart
  <2> QED
    BY <2>3, <2>5
<1> QED
  BY <1>6, <1>7 DEF OnceInv

(* require makes a Module for the call of its callback                     *)

(* require makes the Module which is to have the callback. *)
LEMMA OnceRequire == ASSUME TypeInv, TypeInv', OnceInv, DidRequire PROVE OnceInv'
<1>1. PICK h \in Handles' : NewRequire(h) /\ At("require") /\ UNCHANGED << issued, called >>
  BY DEF DidRequire, world, answers
<1>2. Kept /\ Handles' = Handles \cup {h} /\ h \notin Handles /\ Top.op = "require"
  BY <1>1 DEF NewRequire
<1>3. SparesAll
  <2>1. \A g \in Handles : mods'[g].is = mods[g].is /\ mods'[g].deps = mods[g].deps /\ mods'[g].callback = mods[g].callback
    BY <1>1 DEF NewRequire
  <2>2. \A g \in Handles' : g \notin Handles => mods'[g].callback = NONE
    BY <1>1, <1>2 DEF NewRequire
  <2> QED
    BY <1>1, <1>2, <2>1, <2>2, SparesAdded
<1>4. Came(2, 1 - 2, 1) /\ \A j \in 1..2 : j = 1 \/ j = 2
  BY <1>1, CameAt DEF NewRequire
<1>5. stack'[1] = init(h, Top.deps, Top.callback, Top.errback, TRUE) /\ stack'[2] = checkLoaded /\ {1, 2} \subseteq DOMAIN stack'
  BY <1>1 DEF NewRequire
<1>6. NewCalls(stack'[2])
  BY <1>5, NewOps
<1>7. ASSUME NEW r \in Requires, ~Carries(Top, r) PROVE CarryPart(r)' /\ ServePart(r)'
  <2>1. NewCall(stack'[1], r)
    BY <1>2, <1>5, <1>7 DEF NewCall, Carries, init, Of
  <2>2. NewCall(stack'[2], r)
    BY <1>6 DEF NewCalls
  <2>3. Spares(r) /\ CarryPart(r) /\ ServePart(r)
    BY <1>3 DEF SparesAll, OnceInv
  <2> QED
    BY <1>4, <2>1, <2>2, <2>3, OnceAside
<1>8. ASSUME NEW r \in Requires, Carries(Top, r) PROVE CarryPart(r)' /\ ServePart(r)'
  <2>1. /\ CarryOk(Top, r, mods) /\ r <= issued /\ called[r] = 0 /\ \A g : ~Serves(g, r)
        /\ \A j \in DOMAIN stack : j > 1 => ~Carries(stack[j], r)
    BY <1>1, <1>8, OnceTop
  <2>2. called'[r] = 0 /\ r <= issued' /\ \A g : ~Serves(g, r)'
    BY <1>1, <1>3, <2>1 DEF SparesAll, Spares
  <2>3. ASSUME NEW j \in DOMAIN stack', j # 1 PROVE ~Carries(stack'[j], r)
    <3>1. j \in Nat \ {0}
      BY <1>4 DEF Came
    <3>2. CASE j = 2
      BY <1>6, <3>2 DEF NewCalls, NewCall
    <3>3. CASE j > 2
      <4>1. PICK a : a = j + (1 - 2)
        OBVIOUS
      <4>2. a \in DOMAIN stack /\ a > 1 /\ stack'[j] = stack[a]
        BY <1>4, <3>3, <4>1 DEF Came
      <4> QED
        BY <2>1, <4>2
    <3> QED
      BY <2>3, <3>1, <3>2, <3>3
  <2>4. ASSUME NEW j \in DOMAIN stack' PROVE CarryOk(stack'[j], r, mods')
    <3>1. CASE j # 1
      BY <2>3, <3>1 DEF CarryOk, Carries
    <3>2. CASE j = 1
      <4>1. Top.deps = AskedNames[r] /\ Top.base = NONE
        BY <1>2, <1>8, <2>1 DEF CarryOk, Carries
      <4>2. mods'[h].id = << >> /\ mods'[h].base = NONE
        BY <1>1, <4>1 DEF NewRequire
      <4> QED
        BY <1>5, <3>2, <4>1, <4>2 DEF CarryOk, init
    <3> QED
      BY <3>1, <3>2
  <2>5. \A i, j \in DOMAIN stack' : Carries(stack'[i], r) /\ Carries(stack'[j], r) => i = j
    BY <2>3
  <2>6. CarryPart(r)'
    BY <2>2, <2>4, <2>5 DEF CarryPart
  <2>7. ServePart(r)'
    BY <2>2 DEF ServePart
  <2> QED
    BY <2>6, <2>7
<1> QED
  BY <1>7, <1>8 DEF OnceInv

(* init gives the callback to the Module                                   *)
LEMMA OnceInit == ASSUME TypeInv, TypeInv', OnceInv, DidInit PROVE OnceInv'
<1>1. PICK h \in Handles : Inited(h) /\ At("init") /\ UNCHANGED << issued, called >>
  BY DEF DidInit, Plain, world, answers
<1>2. Kept /\ Handles' = Handles /\ h = Top.h /\ Top.op = "init"
  BY <1>1, OnlyKept DEF TypeInv, Inited, At
<1>3. \A r \in Requires : ~Serves(h, r)
  <2>1. "inited" \notin mods[h].is
    BY <1>1 DEF Inited, Is
  <2> QED
    BY <2>1 DEF OnceInv, ServePart
<1>4. \A g \in Handles : g # h => mods'[g] = mods[g]
  BY <1>1 DEF Inited, OnlyMod
<1>5. Came(1, 1 - 1, 1) /\ (\A j \in 1..1 : j = 1) /\ NewCalls(stack'[1])
  <2>1. Came(1, 1 - 1, 1) /\ \A j \in 1..1 : j = 1
    BY <1>1, CameAt DEF Inited
  <2>2. stack'[1] = enable(h) \/ stack'[1] = check(h, FALSE)
    BY <1>1 DEF Inited
  <2> QED
    BY <2>1, <2>2, NewOps
<1>6. \A r \in Requires : Carries(Top, r) <=> mods'[h].callback = User(r)
  BY <1>1, <1>2 DEF Inited, Carries
<1>7. \A r \in Requires : \A g : g # h => (Serves(g, r)' <=> Serves(g, r))
  BY <1>2, <1>4 DEF Serves
<1>8. ASSUME NEW r \in Requires, ~Carries(Top, r) PROVE CarryPart(r)' /\ ServePart(r)'
  <2>1. ~Serves(h, r)'
    BY <1>6, <1>8 DEF Serves
  <2>2. \A g : Serves(g, r)' <=> Serves(g, r)
    BY <1>3, <1>7, <2>1
  <2>3. ASSUME NEW g \in Handles, Serves(g, r) PROVE mods'[g] = mods[g]
    BY <1>3, <1>4, <2>3
  <2>4. Spares(r)
    BY <1>1, <1>2, <2>2, <2>3, Issued DEF Spares
  <2>5. CarryPart(r) /\ ServePart(r) /\ NewCall(stack'[1], r)
    BY <1>5 DEF OnceInv, NewCalls
  <2> QED
    BY <1>5, <2>4, <2>5, OnceAside
<1>9. ASSUME NEW r \in Requires, Carries(Top, r) PROVE CarryPart(r)' /\ ServePart(r)'
  <2>1. /\ CarryOk(Top, r, mods) /\ r <= issued /\ called[r] = 0 /\ \A g : ~Serves(g, r)
        /\ \A j \in DOMAIN stack : j > 1 => ~Carries(stack[j], r)
    BY <1>1, <1>9, OnceTop
  <2>2. called'[r] = 0 /\ r <= issued' /\ issued' \in Nat /\ r \in Nat
    BY <1>1, <2>1, RequireAssumption DEF TypeInv, PageOk
  <2>3. \A g : Serves(g, r)' => g = h
    BY <1>7, <2>1
  <2>4. ASSUME NEW j \in DOMAIN stack' PROVE ~Carries(stack'[j], r)
    <3>1. j \in Nat \ {0}
      BY <1>5 DEF Came
    <3>2. CASE j = 1
      BY <1>5, <3>2 DEF NewCalls, NewCall
    <3>3. CASE j > 1
      <4>1. PICK a : a = j + (1 - 1)
        OBVIOUS
      <4>2. a \in DOMAIN stack /\ a > 1 /\ stack'[j] = stack[a]
        BY <1>5, <3>3, <4>1 DEF Came
      <4> QED
        BY <2>1, <4>2
    <3> QED
      BY <3>1, <3>2, <3>3
  <2>5. CarryPart(r)'
    BY <2>4 DEF CarryPart, CarryOk, Carries
  <2>6. mods'[h].id = << >> /\ "inited" \in mods'[h].is /\ mods'[h].deps = normalizeAll(AskedNames[r], NONE)
    <3>1. Top.deps = AskedNames[r] /\ mods[h].id = << >> /\ mods[h].base = NONE
      BY <1>2, <1>9, <2>1 DEF CarryOk, Carries
    <3> QED
      BY <1>1, <3>1 DEF Inited, SameRest
  <2>7. ServePart(r)'
    BY <2>2, <2>3, <2>6 DEF ServePart
  <2> QED
    BY <2>5, <2>7
<1> QED
  BY <1>8, <1>9 DEF OnceInv

(* Which callback it is                                                    *)
LEMMA CalledFacts ==
  ASSUME TypeInv, NEW h \in Handles, CalledBack(h)
  PROVE  \/ called' = called /\ \A r \in Requires : ~Serves(h, r)
         \/ \E r \in Requires : Serves(h, r) /\ called' = [called EXCEPT ![r] = @ + 1]
<1>1. PICK cb : cb = mods[h].callback
  OBVIOUS
<1>2. cb \in Backs(Len(mods)) \cup {NONE}
  BY <1>1, HandleFacts, ModFields DEF TypeInv
<1>3. CASE cb # NONE /\ cb[1] = "user"
  <2>1. cb \in {"user"} \X Requires
    BY <1>2, <1>3 DEF Backs
  <2>2. PICK r \in Requires : cb = << "user", r >>
    BY <2>1
  <2>3. cb[2] = r
    BY <2>2
  <2>4. called' = [called EXCEPT ![r] = @ + 1]
    BY <1>1, <1>3, <2>3 DEF CalledBack
  <2> QED
    BY <1>1, <2>2, <2>4 DEF Serves, User
<1>4. CASE cb = NONE \/ cb[1] # "user"
  <2>1. called' = called
    BY <1>1, <1>4 DEF CalledBack
  <2>2. ASSUME NEW r \in Requires, Serves(h, r) PROVE FALSE
    <3>1. cb = << "user", r >>
      BY <1>1, <2>2 DEF Serves, User
    <3>2. cb # NONE /\ cb[1] = "user"
      BY <3>1, RequireAssumption
    <3> QED
      BY <1>4, <3>2
  <2> QED
    BY <2>1, <2>2
<1> QED
  BY <1>3, <1>4

(* The execution that is under way: its define comes next, and only once   *)
LEMMA Executing ==
  ASSUME TypeInv, CallsInv, FlagInv, NEW h \in Handles, At("execCb"), Top.h = h
  PROVE  /\ 2 \in DOMAIN stack /\ Of(stack[2], "define", h) /\ "defining" \in mods[h].is
         /\ \A j \in DOMAIN stack : j > 1 => ~Of(stack[j], "execCb", h)
<1>1. Returning
  BY CallsParts
<1>2. 1 \in DOMAIN stack /\ stack[1].op = "execCb" /\ stack[1].h = h
  BY DEF At
<1>3. 1 + 1 \in DOMAIN stack /\ stack[1 + 1].op = "define" /\ stack[1 + 1].h = stack[1].h
  BY <1>1, <1>2 DEF Returning
<1>4. 1 + 1 = 2
  OBVIOUS
<1>5. 2 \in DOMAIN stack /\ stack[2].op = "define" /\ stack[2].h = h
  BY <1>2, <1>3, <1>4
<1>6. "defining" \in mods[h].is
  BY <1>5 DEF FlagInv, Ready
<1>7. ASSUME NEW j \in DOMAIN stack, j > 1, Of(stack[j], "execCb", h) PROVE FALSE
  <2>1. j + 1 \in DOMAIN stack /\ stack[j + 1].op = "define" /\ stack[j + 1].h = h
    BY <1>1, <1>7 DEF Returning, Of
  <2>2. PICK a : a = j + 1
    OBVIOUS
  <2>3. a \in DOMAIN stack /\ stack[a].op = "define" /\ stack[a].h = h
    BY <2>1, <2>2
  <2>4. a = 2
    BY <1>5, <2>3 DEF FlagInv
  <2>5. j \in Nat
    BY TopGood DEF At, TypeInv
  <2> QED
    BY <1>7, <2>2, <2>4, <2>5
<1> QED
  BY <1>5, <1>6, <1>7 DEF Of

(* The callback is called: never again. *)
LEMMA OnceCall == ASSUME TypeInv, TypeInv', CallsInv, FlagInv, OnceInv, DidCall PROVE OnceInv'
<1>1. PICK h \in Handles : CalledBack(h) /\ At("execCb") /\ UNCHANGED issued
  BY DEF DidCall
<1>2. UNCHANGED mods /\ Shifted(0) /\ Kept /\ Handles' = Handles /\ Top.h = h /\ called \in [Requires -> Nat]
  BY <1>1, SameKept DEF CalledBack, TypeInv, SeenOk
<1>3. Came(0, 1 - 0, 1) /\ \A j \in 1..0 : FALSE
  BY <1>1, <1>2, CameAt
<1>4. \A r \in Requires : \A g : Serves(g, r)' <=> Serves(g, r)
  BY <1>2 DEF Serves
<1>5. ASSUME NEW r \in Requires, ~Serves(h, r) PROVE CarryPart(r)' /\ ServePart(r)'
  <2>1. called'[r] = called[r]
    <3>1. CASE called' = called
      BY <3>1
    <3>2. CASE \E s \in Requires : Serves(h, s) /\ called' = [called EXCEPT ![s] = @ + 1]
      <4>1. PICK s \in Requires : Serves(h, s) /\ called' = [called EXCEPT ![s] = @ + 1]
        BY <3>2
      <4>2. s # r
        BY <1>5, <4>1
      <4> QED
        BY <1>2, <4>1, <4>2
    <3> QED
      BY <1>1, <3>1, <3>2, CalledFacts
  <2>2. Spares(r)
    BY <1>1, <1>2, <1>4, <2>1, Issued DEF Spares
  <2>3. CarryPart(r) /\ ServePart(r)
    BY DEF OnceInv
  <2> QED
    BY <1>3, <2>2, <2>3, OnceAside
<1>6. ASSUME NEW r \in Requires, Serves(h, r) PROVE CarryPart(r)' /\ ServePart(r)'
  <2>1. CarryPart(r) /\ ServePart(r)
    BY DEF OnceInv
  <2>2. \A j \in DOMAIN stack : ~Carries(stack[j], r)
    BY <1>6, <2>1 DEF CarryPart
  <2>3. ASSUME NEW j \in DOMAIN stack' PROVE \E a \in DOMAIN stack : a > 1 /\ stack'[j] = stack[a]
    <3>1. j > 0
      BY <1>3 DEF Came
    <3>2. PICK a : a = j + (1 - 0)
      OBVIOUS
    <3> QED
      BY <1>3, <3>1, <3>2 DEF Came
  <2>4. \A j \in DOMAIN stack' : ~Carries(stack'[j], r)
    BY <2>2, <2>3
  <2>5. CarryPart(r)'
    BY <2>4 DEF CarryPart, CarryOk, Carries
  <2>6. ~(r > issued)
    BY <1>6, <2>1 DEF ServePart
  <2>7. "defining" \in mods[h].is /\ \A j \in DOMAIN stack : j > 1 => ~Of(stack[j], "execCb", h)
    BY <1>1, <1>2, Executing
  <2>8. \A j \in DOMAIN stack' : ~Of(stack'[j], "execCb", h)
    BY <2>3, <2>7
  <2>9. \A g : Serves(g, r)' => g = h
    BY <1>4, <1>6, <2>1 DEF ServePart
  <2>10. /\ mods'[h].id = << >> /\ "inited" \in mods'[h].is /\ mods'[h].deps = normalizeAll(AskedNames[r], NONE)
         /\ ~Unstarted(mods'[h])
    BY <1>2, <1>6, <2>1, <2>7 DEF ServePart, Unstarted
  <2>11. ServePart(r)'
    BY <1>1, <2>6, <2>8, <2>9, <2>10 DEF ServePart, Unstarted
  <2> QED
    BY <2>5, <2>11
<1> QED
  BY <1>5, <1>6 DEF OnceInv

(* OnceInv is kept by every step of the loader. *)
LEMMA OnceHolds ==
  ASSUME TypeInv, TypeInv', CallsInv, FlagInv, OnceInv, Did PROVE OnceInv'
<1>1. CASE Quiet \/ DidInit \/ DidEnable \/ DidWire \/ DidServe \/ DidTake \/ DidListen \/ DidFetch \/ DidStart
  BY <1>1, OnceQuiet, OnceInit, OnceEnable, OnceWire, OnceServe, OnceTake, OnceListen, OnceFetch, OnceStart
<1>2. CASE DidExec \/ DidThrow \/ DidCall \/ DidDefine \/ DidNotify \/ DidEmitted \/ DidEmit \/ DidQueue \/ DidEnd
  BY <1>2, OnceExec, OnceThrow, OnceCall, OnceDefine, OnceNotify, OnceEmitted, OnceEmit, OnceQueue, OnceEnd
<1>3. CASE DidGive \/ DidRequire \/ DidForce \/ DidMove \/ DidAsk \/ DidLoad \/ DidFail \/ DidRun
  BY <1>3, OnceGive, OnceRequire, OnceForce, OnceMove, OnceAsk, OnceLoad, OnceRun
<1> QED
  BY <1>1, <1>2, <1>3 DEF Did

(* The first state: nothing has run, nothing is counted and nobody is called. *)
LEMMA NoneRan == Init => RanInv /\ CountInv /\ OnceInv
<1> SUFFICES ASSUME Init PROVE RanInv /\ CountInv /\ OnceInv
  OBVIOUS
<1>1. /\ stack = << >> /\ scripts = {} /\ defined = {} /\ issued = 0
      /\ called = [r \in Requires |-> 0] /\ Handles = {} /\ DOMAIN stack = {}
  BY DEF Init, Handles
<1>2. RanInv
  BY <1>1 DEF RanInv, RanFrames, RanMods, RanScripts, RanNames, RanDefines
<1>3. CountInv
  BY <1>1 DEF CountInv
<1>4. ASSUME NEW r \in Requires PROVE CarryPart(r) /\ ServePart(r)
  <2>1. r \in Nat /\ called[r] = 0 /\ \A h : ~Serves(h, r)
    BY <1>1, RequireAssumption DEF Serves
  <2>2. CarryPart(r)
    BY <1>1 DEF CarryPart
  <2>3. ServePart(r)
    BY <1>1, <2>1 DEF ServePart
  <2> QED
    BY <2>2, <2>3
<1> QED
  BY <1>2, <1>3, <1>4 DEF OnceInv

(* The module that calls back the page has all it depends on               *)
LEMMA CalledTimely ==
  ASSUME TypeInv, CallsInv, FlagInv, CountInv, OnceInv, ExecCallback
  PROVE  called' = called \/ \E r \in Requires : Promise!Call(r)
<1>1. PICK h \in Handles : CalledBack(h)
  BY TExecCallback
<1>2. At("execCb") /\ Top.h = h
  BY <1>1, TopGood, AtTop DEF TypeInv, ExecCallback, Calling, CalledBack
<1>3. CASE called' = called
  BY <1>3
<1>4. CASE \E r \in Requires : Serves(h, r) /\ called' = [called EXCEPT ![r] = @ + 1]
  <2>1. PICK r \in Requires : Serves(h, r) /\ called' = [called EXCEPT ![r] = @ + 1]
    BY <1>4
  <2>2. ServePart(r)
    BY DEF OnceInv
  <2>3. /\ 2 \in DOMAIN stack /\ Of(stack[2], "define", h)
        /\ 1 \in DOMAIN stack /\ Of(stack[1], "execCb", h)
    BY <1>2, Executing DEF At, Of
  <2>4. called[r] = 0
    BY <2>1, <2>2, <2>3 DEF ServePart
  <2>5. mods[h].id = << >> /\ mods[h].deps = normalizeAll(AskedNames[r], NONE)
    BY <2>1, <2>2 DEF ServePart
  <2>6. Met(mods[h], runs)
    BY <2>3, <2>5 DEF CountInv, CountFor, CountFrames
  <2>7. PICK ds : ds = normalizeAll(AskedNames[r], NONE)
    OBVIOUS
  <2>8. \A k \in DOMAIN ds : ds[k] \in handlers \/ runs[ds[k]] > 0
    BY <2>5, <2>6, <2>7 DEF Met, RanIn
  <2>9. DOMAIN ds = DOMAIN AskedNames[r]
    BY <2>7 DEF normalizeAll
  <2>10. AskedIds[r] = {ds[k] : k \in DOMAIN AskedNames[r]} \ handlers
    BY <2>7 DEF AskedIds, IdsIn
  <2>11. \A d \in AskedIds[r] : runs[d] > 0
    BY <2>8, <2>9, <2>10
  <2>12. called' = [called EXCEPT ![r] = 1]
    BY <2>1, <2>4
  <2>13. UNCHANGED << runs, failed >>
    BY DEF ExecCallback
  <2> QED
    BY <2>4, <2>11, <2>12, <2>13 DEF Promise!Call
<1> QED
  BY <1>1, <1>3, <1>4, CalledFacts

(* Only execCb calls a callback of the page. *)
LEMMA CallsBack == ASSUME [Next]_vars PROVE called' = called \/ ExecCallback
<1>1. CASE RunInit \/ RunEnable \/ WireEnd \/ WireHandler \/ WireDep \/ CheckSkip \/ Fetch \/ CheckError \/ CheckDefine
  BY <1>1 DEF RunInit, RunEnable, WireEnd, WireHandler, WireDep, CheckSkip, Fetch, CheckError,
     CheckDefine, seen
<1>2. CASE ExecFactory \/ FactoryThrows \/ RunDefine \/ Notify \/ EmitDefined \/ EmitError \/ RunOnError
  BY <1>2 DEF ExecFactory, FactoryThrows, RunDefine, Notify, EmitDefined, EmitError, RunOnError, seen
<1>3. CASE RequireQueue \/ RunRequire \/ CompleteQueue \/ CompleteQueueEnd \/ Completed \/ ScriptError
  BY <1>3 DEF RequireQueue, RunRequire, CompleteQueue, CompleteQueueEnd, Completed, ScriptError, seen
<1>4. CASE StartSweep \/ Scan \/ ScanTimeout \/ ScanEnd \/ BreakCycles \/ ForceExec \/ ForceDep \/ Forced
  BY <1>4 DEF StartSweep, Scan, ScanTimeout, ScanEnd, BreakCycles, ForceExec, ForceDep, Forced, seen
<1>5. CASE CheckTraced \/ CheckAll \/ CheckEach \/ SweepEnd \/ Overflow
  BY <1>5 DEF CheckTraced, CheckAll, CheckEach, SweepEnd, Overflow, seen
<1>6. CASE Event
  BY <1>6 DEF Event, PageRequire, ScriptRuns, ScriptLoads, ScriptFails, TimerFires, WaitEnds, seen
<1>7. CASE UNCHANGED vars
  BY <1>7 DEF vars, seen
<1> QED
  BY <1>1, <1>2, <1>3, <1>4, <1>5, <1>6, <1>7 DEF Next, Step

(* The callback of a require is called once at most, and when it is every module it asked
   for has run (check, defineDep, enable), whatever fails, times out, comes late or is
   forced to break a cycle: what changes called is the step Call of Amd. *)
THEOREM LoaderCallbacks == OwnPlaces /\ TwoPlaces => (Spec => CallbacksInTime)
<1> SUFFICES ASSUME OwnPlaces, TwoPlaces PROVE Spec => CallbacksInTime
  OBVIOUS
<1> DEFINE I == TypeInv /\ CallsInv /\ FlagInv /\ LoadInv /\ WaitInv /\ RanInv /\ CountInv /\ OnceInv
<1>1. I /\ [Next]_vars => I'
  BY Doing, CallsKept, FlagHolds, LoadHolds, WaitHolds, RanHolds, CountHolds, OnceHolds
<1>2. Init => I
  BY Begins, NothingYet, NoneRan
<1>3. I /\ [Next]_vars => [\E r \in Requires : Promise!Call(r)]_called
  BY CallsBack, CalledTimely
<1> QED
  BY <1>1, <1>2, <1>3, PTL DEF Spec, CallbacksInTime

=============================================================================
