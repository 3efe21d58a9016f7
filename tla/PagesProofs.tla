---------------------------- MODULE PagesProofs ----------------------------
(***************************************************************************)
(* Proofs about three scripts of the pages: PanelLoading, for any number   *)
(* of calls, Marathon, for any names, texts and numbers of requests, and   *)
(* QUnit, for any tests and bodies.                                        *)
(*                                                                         *)
(* Containers are counted and overlays are told apart by the call that put *)
(* them there, so the balance needs that a call has one overlay at most:   *)
(* two overlays of one call would become one when both fade.  A container  *)
(* without anything in it is never the outermost of several, so no more    *)
(* than one of them is left over.                                          *)
(*                                                                         *)
(* That the apps page agrees with the server when nothing is under way is  *)
(* kept by looking at what is under way: as long as nothing happened that  *)
(* the page does not cope with, the latest request on an app, or else the  *)
(* server, says what the page shows of it (AgreeInv).                      *)
(*                                                                         *)
(* The steps of the tests are spread over the runner's queue and the calls *)
(* of synchronize() under way, so the invariant of the runner is about the *)
(* one list w that they make up: queue, then what the frames of the stack  *)
(* add to it (Unwinds).  In w the steps of a test are in order, they are   *)
(* those that its phase leaves to be done, no other test comes between     *)
(* them until the end of the run, and the tests that failed before come    *)
(* first (ListOk).                                                         *)
(*                                                                         *)
(* The verdicts are just because, as long as the queue was not restarted   *)
(* under a waiting test, the semaphore counts the callbacks to come, all   *)
(* of the current test (WaitsFor), the only global variable that the       *)
(* window has and pollution has not is one of that test (WindowOk), and    *)
(* the assertions of every test tell what it did so far (Told).            *)
(***************************************************************************)
EXTENDS PanelLoading, Marathon, QUnit, FiniteSetTheorems, SequenceTheorems, TLAPS

(* Overlays of different calls, none of a call to come                     *)
OneEach ==
  /\ \A o, q \in overlays : o.call = q.call => o = q
  /\ \A o \in overlays : o.call <= panelCalls

PanelInv ==
  /\ panelCalls \in 0 .. MaxCalls /\ containers \in Seq(1 .. panelCalls)
  /\ overlays \subseteq Covers /\ infoPanels \subseteq Covers
  /\ IsFiniteSet(overlays)
  /\ OneEach
  /\ PanelBalanced

-----------------------------------------------------------------------------
(* What is done to covers one by one changes neither which calls have an   *)
(* overlay nor how many there are                                          *)
LEMMA SameCalls ==
  ASSUME NEW n \in 0 .. MaxCalls, NEW S \in SUBSET Covers, IsFiniteSet(S),
         \A o, q \in S : o.call = q.call => o = q,
         \A o \in S : o.call <= n,
         NEW f \in [S -> Covers], \A o \in S : f[o].call = o.call,
         NEW T, T = {f[o] : o \in S}
  PROVE  /\ T \subseteq Covers
         /\ IsFiniteSet(T) /\ Cardinality(T) = Cardinality(S)
         /\ \A o, q \in T : o.call = q.call => o = q
         /\ \A o \in T : o.call <= n
<1>1. f \in Bijection(S, T)
  <2>1. f \in [S -> T]
    OBVIOUS
  <2>2. f \in Injection(S, T)
    BY <2>1 DEF Injection, IsInjective
  <2>3. f \in Surjection(S, T)
    BY <2>1 DEF Surjection
  <2> QED
    BY <2>2, <2>3 DEF Bijection
<1>2. IsFiniteSet(T) /\ Cardinality(T) = Cardinality(S)
  BY <1>1, FS_Bijection DEF ExistsBijection
<1>3. ASSUME NEW o \in T, NEW q \in T, o.call = q.call PROVE o = q
  <2>1. PICK a \in S, b \in S : o = f[a] /\ q = f[b]
    OBVIOUS
  <2>2. a = b
    BY <1>3, <2>1
  <2> QED
    BY <2>1, <2>2
<1>4. \A o \in T : o.call <= n
  OBVIOUS
<1> QED
  BY <1>2, <1>3, <1>4

\* Fading covers keep their call and their container.
LEMMA FadingKeeps ==
  ASSUME PanelInv
  PROVE  /\ Fading(overlays) \subseteq Covers /\ Fading(infoPanels) \subseteq Covers
         /\ IsFiniteSet(Fading(overlays))
         /\ Cardinality(Fading(overlays)) = Cardinality(overlays)
         /\ \A o, q \in Fading(overlays) : o.call = q.call => o = q
         /\ \A o \in Fading(overlays) : o.call <= panelCalls
         /\ \A c \in Fading(overlays) : \E o \in overlays : c.in = o.in
         /\ \A c \in Fading(infoPanels) : \E i \in infoPanels : c.in = i.in
<1> DEFINE g(o) == [o EXCEPT !.fading = TRUE]
           f == [o \in overlays |-> g(o)]
<1>1. \A o \in Covers : g(o) \in Covers /\ g(o).call = o.call /\ g(o).in = o.in
  BY DEF Covers
<1>2. /\ Fading(overlays) = {g(o) : o \in overlays}
      /\ Fading(infoPanels) = {g(o) : o \in infoPanels}
  BY DEF Fading
<1> HIDE DEF g
<1>3. /\ f \in [overlays -> Covers] /\ \A o \in overlays : f[o].call = o.call
      /\ Fading(overlays) = {f[o] : o \in overlays}
  BY <1>1, <1>2 DEF PanelInv
<1> HIDE DEF f
<1>4. /\ IsFiniteSet(Fading(overlays))
      /\ Cardinality(Fading(overlays)) = Cardinality(overlays)
      /\ \A o, q \in Fading(overlays) : o.call = q.call => o = q
      /\ \A o \in Fading(overlays) : o.call <= panelCalls
  <2>1. /\ panelCalls \in 0 .. MaxCalls /\ overlays \in SUBSET Covers /\ IsFiniteSet(overlays)
        /\ \A o, q \in overlays : o.call = q.call => o = q
        /\ \A o \in overlays : o.call <= panelCalls
    BY DEF PanelInv, OneEach
  <2> QED
    BY <1>3, <2>1, SameCalls
<1>5. /\ Fading(overlays) \subseteq Covers /\ Fading(infoPanels) \subseteq Covers
      /\ \A c \in Fading(overlays) : \E o \in overlays : c.in = o.in
      /\ \A c \in Fading(infoPanels) : \E i \in infoPanels : c.in = i.in
  BY <1>1, <1>2 DEF PanelInv
<1> QED
  BY <1>4, <1>5

\* Covers that are wrapped keep their call, and the container they are in.
LEMMA WrappedKeeps ==
  ASSUME PanelInv, NEW n \in 1 .. MaxCalls
  PROVE  /\ Wrapped(overlays, n) \subseteq Covers /\ Wrapped(infoPanels, n) \subseteq Covers
         /\ IsFiniteSet(Wrapped(overlays, n))
         /\ Cardinality(Wrapped(overlays, n)) = Cardinality(overlays)
         /\ \A o, q \in Wrapped(overlays, n) : o.call = q.call => o = q
         /\ \A o \in Wrapped(overlays, n) : o.call <= panelCalls
         /\ \A c \in Wrapped(overlays, n) : c.in = n \/ \E o \in overlays : c.in = o.in
         /\ \A c \in Wrapped(infoPanels, n) : c.in = n \/ \E i \in infoPanels : c.in = i.in
<1> DEFINE g(o) == IF \E k \in DOMAIN containers : containers[k] = o.in
                    THEN o ELSE [o EXCEPT !.in = n]
           f == [o \in overlays |-> g(o)]
<1>1. \A o \in Covers : g(o) \in Covers /\ g(o).call = o.call /\ g(o).in \in {n, o.in}
  BY DEF Covers
<1>2. /\ Wrapped(overlays, n) = {g(o) : o \in overlays}
      /\ Wrapped(infoPanels, n) = {g(o) : o \in infoPanels}
  BY DEF Wrapped
<1> HIDE DEF g
<1>3. /\ f \in [overlays -> Covers] /\ \A o \in overlays : f[o].call = o.call
      /\ Wrapped(overlays, n) = {f[o] : o \in overlays}
  BY <1>1, <1>2 DEF PanelInv
<1> HIDE DEF f
<1>4. /\ IsFiniteSet(Wrapped(overlays, n))
      /\ Cardinality(Wrapped(overlays, n)) = Cardinality(overlays)
      /\ \A o, q \in Wrapped(overlays, n) : o.call = q.call => o = q
      /\ \A o \in Wrapped(overlays, n) : o.call <= panelCalls
  <2>1. /\ panelCalls \in 0 .. MaxCalls /\ overlays \in SUBSET Covers /\ IsFiniteSet(overlays)
        /\ \A o, q \in overlays : o.call = q.call => o = q
        /\ \A o \in overlays : o.call <= panelCalls
    BY DEF PanelInv, OneEach
  <2> QED
    BY <1>3, <2>1, SameCalls
<1>5. /\ Wrapped(overlays, n) \subseteq Covers /\ Wrapped(infoPanels, n) \subseteq Covers
      /\ \A c \in Wrapped(overlays, n) : c.in = n \/ \E o \in overlays : c.in = o.in
      /\ \A c \in Wrapped(infoPanels, n) : c.in = n \/ \E i \in infoPanels : c.in = i.in
  BY <1>1, <1>2 DEF PanelInv
<1> QED
  BY <1>4, <1>5

\* The empty panel has what the invariant asks for.
LEMMA PanelStart == PanelInit => PanelInv
  BY PanelAssumption, FS_EmptySet, SMT DEF PanelInit, PanelInv, OneEach, PanelBalanced

(* A load starts: the new container is the outermost one                   *)
LEMMA PanelStarts ==
  ASSUME PanelInv, panelCalls < MaxCalls, panelCalls' = panelCalls + 1, startLoad,
         UNCHANGED contents
  PROVE  PanelInv'
<1> USE PanelAssumption
<1> DEFINE n == panelCalls + 1
           old == Wrapped(overlays, n)
<1>1. panelCalls \in Nat /\ n \in 1 .. MaxCalls /\ panelCalls' = n
  BY DEF PanelInv
<1>2. /\ containers' = Append(containers, n)
      /\ overlays' = old \cup {Cover(n)}
      /\ infoPanels' = Wrapped(infoPanels, n) \cup {Cover(n)}
  BY <1>1 DEF startLoad
<1>3. Cover(n) \in Covers /\ Cover(n).call = n /\ Cover(n).in = n
  BY <1>1 DEF Cover, Covers
<1>4. /\ old \subseteq Covers /\ Wrapped(infoPanels, n) \subseteq Covers
      /\ IsFiniteSet(old) /\ Cardinality(old) = Cardinality(overlays)
      /\ \A o, q \in old : o.call = q.call => o = q
      /\ \A o \in old : o.call <= panelCalls
      /\ \A c \in old : c.in = n \/ \E o \in overlays : c.in = o.in
      /\ \A c \in Wrapped(infoPanels, n) : c.in = n \/ \E i \in infoPanels : c.in = i.in
  BY <1>1, WrappedKeeps
<1> HIDE DEF old
<1>5. \A o \in old : o.call \in Nat /\ o.call # n
  BY <1>1, <1>4 DEF Covers
<1>6. IsFiniteSet(overlays') /\ Cardinality(overlays') = Cardinality(overlays) + 1
  BY <1>2, <1>3, <1>4, <1>5, FS_AddElement
<1>7. OneEach'
  <2>1. \A o, q \in overlays' : o.call = q.call => o = q
    BY <1>2, <1>3, <1>4, <1>5
  <2>2. \A o \in overlays' : o.call <= n
    BY <1>1, <1>2, <1>3, <1>4, <1>5
  <2> QED
    BY <1>1, <2>1, <2>2 DEF OneEach
<1>8. /\ containers' \in Seq(1 .. n) /\ Len(containers') = Len(containers) + 1
      /\ Len(containers) \in Nat
      /\ containers # << >> => containers'[1] = containers[1] /\ containers[1] # n
  BY <1>1, <1>2 DEF PanelInv
<1>9. PanelBalanced'
  <2>1. ASSUME LeftOver PROVE LeftOver'
    <3>1. containers # << >> /\ ~contents'
      BY <2>1 DEF LeftOver
    <3>2. containers' # << >>
      BY <1>8
    <3>3. \A c \in overlays' \cup infoPanels' : c.in # containers[1]
      BY <1>2, <1>3, <1>4, <1>8, <2>1, <3>1 DEF LeftOver
    <3> QED
      BY <1>8, <3>1, <3>2, <3>3 DEF LeftOver
  <2>2. Cardinality(overlays) \in Nat
    BY FS_CardinalityType DEF PanelInv
  <2> QED
    BY <1>6, <1>8, <2>1, <2>2 DEF PanelInv, PanelBalanced
<1>10. overlays' \subseteq Covers /\ infoPanels' \subseteq Covers
  BY <1>2, <1>3, <1>4
<1> QED
  BY <1>1, <1>6, <1>7, <1>8, <1>9, <1>10 DEF PanelInv

(* A load stops: the covers begin to fade, and where there is no overlay   *)
(* no container is taken away                                              *)
LEMMA PanelStops ==
  ASSUME PanelInv, panelCalls < MaxCalls, panelCalls' = panelCalls + 1, stopLoad,
         UNCHANGED contents
  PROVE  PanelInv'
<1> USE PanelAssumption
<1>1. panelCalls \in Nat /\ panelCalls' \in 0 .. MaxCalls /\ panelCalls <= panelCalls'
  BY DEF PanelInv
<1>2. overlays' = Fading(overlays) /\ infoPanels' = Fading(infoPanels)
  BY DEF stopLoad
<1>3. /\ overlays' \subseteq Covers /\ infoPanels' \subseteq Covers
      /\ IsFiniteSet(overlays') /\ Cardinality(overlays') = Cardinality(overlays)
      /\ \A o, q \in overlays' : o.call = q.call => o = q
      /\ \A o \in overlays' : o.call <= panelCalls
      /\ \A c \in overlays' : \E o \in overlays : c.in = o.in
      /\ \A c \in infoPanels' : \E i \in infoPanels : c.in = i.in
  BY <1>2, FadingKeeps
<1>4. UNCHANGED containers
  <2>1. CASE overlays = {} /\ containers # << >>
    <3>1. Len(containers) \in Nat \ {0} /\ Cardinality(overlays) = 0
      BY <2>1, FS_EmptySet DEF PanelInv
    <3>2. Len(containers) = 1 /\ LeftOver
      BY <3>1 DEF PanelInv, PanelBalanced
    <3>3. ~Filled(infoPanels)
      BY <3>2 DEF Filled, LeftOver
    <3> QED
      BY <2>1, <3>3 DEF stopLoad, removeLoadStuff
  <2>2. CASE ~(overlays = {} /\ containers # << >>)
    BY <2>2 DEF stopLoad, removeLoadStuff
  <2> QED
    BY <2>1, <2>2
<1>5. PanelBalanced'
  <2>1. ASSUME LeftOver PROVE LeftOver'
    BY <1>3, <1>4, <2>1 DEF LeftOver
  <2> QED
    BY <1>3, <1>4, <2>1 DEF PanelInv, PanelBalanced
<1>6. containers' \in Seq(1 .. panelCalls')
  <2>1. 1 .. panelCalls \subseteq 1 .. panelCalls'
    BY <1>1
  <2> QED
    BY <1>4, <2>1 DEF PanelInv
<1>7. OneEach'
  BY <1>1, <1>3 DEF OneEach, Covers
<1> QED
  BY <1>1, <1>3, <1>5, <1>6, <1>7 DEF PanelInv

LEMMA AllButLast ==
  ASSUME NEW C, NEW s \in Seq(C), s # << >>
  PROVE  LET f == SubSeq(s, 1, Len(s) - 1)
         IN  /\ f \in Seq(C) /\ Len(f) = Len(s) - 1
             /\ Len(s) > 1 => f # << >> /\ f[1] = s[1]
<1> DEFINE f == SubSeq(s, 1, Len(s) - 1)
<1>1. Len(s) \in Nat \ {0}
  BY EmptySeq
<1>2. \A k \in 1 .. Len(s) - 1 : s[k] \in C
  BY <1>1, ElementOfSeq
<1>3. f \in Seq(C) /\ Len(f) = Len(s) - 1 /\ \A k \in 1 .. Len(s) - 1 : f[k] = s[k]
  <2> DEFINE n == Len(s) - 1
  <2>n. n \in Nat /\ 1 \in Int /\ n - 1 + 1 = n
    BY <1>1
  <2> HIDE DEF n
  <2>1. /\ SubSeq(s, 1, n) \in Seq(C)
        /\ \A k \in 1 .. n - 1 + 1 : SubSeq(s, 1, n)[k] = s[1 + k - 1]
        /\ Len(SubSeq(s, 1, n)) = IF 1 <= n THEN n - 1 + 1 ELSE 0
    BY <1>2, <2>n, SubSeqProperties DEF n
  <2>f. f = SubSeq(s, 1, n)
    BY DEF n
  <2> HIDE DEF f
  <2>g. 1 .. n - 1 + 1 = 1 .. n /\ (IF 1 <= n THEN n - 1 + 1 ELSE 0) = IF 1 <= n THEN n ELSE 0
    BY <2>n
  <2>2. /\ f \in Seq(C) /\ \A k \in 1 .. n : f[k] = s[1 + k - 1]
        /\ Len(f) = n
    <3>1. f \in Seq(C)
      BY <2>1, <2>f, Zenon
    <3>2. \A k \in 1 .. n : f[k] = s[1 + k - 1]
      BY <2>1, <2>f, <2>g, Zenon
    <3>3. Len(f) = IF 1 <= n THEN n ELSE 0
      BY <2>1, <2>f, <2>n
    <3>4. Len(f) = n
      BY <2>n, <3>3
    <3> QED
      BY <3>1, <3>2, <3>4
  <2>4. \A k \in 1 .. n : 1 + k - 1 = k
    BY <2>n
  <2> QED
    BY <2>2, <2>4 DEF n
<1> HIDE DEF f
<1>4. Len(s) > 1 => f # << >> /\ f[1] = s[1]
  <2>1. Len(<< >>) = 0
    BY EmptySeq
  <2> QED
    BY <1>1, <1>3, <2>1
<1> QED
  BY <1>3, <1>4 DEF f

(* The end of an overlay's animation: the outermost container goes, unless *)
(* it is the only one and nothing is left in it                            *)
LEMMA PanelOverlayFaded ==
  ASSUME PanelInv, NEW o \in overlays, OverlayFaded(o)
  PROVE  PanelInv'
<1> USE PanelAssumption
<1> DEFINE covers == (overlays \ {o}) \cup infoPanels
<1>1. /\ overlays' = overlays \ {o}
      /\ UNCHANGED << contents, infoPanels, panelCalls >>
  BY DEF OverlayFaded
<1>2. Cardinality(overlays) \in Nat /\ Len(containers) \in Nat
  BY FS_CardinalityType DEF PanelInv
<1>3. IsFiniteSet(overlays') /\ Cardinality(overlays') = Cardinality(overlays) - 1
  BY <1>1, FS_RemoveElement DEF PanelInv
<1>4. Cardinality(overlays') \in Nat
  BY <1>3, FS_CardinalityType
<1>5. containers # << >> /\ Len(containers) >= 1
  BY <1>2, <1>3, <1>4 DEF PanelInv, PanelBalanced
<1>6. CASE Filled(covers)
  <2>1. containers' = SubSeq(containers, 1, Len(containers) - 1)
    BY <1>5, <1>6 DEF OverlayFaded, removeLoadStuff
  <2>2. /\ containers' \in Seq(1 .. panelCalls)
        /\ Len(containers') = Len(containers) - 1
        /\ Len(containers) > 1 => containers' # << >> /\ containers'[1] = containers[1]
    BY <1>5, <2>1, AllButLast DEF PanelInv
  <2>3. ASSUME Len(containers) = Cardinality(overlays) PROVE PanelBalanced'
    <3>1. Len(containers') = Cardinality(overlays')
      BY <1>3, <2>2, <2>3
    <3> QED
      BY <3>1 DEF PanelBalanced
  <2>4. ASSUME Len(containers) = Cardinality(overlays) + 1, LeftOver PROVE PanelBalanced'
    <3>1. Len(containers) > 1
      BY <1>2, <1>3, <1>4, <2>4
    <3>2. LeftOver'
      BY <1>1, <2>2, <2>4, <3>1 DEF LeftOver
    <3>3. Len(containers') = Cardinality(overlays') + 1
      BY <1>2, <1>3, <2>2, <2>4
    <3> QED
      BY <3>2, <3>3 DEF PanelBalanced
  <2>5. PanelBalanced'
    BY <2>3, <2>4 DEF PanelInv, PanelBalanced
  <2>6. OneEach'
    BY <1>1 DEF PanelInv, OneEach
  <2> QED
    BY <1>1, <1>3, <2>2, <2>5, <2>6 DEF PanelInv
<1>7. CASE ~Filled(covers)
  <2>1. UNCHANGED containers
    BY <1>7 DEF OverlayFaded, removeLoadStuff
  <2>a. /\ ~contents /\ ~(Len(containers) > 1)
        /\ \A c \in covers : c.in # containers[1]
    BY <1>7 DEF Filled
  <2>2. Len(containers) = 1 /\ LeftOver'
    <3> DEFINE l == Len(containers)
    <3>a. l \in Nat /\ l >= 1 /\ ~(l > 1)
      BY <1>2, <1>5, <2>a, Zenon
    <3> HIDE DEF l
    <3>b. l = 1
      BY <3>a
    <3>1. Len(containers) = 1
      BY <3>b DEF l
    <3>2. LeftOver'
      BY <1>1, <1>5, <2>1, <2>a DEF LeftOver
    <3> QED
      BY <3>1, <3>2
  <2>3. Cardinality(overlays) = 1
    BY <1>2, <1>3, <1>4, <2>2 DEF PanelInv, PanelBalanced
  <2>4. PanelBalanced'
    <3>1. Len(containers') = Cardinality(overlays') + 1
      BY <1>3, <2>1, <2>2, <2>3
    <3> QED
      BY <2>2, <3>1 DEF PanelBalanced
  <2>5. OneEach'
    BY <1>1 DEF PanelInv, OneEach
  <2> QED
    BY <1>1, <1>3, <2>1, <2>4, <2>5 DEF PanelInv
<1> QED
  BY <1>6, <1>7

(* The end of an info panel's animation                                    *)
LEMMA PanelInfoFaded ==
  ASSUME PanelInv, NEW i \in infoPanels, InfoFaded(i)
  PROVE  PanelInv'
<1>1. /\ infoPanels' \subseteq infoPanels
      /\ UNCHANGED << contents, containers, overlays, panelCalls >>
  BY DEF InfoFaded
<1>2. LeftOver => LeftOver'
  BY <1>1 DEF LeftOver
<1>3. PanelBalanced'
  BY <1>1, <1>2 DEF PanelInv, PanelBalanced
<1> QED
  BY <1>1, <1>3 DEF PanelInv, OneEach

\* Every call of panelLoading and every end of an animation keeps it.
LEMMA PanelStep == PanelInv /\ [PanelNext]_panelVars => PanelInv'
<1> SUFFICES ASSUME PanelInv, [PanelNext]_panelVars PROVE PanelInv'
  OBVIOUS
<1>1. ASSUME NEW l \in {TRUE, FALSE, Unset}, panelLoading(l) PROVE PanelInv'
  <2>1. /\ panelCalls < MaxCalls /\ panelCalls' = panelCalls + 1 /\ UNCHANGED contents
        /\ startLoad \/ stopLoad
    BY <1>1 DEF panelLoading
  <2> QED
    BY <2>1, PanelStarts, PanelStops
<1>2. ASSUME NEW o \in overlays, OverlayFaded(o) PROVE PanelInv'
  BY <1>2, PanelOverlayFaded
<1>3. ASSUME NEW i \in infoPanels, InfoFaded(i) PROVE PanelInv'
  BY <1>3, PanelInfoFaded
<1>4. CASE UNCHANGED panelVars
  BY <1>4 DEF panelVars, PanelInv, OneEach, PanelBalanced, LeftOver
<1> QED
  BY <1>1, <1>2, <1>3, <1>4 DEF PanelNext, Fade

(* Containers and overlays balance, however loads that start, stop and     *)
(* fade overlap, but for one empty container of a panel that the page put  *)
(* nothing into (panelLoading, removeLoadStuff).                           *)
THEOREM PanelStaysBalanced == PanelSpec => []PanelBalanced
<1>1. PanelInv => PanelBalanced
  BY DEF PanelInv
<1> QED
  BY <1>1, PanelStart, PanelStep, PTL DEF PanelSpec

-----------------------------------------------------------------------------
(***************************************************************************)
(* The runner of the unit tests.                                           *)
(***************************************************************************)
(* The tests that the page registers before it is loaded                   *)
Plain == Tests \ Late

Four == {"setup", "run", "teardown", "finish"}
Jobs == ({"init", "later"} \cup Four) \X All

Frames == [op : {"process"}, last : BOOLEAN]
            \cup [op : {"synchronize"}, steps : Seq(Jobs) \ {<< >>}, last : BOOLEAN]

(* What a frame of the stack will add to the queue, and to the depth       *)
StepsOf(f) == IF f.op = "synchronize" THEN f.steps ELSE << >>
Loops(f) == IF f.op = "process" THEN 1 ELSE 0

(* The frames of s will add r to the queue, and d of them are loops; h and *)
(* n say so for the part of the stack from every frame on                  *)
Unwound(s, r, d, h, n) ==
  /\ h \in [1 .. Len(s) + 1 -> Seq(Jobs)] /\ n \in [1 .. Len(s) + 1 -> Nat]
  /\ h[1] = r /\ n[1] = d
  /\ h[Len(s) + 1] = << >> /\ n[Len(s) + 1] = 0
  /\ \A k \in 1 .. Len(s) : h[k] = StepsOf(s[k]) \o h[k + 1] /\ n[k] = n[k + 1] + Loops(s[k])
Unwinds(s, r, d) == \E h, n : Unwound(s, r, d, h, n)

LEMMA FrameFacts ==
  ASSUME NEW f \in Frames
  PROVE  /\ f.op \in {"process", "synchronize"} /\ f.last \in BOOLEAN
         /\ f.op = "synchronize" => f.steps \in Seq(Jobs) /\ f.steps # << >>
         /\ StepsOf(f) \in Seq(Jobs) /\ Loops(f) \in Nat
BY DEF Frames, StepsOf, Loops

LEMMA UnwindEmpty ==
  /\ Unwinds(<< >>, << >>, 0)
  /\ \A r, d : Unwinds(<< >>, r, d) => r = << >> /\ d = 0
<1>0. 1 .. Len(<< >>) + 1 = {1} /\ Len(<< >>) + 1 = 1 /\ 1 .. Len(<< >>) = {} /\ << >> \in Seq(Jobs)
  OBVIOUS
<1>1. Unwound(<< >>, << >>, 0, [k \in {1} |-> << >>], [k \in {1} |-> 0])
  BY <1>0 DEF Unwound
<1> QED
  BY <1>0, <1>1 DEF Unwinds, Unwound

LEMMA UnwindTypes ==
  ASSUME NEW s \in Seq(Frames), NEW r, NEW d, Unwinds(s, r, d)
  PROVE  r \in Seq(Jobs) /\ d \in Nat
BY DEF Unwinds, Unwound

LEMMA UnwindPush ==
  ASSUME NEW s \in Seq(Frames), NEW f \in Frames, NEW r, NEW d, Unwinds(s, r, d)
  PROVE  /\ << f >> \o s \in Seq(Frames)
         /\ Unwinds(<< f >> \o s, StepsOf(f) \o r, d + Loops(f))
<1>1. PICK h, n : Unwound(s, r, d, h, n)
  BY DEF Unwinds
<1> DEFINE u == << f >> \o s
           hh == [k \in 1 .. Len(s) + 2 |-> IF k = 1 THEN StepsOf(f) \o r ELSE h[k - 1]]
           nn == [k \in 1 .. Len(s) + 2 |-> IF k = 1 THEN d + Loops(f) ELSE n[k - 1]]
<1>2. /\ u \in Seq(Frames) /\ Len(u) = Len(s) + 1 /\ u[1] = f
      /\ \A k \in 1 .. Len(s) : u[k + 1] = s[k]
  OBVIOUS
<1>3. r \in Seq(Jobs) /\ d \in Nat /\ StepsOf(f) \o r \in Seq(Jobs) /\ d + Loops(f) \in Nat
  <2>1. r \in Seq(Jobs) /\ d \in Nat
    BY UnwindTypes
  <2>2. StepsOf(f) \in Seq(Jobs) /\ Loops(f) \in Nat
    BY FrameFacts
  <2> QED
    BY <2>1, <2>2
<1> HIDE DEF u
<1>4. hh \in [1 .. Len(u) + 1 -> Seq(Jobs)] /\ nn \in [1 .. Len(u) + 1 -> Nat]
  BY <1>1, <1>2, <1>3 DEF Unwound
<1>5. ASSUME NEW k \in 1 .. Len(u) PROVE hh[k] = StepsOf(u[k]) \o hh[k + 1] /\ nn[k] = nn[k + 1] + Loops(u[k])
  <2>1. CASE k = 1
    BY <1>1, <1>2, <2>1 DEF Unwound
  <2>2. CASE k # 1
    <3>1. k - 1 \in 1 .. Len(s) /\ u[k] = s[k - 1] /\ hh[k] = h[k - 1] /\ hh[k + 1] = h[k]
          /\ nn[k] = n[k - 1] /\ nn[k + 1] = n[k]
      <4>1. k \in Int /\ Len(s) \in Nat /\ k \in 1 .. Len(s) + 2 /\ k + 1 \in 1 .. Len(s) + 2 /\ k + 1 # 1
        BY <1>2, <2>2
      <4>2. k - 1 \in 1 .. Len(s) /\ (k + 1) - 1 = k /\ (k - 1) + 1 = k
        BY <1>2, <2>2
      <4>3. hh[k] = h[k - 1] /\ hh[k + 1] = h[(k + 1) - 1] /\ nn[k] = n[k - 1] /\ nn[k + 1] = n[(k + 1) - 1]
        BY <4>1, <2>2
      <4>4. u[(k - 1) + 1] = s[k - 1]
        BY <4>2, <1>2
      <4> QED
        BY <4>2, <4>3, <4>4
    <3>2. h[k - 1] = StepsOf(s[k - 1]) \o h[(k - 1) + 1] /\ n[k - 1] = n[(k - 1) + 1] + Loops(s[k - 1])
      BY <3>1, <1>1 DEF Unwound
    <3>3. (k - 1) + 1 = k
      BY <1>2
    <3> HIDE DEF hh, nn
    <3> QED
      BY <3>1, <3>2, <3>3
  <2> QED
    BY <2>1, <2>2
<1>6. hh[Len(u) + 1] = << >> /\ nn[Len(u) + 1] = 0 /\ hh[1] = StepsOf(f) \o r /\ nn[1] = d + Loops(f)
  BY <1>1, <1>2 DEF Unwound
<1> HIDE DEF hh, nn
<1>7. Unwound(u, StepsOf(f) \o r, d + Loops(f), hh, nn)
  BY <1>4, <1>5, <1>6 DEF Unwound
<1> QED
  BY <1>2, <1>7 DEF Unwinds, u

LEMMA UnwindPop ==
  ASSUME NEW s \in Seq(Frames), s # << >>, NEW r, NEW d, Unwinds(s, r, d)
  PROVE  /\ Head(s) \in Frames /\ Tail(s) \in Seq(Frames)
         /\ \E q \in Seq(Jobs), e \in Nat :
              Unwinds(Tail(s), q, e) /\ r = StepsOf(Head(s)) \o q /\ d = e + Loops(Head(s))
<1>1. PICK h, n : Unwound(s, r, d, h, n)
  BY DEF Unwinds
<1> DEFINE u == Tail(s)
           hh == [k \in 1 .. Len(s) |-> h[k + 1]]
           nn == [k \in 1 .. Len(s) |-> n[k + 1]]
<1>2. /\ u \in Seq(Frames) /\ Len(u) + 1 = Len(s) /\ Head(s) = s[1] /\ Head(s) \in Frames
      /\ \A k \in 1 .. Len(u) : u[k] = s[k + 1]
  OBVIOUS
<1> HIDE DEF u
<1>3. hh \in [1 .. Len(u) + 1 -> Seq(Jobs)] /\ nn \in [1 .. Len(u) + 1 -> Nat]
  BY <1>1, <1>2 DEF Unwound
<1>4. ASSUME NEW k \in 1 .. Len(u) PROVE hh[k] = StepsOf(u[k]) \o hh[k + 1] /\ nn[k] = nn[k + 1] + Loops(u[k])
  <2>1. k + 1 \in 1 .. Len(s) /\ u[k] = s[k + 1] /\ hh[k] = h[k + 1] /\ hh[k + 1] = h[k + 2]
          /\ nn[k] = n[k + 1] /\ nn[k + 1] = n[k + 2]
    BY <1>2
  <2> QED
    BY <2>1, <1>1 DEF Unwound
<1>5. hh[Len(u) + 1] = << >> /\ nn[Len(u) + 1] = 0 /\ hh[1] = h[2] /\ nn[1] = n[2]
  BY <1>1, <1>2 DEF Unwound
<1>6. h[2] \in Seq(Jobs) /\ n[2] \in Nat /\ r = StepsOf(Head(s)) \o h[2] /\ d = n[2] + Loops(Head(s))
  <2>1. 1 \in 1 .. Len(s) /\ 2 \in 1 .. Len(s) + 1
    BY <1>2
  <2>2. h[1] = StepsOf(s[1]) \o h[1 + 1] /\ n[1] = n[1 + 1] + Loops(s[1])
    BY <1>1, <2>1 DEF Unwound
  <2>3. h[2] \in Seq(Jobs) /\ n[2] \in Nat /\ h[1] = r /\ n[1] = d
    BY <1>1, <2>1 DEF Unwound
  <2>4. 1 + 1 = 2
    OBVIOUS
  <2> QED
    BY <1>2, <2>2, <2>3, <2>4
<1> HIDE DEF hh, nn
<1>7. Unwound(u, h[2], n[2], hh, nn)
  BY <1>3, <1>4, <1>5 DEF Unwound
<1> QED
  BY <1>2, <1>6, <1>7 DEF Unwinds, u

-----------------------------------------------------------------------------
(* Step s of test t is in the list w                                       *)
Due(w, s, t) == \E i \in DOMAIN w : w[i] = << s, t >>

(* Step r of a test may come after step s                                  *)
Follows(s, r) ==
  \/ s = "init" /\ r # "init"
  \/ s = "setup" /\ r \in {"run", "teardown", "finish"}
  \/ s = "run" /\ r \in {"teardown", "finish"}
  \/ s = "teardown" /\ r = "finish"

(* The steps of a test are in order and there is one of each               *)
Ordered(w) == \A i, j \in DOMAIN w : i < j /\ w[i][2] = w[j][2] => Follows(w[i][1], w[j][1])

(* What is due of test t when it is in phase p                             *)
Agrees(w, t, p) ==
  /\ Due(w, "init", t) \/ Due(w, "later", t) => p = "queued"
  /\ Due(w, "setup", t) <=> p = "queued" /\ ~Due(w, "later", t)
  /\ Due(w, "run", t) <=> p = "setup" \/ Due(w, "setup", t)
  /\ Due(w, "teardown", t) <=> p = "run" \/ Due(w, "run", t)
  /\ Due(w, "finish", t) <=> p = "teardown" \/ Due(w, "teardown", t)

(* Nothing comes between the steps of a test                               *)
Prev(s) == IF s = "run" THEN "setup" ELSE IF s = "teardown" THEN "run" ELSE "teardown"
Adjacent(w) == \A i \in DOMAIN w :
  i > 1 /\ w[i][1] \in {"run", "teardown", "finish"} => w[i - 1] = << Prev(w[i][1]), w[i][2] >>

(* A step of a test that did not fail the last time, and of one that did   *)
Fresh(x, f) == x[1] \in Four /\ x[2] \in Plain \ f
Again(x, f) == x[2] \in Plain \cap f
FreshLast(w, f) == \A i, j \in DOMAIN w : i < j /\ Fresh(w[i], f) => ~Again(w[j], f)

LEMMA JobFacts ==
  ASSUME NEW x \in Jobs
  PROVE  /\ x = << x[1], x[2] >> /\ x[2] \in All
         /\ x[1] \in {"init", "later", "setup", "run", "teardown", "finish"}
BY DEF Jobs, Four

LEMMA DueCat ==
  ASSUME NEW a \in Seq(Jobs), NEW b \in Seq(Jobs), NEW s, NEW t
  PROVE  Due(a \o b, s, t) <=> Due(a, s, t) \/ Due(b, s, t)
<1>1. ASSUME NEW i \in DOMAIN a PROVE i \in DOMAIN (a \o b) /\ (a \o b)[i] = a[i]
  OBVIOUS
<1>2. ASSUME NEW i \in DOMAIN b PROVE i + Len(a) \in DOMAIN (a \o b) /\ (a \o b)[i + Len(a)] = b[i]
  OBVIOUS
<1>3. ASSUME NEW i \in DOMAIN (a \o b), i \notin DOMAIN a
      PROVE  i - Len(a) \in DOMAIN b /\ (a \o b)[i] = b[i - Len(a)]
  BY <1>3
<1> QED
  BY <1>1, <1>2, <1>3 DEF Due

LEMMA DueAt ==
  ASSUME NEW w \in Seq(Jobs), NEW i \in DOMAIN w
  PROVE  Due(w, w[i][1], w[i][2])
<1>1. w[i] \in Jobs
  OBVIOUS
<1> QED
  BY <1>1, JobFacts DEF Due

LEMMA OrderedCat ==
  ASSUME NEW a \in Seq(Jobs), NEW b \in Seq(Jobs)
  PROVE  Ordered(a \o b) <=>
           /\ Ordered(a) /\ Ordered(b)
           /\ \A s, r, t : Due(a, s, t) /\ Due(b, r, t) => Follows(s, r)
<1> DEFINE w == a \o b
<1>0. w \in Seq(Jobs) /\ Len(w) = Len(a) + Len(b) /\ Len(a) \in Nat /\ Len(b) \in Nat
      /\ DOMAIN w = 1 .. Len(a) + Len(b) /\ DOMAIN a = 1 .. Len(a) /\ DOMAIN b = 1 .. Len(b)
  OBVIOUS
<1>1. \A i \in DOMAIN a : i \in DOMAIN w /\ w[i] = a[i]
  OBVIOUS
<1>2. \A i \in DOMAIN b : i + Len(a) \in DOMAIN w /\ w[i + Len(a)] = b[i]
  OBVIOUS
<1>3. \A i \in DOMAIN w : i \notin DOMAIN a => i - Len(a) \in DOMAIN b /\ w[i] = b[i - Len(a)]
  OBVIOUS
<1> HIDE DEF w
<1>4. ASSUME Ordered(w) PROVE Ordered(a) /\ Ordered(b)
  <2>1. Ordered(a)
    BY <1>0, <1>1, <1>4 DEF Ordered
  <2>2. ASSUME NEW i \in DOMAIN b, NEW j \in DOMAIN b, i < j, b[i][2] = b[j][2]
        PROVE  Follows(b[i][1], b[j][1])
    <3>1. i + Len(a) < j + Len(a)
      BY <1>0, <2>2
    <3> QED
      BY <3>1, <2>2, <1>2, <1>4 DEF Ordered
  <2> QED
    BY <2>1, <2>2 DEF Ordered
<1>5. ASSUME Ordered(w), NEW s, NEW r, NEW t, Due(a, s, t), Due(b, r, t) PROVE Follows(s, r)
  <2>1. PICK i \in DOMAIN a : a[i] = << s, t >>
    BY <1>5 DEF Due
  <2>2. PICK j \in DOMAIN b : b[j] = << r, t >>
    BY <1>5 DEF Due
  <2>3. i < j + Len(a) /\ i \in DOMAIN w /\ j + Len(a) \in DOMAIN w
    BY <1>0, <1>1, <1>2
  <2>4. w[i] = << s, t >> /\ w[j + Len(a)] = << r, t >>
    BY <1>1, <1>2, <2>1, <2>2
  <2>5. w[i][1] = s /\ w[i][2] = t /\ w[j + Len(a)][1] = r /\ w[j + Len(a)][2] = t
    BY <2>4
  <2> QED
    BY <2>3, <2>5, <1>5 DEF Ordered
<1>6. ASSUME Ordered(a), Ordered(b), \A s, r, t : Due(a, s, t) /\ Due(b, r, t) => Follows(s, r),
             NEW i \in DOMAIN w, NEW j \in DOMAIN w, i < j, w[i][2] = w[j][2]
      PROVE  Follows(w[i][1], w[j][1])
  <2>1. CASE j \in DOMAIN a
    <3>1. i \in DOMAIN a
      BY <1>0, <1>6, <2>1
    <3> QED
      BY <1>1, <1>6, <2>1, <3>1 DEF Ordered
  <2>2. CASE i \notin DOMAIN a
    <3>1. j \notin DOMAIN a /\ i - Len(a) < j - Len(a)
      BY <1>0, <1>6, <2>2
    <3> QED
      BY <1>3, <1>6, <2>2, <3>1 DEF Ordered
  <2>3. CASE i \in DOMAIN a /\ j \notin DOMAIN a
    <3>1. Due(a, w[i][1], w[i][2])
      BY <1>1, <2>3, DueAt
    <3>2. Due(b, w[j][1], w[j][2])
      BY <1>3, <2>3, DueAt
    <3> QED
      BY <3>1, <3>2, <1>6
  <2> QED
    BY <2>1, <2>2, <2>3
<1> QED
  BY <1>4, <1>5, <1>6 DEF Ordered, w

LEMMA TakeJob ==
  ASSUME NEW w \in Seq(Jobs), w # << >>, Ordered(w)
  PROVE  /\ Head(w) \in Jobs /\ Tail(w) \in Seq(Jobs) /\ Ordered(Tail(w))
         /\ \A s, t : Due(Tail(w), s, t) <=> Due(w, s, t) /\ Head(w) # << s, t >>
         /\ \A s : Due(Tail(w), s, Head(w)[2]) => Follows(Head(w)[1], s)
         /\ Due(w, Head(w)[1], Head(w)[2])
<1>1. Head(w) \in Jobs /\ Tail(w) \in Seq(Jobs) /\ w = << Head(w) >> \o Tail(w) /\ << Head(w) >> \in Seq(Jobs)
  OBVIOUS
<1>2. Ordered(Tail(w)) /\ \A s, r, t : Due(<< Head(w) >>, s, t) /\ Due(Tail(w), r, t) => Follows(s, r)
  BY <1>1, OrderedCat
<1>3. ASSUME NEW s, NEW t PROVE Due(w, s, t) <=> Due(<< Head(w) >>, s, t) \/ Due(Tail(w), s, t)
  <2>1. Due(<< Head(w) >> \o Tail(w), s, t) <=> Due(<< Head(w) >>, s, t) \/ Due(Tail(w), s, t)
    BY <1>1, DueCat
  <2> QED
    BY <1>1, <2>1
<1>4. \A s, t : Due(<< Head(w) >>, s, t) <=> Head(w) = << s, t >>
  BY DEF Due
<1>5. Head(w) = << Head(w)[1], Head(w)[2] >>
  BY <1>1, JobFacts
<1>6. \A s : ~Follows(s, s)
  BY DEF Follows
<1>7. \A s : Due(Tail(w), s, Head(w)[2]) => Follows(Head(w)[1], s)
  BY <1>2, <1>4, <1>5, Zenon
<1>8. ASSUME NEW s, NEW t, Head(w) = << s, t >> PROVE ~Due(Tail(w), s, t)
  <2>1. Head(w)[1] = s /\ Head(w)[2] = t
    BY <1>8
  <2> QED
    BY <2>1, <1>6, <1>7
<1>9. \A s, t : Due(Tail(w), s, t) <=> Due(w, s, t) /\ Head(w) # << s, t >>
  BY <1>3, <1>4, <1>8
<1>10. Due(w, Head(w)[1], Head(w)[2])
  BY <1>3, <1>4, <1>5
<1> QED
  BY <1>1, <1>2, <1>7, <1>9, <1>10

LEMMA AdjacentCat ==
  ASSUME NEW a \in Seq(Jobs), NEW b \in Seq(Jobs), Adjacent(a), Adjacent(b),
         b # << >> => b[1][1] \notin {"run", "teardown", "finish"}
  PROVE  Adjacent(a \o b)
<1> DEFINE w == a \o b
<1>0. w \in Seq(Jobs) /\ Len(w) = Len(a) + Len(b) /\ Len(a) \in Nat /\ Len(b) \in Nat
      /\ DOMAIN w = 1 .. Len(a) + Len(b) /\ DOMAIN a = 1 .. Len(a) /\ DOMAIN b = 1 .. Len(b)
  OBVIOUS
<1>1. \A i \in DOMAIN a : i \in DOMAIN w /\ w[i] = a[i]
  OBVIOUS
<1>3. \A i \in DOMAIN w : i \notin DOMAIN a => i - Len(a) \in DOMAIN b /\ w[i] = b[i - Len(a)]
  OBVIOUS
<1> HIDE DEF w
<1>4. ASSUME NEW i \in DOMAIN w, i > 1, w[i][1] \in {"run", "teardown", "finish"}
      PROVE  w[i - 1] = << Prev(w[i][1]), w[i][2] >>
  <2>1. CASE i \in DOMAIN a
    <3>1. i - 1 \in DOMAIN a
      BY <1>0, <1>4, <2>1
    <3> QED
      BY <1>1, <1>4, <2>1, <3>1 DEF Adjacent
  <2>2. CASE i \notin DOMAIN a
    <3>1. i - Len(a) \in DOMAIN b /\ w[i] = b[i - Len(a)]
      BY <1>3, <2>2
    <3>2. b # << >>
      BY <3>1
    <3>3. i - Len(a) # 1
      BY <3>1, <3>2, <1>4
    <3>4. i - Len(a) > 1 /\ i - 1 \in DOMAIN w /\ i - 1 \notin DOMAIN a /\ (i - 1) - Len(a) = (i - Len(a)) - 1
      BY <1>0, <3>1, <3>3
    <3>5. w[i - 1] = b[(i - Len(a)) - 1]
      BY <1>3, <3>4
    <3> QED
      BY <3>1, <3>4, <3>5, <1>4 DEF Adjacent
  <2> QED
    BY <2>1, <2>2
<1> QED
  BY <1>4 DEF Adjacent, w

LEMMA AdjacentTail ==
  ASSUME NEW w \in Seq(Jobs), w # << >>, Adjacent(w)
  PROVE  Adjacent(Tail(w))
<1>1. ASSUME NEW i \in DOMAIN Tail(w), i > 1
      PROVE  i + 1 \in DOMAIN w /\ i + 1 > 1 /\ Tail(w)[i] = w[i + 1] /\ Tail(w)[i - 1] = w[(i + 1) - 1]
  BY <1>1
<1> QED
  BY <1>1 DEF Adjacent

LEMMA FreshCat ==
  ASSUME NEW f, NEW a \in Seq(Jobs), NEW b \in Seq(Jobs), FreshLast(a, f), FreshLast(b, f),
         (\A i \in DOMAIN a : ~Fresh(a[i], f)) \/ (\A i \in DOMAIN b : ~Again(b[i], f))
  PROVE  FreshLast(a \o b, f)
<1> DEFINE w == a \o b
<1>0. w \in Seq(Jobs) /\ Len(w) = Len(a) + Len(b) /\ Len(a) \in Nat /\ Len(b) \in Nat
      /\ DOMAIN w = 1 .. Len(a) + Len(b) /\ DOMAIN a = 1 .. Len(a) /\ DOMAIN b = 1 .. Len(b)
  OBVIOUS
<1>1. \A i \in DOMAIN a : i \in DOMAIN w /\ w[i] = a[i]
  OBVIOUS
<1>3. \A i \in DOMAIN w : i \notin DOMAIN a => i - Len(a) \in DOMAIN b /\ w[i] = b[i - Len(a)]
  OBVIOUS
<1> HIDE DEF w
<1>4. ASSUME NEW i \in DOMAIN w, NEW j \in DOMAIN w, i < j, Fresh(w[i], f)
      PROVE  ~Again(w[j], f)
  <2>1. CASE j \in DOMAIN a
    <3>1. i \in DOMAIN a
      BY <1>0, <1>4, <2>1
    <3> QED
      BY <1>1, <1>4, <2>1, <3>1 DEF FreshLast
  <2>2. CASE i \notin DOMAIN a
    <3>1. j \notin DOMAIN a /\ i - Len(a) < j - Len(a)
      BY <1>0, <1>4, <2>2
    <3> QED
      BY <1>3, <1>4, <2>2, <3>1 DEF FreshLast
  <2>3. CASE i \in DOMAIN a /\ j \notin DOMAIN a
    BY <1>1, <1>3, <1>4, <2>3
  <2> QED
    BY <2>1, <2>2, <2>3
<1> QED
  BY <1>4 DEF FreshLast, w

LEMMA FreshTail ==
  ASSUME NEW f, NEW w \in Seq(Jobs), w # << >>, FreshLast(w, f)
  PROVE  /\ FreshLast(Tail(w), f)
         /\ Fresh(Head(w), f) => \A i \in DOMAIN Tail(w) : ~Again(Tail(w)[i], f)
<1>1. ASSUME NEW i \in DOMAIN Tail(w)
      PROVE  i + 1 \in DOMAIN w /\ Tail(w)[i] = w[i + 1] /\ 1 \in DOMAIN w /\ 1 < i + 1 /\ Head(w) = w[1]
  BY <1>1
<1>2. ASSUME NEW i \in DOMAIN Tail(w), NEW j \in DOMAIN Tail(w), i < j PROVE i + 1 < j + 1
  BY <1>2
<1> QED
  BY <1>1, <1>2 DEF FreshLast

-----------------------------------------------------------------------------
Phases == {"new", "skipped", "queued", "setup", "run", "teardown", "finished"}

(* The list w of all that is to be done, when the tests are in phases ph   *)
(* and the tests f failed the last time                                    *)
ListOk(w, ph, auto, ready, f) ==
  /\ w \in Seq(Jobs) /\ Ordered(w) /\ FreshLast(w, f)
  /\ \A t \in All : Agrees(w, t, ph[t])
  /\ ~auto => Adjacent(w)
  /\ \A t \in Plain \cap f : ~Due(w, "later", t)
  /\ ~ready => \A i \in DOMAIN w : ~Fresh(w[i], f)

LEMMA StepsFacts ==
  ASSUME NEW t \in All
  PROVE  /\ Steps(t) \in Seq(Jobs) /\ Steps(t) # << >> /\ Steps(t)[1][1] = "setup"
         /\ DOMAIN Steps(t) = 1 .. 4
         /\ \A i \in DOMAIN Steps(t) : Steps(t)[i][2] = t /\ Steps(t)[i][1] \in Four
         /\ \A s, u : Due(Steps(t), s, u) <=> u = t /\ s \in Four
         /\ Ordered(Steps(t)) /\ Adjacent(Steps(t))
<1>1. Steps(t) \in Seq(Jobs) /\ Len(Steps(t)) = 4
  BY DEF Steps, Jobs, Four
<1>2. /\ Steps(t)[1] = << "setup", t >> /\ Steps(t)[2] = << "run", t >>
      /\ Steps(t)[3] = << "teardown", t >> /\ Steps(t)[4] = << "finish", t >>
  BY DEF Steps
<1>3. DOMAIN Steps(t) = 1 .. 4
  BY <1>1
<1>4. \A i \in 1 .. 4 : i = 1 \/ i = 2 \/ i = 3 \/ i = 4
  OBVIOUS
<1>5. \A i \in DOMAIN Steps(t) : Steps(t)[i][2] = t /\ Steps(t)[i][1] \in Four
  BY <1>2, <1>3, <1>4 DEF Four
<1>6. ASSUME NEW s, NEW u PROVE Due(Steps(t), s, u) <=> u = t /\ s \in Four
  <2>1. \A x : << x, t >> = << s, u >> <=> x = s /\ t = u
    OBVIOUS
  <2>2. 1 \in 1 .. 4 /\ 2 \in 1 .. 4 /\ 3 \in 1 .. 4 /\ 4 \in 1 .. 4
    OBVIOUS
  <2>3. Due(Steps(t), s, u) <=> \/ << "setup", t >> = << s, u >> \/ << "run", t >> = << s, u >>
                                \/ << "teardown", t >> = << s, u >> \/ << "finish", t >> = << s, u >>
    BY <1>2, <1>3, <1>4, <2>2 DEF Due
  <2> QED
    BY <2>1, <2>3 DEF Four
<1>7. Ordered(Steps(t))
  <2> SUFFICES ASSUME NEW i \in 1 .. 4, NEW j \in 1 .. 4, i < j
               PROVE  Follows(Steps(t)[i][1], Steps(t)[j][1])
    BY <1>3 DEF Ordered
  <2>1. /\ Steps(t)[1][1] = "setup" /\ Steps(t)[2][1] = "run"
        /\ Steps(t)[3][1] = "teardown" /\ Steps(t)[4][1] = "finish"
    BY <1>2
  <2>2. CASE i = 1
    <3>1. j = 2 \/ j = 3 \/ j = 4
      BY <2>2
    <3> QED
      BY <2>1, <2>2, <3>1 DEF Follows
  <2>3. CASE i = 2
    <3>1. j = 3 \/ j = 4
      BY <2>3
    <3> QED
      BY <2>1, <2>3, <3>1 DEF Follows
  <2>4. CASE i = 3
    <3>1. j = 4
      BY <2>4
    <3> QED
      BY <2>1, <2>4, <3>1 DEF Follows
  <2> QED
    BY <1>4, <2>2, <2>3, <2>4
<1>8. Adjacent(Steps(t))
  <2> SUFFICES ASSUME NEW i \in 1 .. 4, i > 1
               PROVE  Steps(t)[i - 1] = << Prev(Steps(t)[i][1]), Steps(t)[i][2] >>
    BY <1>3 DEF Adjacent
  <2>1. /\ Steps(t)[2][1] = "run" /\ Steps(t)[3][1] = "teardown" /\ Steps(t)[4][1] = "finish"
    BY <1>2
  <2>2. Steps(t)[i][2] = t
    BY <1>5, <1>3
  <2>3. CASE i = 2
    <3>1. i - 1 = 1
      BY <2>3
    <3> QED
      BY <1>2, <2>1, <2>2, <2>3, <3>1 DEF Prev
  <2>4. CASE i = 3
    <3>1. i - 1 = 2
      BY <2>4
    <3> QED
      BY <1>2, <2>1, <2>2, <2>4, <3>1 DEF Prev
  <2>5. CASE i = 4
    <3>1. i - 1 = 3
      BY <2>5
    <3> QED
      BY <1>2, <2>1, <2>2, <2>5, <3>1 DEF Prev
  <2> QED
    BY <1>4, <2>3, <2>4, <2>5
<1> QED
  BY <1>1, <1>2, <1>3, <1>5, <1>6, <1>7, <1>8

LEMMA SingleFacts ==
  ASSUME NEW s \in {"init", "later"}, NEW t \in All
  PROVE  /\ << << s, t >> >> \in Seq(Jobs) /\ << << s, t >> >> # << >>
         /\ << << s, t >> >>[1][1] = s /\ DOMAIN << << s, t >> >> = {1} /\ << << s, t >> >>[1][2] = t
         /\ \A r, u : Due(<< << s, t >> >>, r, u) <=> u = t /\ r = s
         /\ Ordered(<< << s, t >> >>) /\ Adjacent(<< << s, t >> >>)
         /\ \A f : FreshLast(<< << s, t >> >>, f)
<1>1. << << s, t >> >> \in Seq(Jobs) /\ DOMAIN << << s, t >> >> = {1}
  BY DEF Jobs
<1>2. \A r, u : Due(<< << s, t >> >>, r, u) <=> u = t /\ r = s
  BY DEF Due
<1> QED
  BY <1>1, <1>2 DEF Ordered, Adjacent, FreshLast

(* Nothing of t is due in phases new, skipped and finished                 *)
LEMMA NothingDue ==
  ASSUME NEW w \in Seq(Jobs), NEW t, NEW p, Agrees(w, t, p)
  PROVE  /\ p \in {"new", "skipped", "finished"} => \A i \in DOMAIN w : w[i][2] # t
         /\ (\A i \in DOMAIN w : w[i][2] # t) => p \notin {"queued", "setup", "run", "teardown"}
<1>1. ASSUME p \in {"new", "skipped", "finished"}, NEW i \in DOMAIN w, w[i][2] = t PROVE FALSE
  <2>1. Due(w, w[i][1], t) /\ w[i] \in Jobs
    BY <1>1, DueAt
  <2>2. w[i][1] \in {"init", "later", "setup", "run", "teardown", "finish"}
    BY <2>1, JobFacts
  <2> QED
    BY <1>1, <2>1, <2>2 DEF Agrees
<1>2. ASSUME \A i \in DOMAIN w : w[i][2] # t PROVE p \notin {"queued", "setup", "run", "teardown"}
  <2>1. \A s : ~Due(w, s, t)
    BY <1>2 DEF Due
  <2> QED
    BY <2>1 DEF Agrees
<1> QED
  BY <1>1, <1>2

(* A step other than "later" is taken from the list                        *)
AfterStep(s) ==
  IF s = "setup" THEN "setup" ELSE IF s = "run" THEN "run"
  ELSE IF s = "teardown" THEN "teardown" ELSE "finished"
BeforeStep(s) ==
  IF s = "setup" THEN "queued" ELSE IF s = "run" THEN "setup"
  ELSE IF s = "teardown" THEN "run" ELSE "teardown"

LEMMA ListTake ==
  ASSUME NEW w, NEW ph, NEW auto, NEW ready, NEW f, ListOk(w, ph, auto, ready, f),
         ph \in [All -> Phases], w # << >>, Head(w)[1] # "later",
         NEW new, new = IF Head(w)[1] = "init" THEN ph
                        ELSE [ph EXCEPT ![Head(w)[2]] = AfterStep(Head(w)[1])]
  PROVE  /\ ListOk(Tail(w), new, auto, ready, f) /\ new \in [All -> Phases]
         /\ Head(w)[2] \in All
         /\ Head(w)[1] # "init" => ph[Head(w)[2]] = BeforeStep(Head(w)[1])
         /\ Fresh(Head(w), f) =>
              \A u \in Plain \cap f : ph[u] \notin {"queued", "setup", "run", "teardown"}
<1> DEFINE s == Head(w)[1]
           t == Head(w)[2]
<1>1. /\ w \in Seq(Jobs) /\ Ordered(w) /\ FreshLast(w, f)
      /\ Head(w) \in Jobs /\ Tail(w) \in Seq(Jobs) /\ Ordered(Tail(w))
      /\ \A r, u : Due(Tail(w), r, u) <=> Due(w, r, u) /\ Head(w) # << r, u >>
      /\ \A r : Due(Tail(w), r, t) => Follows(s, r)
      /\ Due(w, s, t)
  BY TakeJob DEF ListOk
<1>2. Head(w) = << s, t >> /\ t \in All /\ s \in {"init", "setup", "run", "teardown", "finish"}
  BY <1>1, JobFacts
<1> HIDE DEF s, t
<1>3. \A r, u : Due(Tail(w), r, u) <=> Due(w, r, u) /\ ~(r = s /\ u = t)
  BY <1>1, <1>2
<1>4. Agrees(w, t, ph[t])
  BY <1>2 DEF ListOk
<1>5. s # "init" => ph[t] = BeforeStep(s)
  <2>1. \A r : Due(w, r, t) => r = s \/ Follows(s, r)
    BY <1>1, <1>3
  <2>2. Due(w, s, t)
    BY <1>1 DEF s, t
  <2> QED
    BY <1>2, <1>4, <2>1, <2>2, SMTT(30) DEF Agrees, BeforeStep, Follows
<1>6. new \in [All -> Phases]
  BY <1>2 DEF Phases, AfterStep, s, t
<1>7. ASSUME NEW u \in All PROVE Agrees(Tail(w), u, new[u])
  <2>0. Agrees(w, u, ph[u])
    BY DEF ListOk
  <2>1. CASE u # t
    <3>1. new[u] = ph[u] /\ \A r : Due(Tail(w), r, u) <=> Due(w, r, u)
      BY <1>3, <2>1 DEF t
    <3> QED
      BY <2>0, <3>1 DEF Agrees
  <2>2. CASE u = t /\ s = "init"
    <3>1. new[u] = ph[u] /\ \A r : r # "init" => (Due(Tail(w), r, u) <=> Due(w, r, u))
      BY <1>3, <2>2 DEF s
    <3>2. Due(Tail(w), "init", u) => Due(w, "init", u)
      BY <1>3
    <3> QED
      BY <2>0, <3>1, <3>2 DEF Agrees
  <2>3. CASE u = t /\ s # "init"
    <3>1. new[u] = AfterStep(s) /\ ph[u] = BeforeStep(s)
      BY <1>2, <1>5, <2>3 DEF s, t
    <3>2. \A r : Due(Tail(w), r, u) <=> Due(w, r, u) /\ r # s
      BY <1>3, <2>3
    <3>3. \A r : Due(Tail(w), r, u) => Follows(s, r)
      BY <1>1, <2>3 DEF s, t
    <3> QED
      BY <1>2, <2>0, <2>3, <3>1, <3>2, <3>3, SMTT(30) DEF Agrees, AfterStep, BeforeStep, Follows
  <2> QED
    BY <2>1, <2>2, <2>3
<1>8. FreshLast(Tail(w), f) /\ (Fresh(Head(w), f) => \A i \in DOMAIN Tail(w) : ~Again(Tail(w)[i], f))
  BY <1>1, FreshTail
<1>9. ~auto => Adjacent(Tail(w))
  BY <1>1, AdjacentTail DEF ListOk
<1>10. \A u \in Plain \cap f : ~Due(Tail(w), "later", u)
  BY <1>3 DEF ListOk
<1>11. ~ready => \A i \in DOMAIN Tail(w) : ~Fresh(Tail(w)[i], f)
  <2>1. \A i \in DOMAIN Tail(w) : i + 1 \in DOMAIN w /\ Tail(w)[i] = w[i + 1]
    BY <1>1
  <2> QED
    BY <2>1 DEF ListOk
<1>12. ASSUME Fresh(Head(w), f), NEW u \in Plain \cap f
       PROVE  ph[u] \notin {"queued", "setup", "run", "teardown"}
  <2>1. u \in All /\ u # t
    BY <1>12 DEF Plain, All, Fresh, t
  <2>2. \A i \in DOMAIN Tail(w) : Tail(w)[i][2] # u
    BY <1>8, <1>12 DEF Again
  <2>3. Agrees(Tail(w), u, ph[u])
    BY <1>7, <2>1 DEF t
  <2> QED
    BY <1>1, <2>2, <2>3, NothingDue
<1> QED
  BY <1>1, <1>2, <1>5, <1>6, <1>7, <1>8, <1>9, <1>10, <1>11, <1>12 DEF ListOk, s, t

-----------------------------------------------------------------------------
(* A test that did not fail the last time is queued at the end             *)
LEMMA ListLater ==
  ASSUME NEW q \in Seq(Jobs), NEW r \in Seq(Jobs), NEW ph, NEW auto, NEW f,
         ListOk(q \o r, ph, auto, TRUE, f), q # << >>, Head(q)[1] = "later",
         ~auto => r = << >>,
         auto => \A t \in Plain : ph[t] \in {"skipped", "finished"}
  PROVE  /\ Head(q)[2] \in All
         /\ ListOk(Tail(q) \o (Steps(Head(q)[2]) \o r), ph, auto, TRUE, f)
<1> DEFINE t == Head(q)[2]
           w == q \o r
           a == Tail(q)
           b == Steps(t) \o r
<1>1. /\ w \in Seq(Jobs) /\ w # << >> /\ Head(w) = Head(q) /\ Tail(w) = a \o r
      /\ a \in Seq(Jobs) /\ a \o r \in Seq(Jobs) /\ Ordered(w) /\ FreshLast(w, f)
  BY DEF ListOk
<1>2. /\ Head(w) \in Jobs /\ Ordered(a \o r)
      /\ \A s, u : Due(a \o r, s, u) <=> Due(w, s, u) /\ Head(w) # << s, u >>
      /\ \A s : Due(a \o r, s, t) => Follows("later", s)
      /\ Due(w, "later", t)
  <2> HIDE DEF w, a
  <2>1. /\ Head(w) \in Jobs /\ Ordered(Tail(w))
        /\ \A s, u : Due(Tail(w), s, u) <=> Due(w, s, u) /\ Head(w) # << s, u >>
        /\ \A s : Due(Tail(w), s, Head(w)[2]) => Follows(Head(w)[1], s)
        /\ Due(w, Head(w)[1], Head(w)[2])
    BY <1>1, TakeJob
  <2> QED
    BY <1>1, <2>1
<1>3. Head(w) = << "later", t >> /\ t \in All
  BY <1>1, <1>2, JobFacts
<1> HIDE DEF t, w, a
<1>4. Steps(t) \in Seq(Jobs) /\ (\A s, u : Due(Steps(t), s, u) <=> u = t /\ s \in Four)
      /\ Ordered(Steps(t)) /\ Adjacent(Steps(t)) /\ Steps(t) # << >> /\ Steps(t)[1][1] = "setup"
      /\ \A i \in DOMAIN Steps(t) : Steps(t)[i][2] = t
  BY <1>3, StepsFacts
<1>5. b \in Seq(Jobs)
  BY <1>4
<1> HIDE DEF b
<1>6. \A s : ~Due(a, s, t) /\ ~Due(r, s, t)
  <2>1. \A s : ~Due(a \o r, s, t)
    BY <1>2 DEF Follows
  <2> QED
    BY <1>1, <2>1, DueCat
<1>7. \A s, u : Due(b, s, u) <=> (u = t /\ s \in Four) \/ Due(r, s, u)
  <2>1. \A s, u : Due(Steps(t) \o r, s, u) <=> Due(Steps(t), s, u) \/ Due(r, s, u)
    BY <1>4, DueCat
  <2> QED
    BY <1>4, <2>1 DEF b
<1>8. \A s, u : Due(a \o b, s, u) <=> (u = t /\ s \in Four) \/ Due(a \o r, s, u)
  <2>1. \A s, u : Due(a \o b, s, u) <=> Due(a, s, u) \/ Due(b, s, u)
    BY <1>1, <1>5, DueCat
  <2>2. \A s, u : Due(a \o r, s, u) <=> Due(a, s, u) \/ Due(r, s, u)
    BY <1>1, DueCat
  <2> QED
    BY <1>7, <2>1, <2>2
<1>9. Ordered(a) /\ Ordered(r) /\ \A s, p, u : Due(a, s, u) /\ Due(r, p, u) => Follows(s, p)
  BY <1>1, <1>2, OrderedCat
<1>10. Ordered(a \o b)
  <2>1. Ordered(Steps(t) \o r)
    BY <1>4, <1>6, <1>9, OrderedCat
  <2>2. \A s, p, u : Due(a, s, u) /\ Due(b, p, u) => Follows(s, p)
    BY <1>6, <1>7, <1>9
  <2> QED
    BY <1>1, <1>5, <1>9, <2>1, <2>2, OrderedCat DEF b
<1>11. ASSUME NEW u \in All PROVE Agrees(a \o b, u, ph[u])
  <2>1. Agrees(w, u, ph[u])
    BY DEF ListOk, w
  <2>2. \A s : Due(a \o r, s, u) <=> Due(w, s, u) /\ ~(s = "later" /\ u = t)
    BY <1>2, <1>3
  <2>3. CASE u # t
    <3>1. \A s : Due(a \o b, s, u) <=> Due(w, s, u)
      BY <2>2, <2>3, <1>8
    <3> QED
      BY <2>1, <3>1 DEF Agrees
  <2>4. CASE u = t
    <3>1. \A s : Due(a \o b, s, u) <=> s \in Four
      BY <2>4, <1>8, <1>2 DEF Follows
    <3>2. ph[u] = "queued"
      BY <2>1, <2>4, <1>2 DEF Agrees
    <3> QED
      BY <3>1, <3>2 DEF Agrees, Four
  <2> QED
    BY <2>3, <2>4
<1>12. \A u \in Plain \cap f : u # t /\ ~Due(a \o b, "later", u)
  <2>1. \A u \in Plain \cap f : ~Due(w, "later", u)
    BY DEF ListOk, w
  <2> QED
    BY <2>1, <1>2, <1>8 DEF Four
<1>13. FreshLast(a \o b, f) /\ (~auto => Adjacent(a \o b))
  <2>1. CASE ~auto
    <3>0. r = << >> /\ (\A x \in Seq(Jobs) : x \o << >> = x)
      BY <2>1
    <3>1. r = << >> /\ b = Steps(t) /\ a \o r = a /\ a = Tail(w)
      BY <3>0, <1>1, <1>4 DEF b
    <3>2. FreshLast(a, f) /\ Adjacent(a)
      BY <1>1, <3>1, <2>1, FreshTail, AdjacentTail DEF ListOk, w
    <3>3. \A i \in DOMAIN b : ~Again(b[i], f)
      BY <3>1, <1>4, <1>12 DEF Again
    <3>4. FreshLast(b, f)
      BY <3>3 DEF FreshLast
    <3>5. FreshLast(a \o b, f)
      BY <1>1, <1>5, <3>2, <3>3, <3>4, FreshCat
    <3>6. Adjacent(a \o b)
      BY <1>1, <1>4, <1>5, <3>1, <3>2, AdjacentCat
    <3> QED
      BY <3>5, <3>6
  <2>2. CASE auto
    <3>1. ASSUME NEW i \in DOMAIN (a \o b) PROVE ~Fresh((a \o b)[i], f)
      <4> DEFINE u == (a \o b)[i][2]
      <4>1. a \o b \in Seq(Jobs) /\ (a \o b)[i] \in Jobs
        BY <1>1, <1>5
      <4>2. Due(a \o b, (a \o b)[i][1], u) /\ u \in All
        BY <4>1, DueAt, JobFacts
      <4>3. CASE u \in Plain
        <5>1. Agrees(a \o b, u, ph[u]) /\ ph[u] \in {"skipped", "finished"}
          BY <1>11, <2>2, <4>2, <4>3
        <5>2. \A j \in DOMAIN (a \o b) : (a \o b)[j][2] # u
          BY <4>1, <5>1, NothingDue
        <5> QED
          BY <5>2
      <4> QED
        BY <4>3 DEF Fresh
    <3> QED
      BY <2>2, <3>1 DEF FreshLast
  <2> QED
    BY <2>1, <2>2
<1> QED
  BY <1>1, <1>3, <1>5, <1>10, <1>11, <1>12, <1>13 DEF ListOk, t, a, b

(* What Test.queue adds for t, when the tests g have failed                *)
Added(t, g) == << << "init", t >> >> \o (IF t \in g THEN Steps(t) ELSE << << "later", t >> >>)

LEMMA ListAppend ==
  ASSUME NEW w, NEW ph, NEW auto, NEW ready, NEW f, ListOk(w, ph, auto, ready, f),
         ph \in [All -> Phases], NEW t \in All, ph[t] = "new", NEW g,
         t \in Plain => (t \in g <=> t \in f) /\ \A i \in DOMAIN w : ~Fresh(w[i], f)
  PROVE  /\ ListOk(w \o Added(t, g), [ph EXCEPT ![t] = "queued"], auto, ready, f)
         /\ [ph EXCEPT ![t] = "queued"] \in [All -> Phases]
<1> DEFINE now == t \in g
           i == << << "init", t >> >>
           c == IF now THEN Steps(t) ELSE << << "later", t >> >>
           b == i \o c
           new == [ph EXCEPT ![t] = "queued"]
<1>1. w \in Seq(Jobs) /\ Ordered(w) /\ FreshLast(w, f) /\ Agrees(w, t, ph[t])
  BY DEF ListOk
<1>2. /\ i \in Seq(Jobs) /\ i # << >> /\ i[1][1] = "init" /\ DOMAIN i = {1} /\ i[1][2] = t
      /\ \A s, u : Due(i, s, u) <=> u = t /\ s = "init"
      /\ Ordered(i) /\ Adjacent(i) /\ FreshLast(i, f)
  BY SingleFacts
<1>3. /\ c \in Seq(Jobs) /\ c # << >> /\ c[1][1] \in {"setup", "later"}
      /\ \A k \in DOMAIN c : c[k][2] = t /\ (now \/ c[k][1] = "later")
      /\ \A s, u : Due(c, s, u) <=> u = t /\ s \in (IF now THEN Four ELSE {"later"})
      /\ Ordered(c) /\ Adjacent(c)
  <2>1. CASE now
    BY <2>1, StepsFacts
  <2>2. CASE ~now
    <3>1. c = << << "later", t >> >>
      BY <2>2
    <3> HIDE DEF c
    <3>2. c \in Seq(Jobs) /\ c # << >> /\ c[1][1] = "later" /\ DOMAIN c = {1} /\ c[1][2] = t
      BY <3>1, SingleFacts
    <3>3. \A s, u : Due(c, s, u) <=> u = t /\ s = "later"
      <4>1. "later" \in {"init", "later"}
        OBVIOUS
      <4> QED
        BY <4>1, <3>1, SingleFacts, Zenon
    <3>4. Ordered(c) /\ Adjacent(c)
      <4>1. "later" \in {"init", "later"}
        OBVIOUS
      <4> QED
        BY <4>1, <3>1, SingleFacts, Zenon
    <3> QED
      BY <2>2, <3>2, <3>3, <3>4
  <2> QED
    BY <2>1, <2>2
<1>4. b = Added(t, g)
  BY DEF Added
<1> HIDE DEF i, c
<1>5. b \in Seq(Jobs) /\ b # << >> /\ b[1][1] = "init"
  BY <1>2, <1>3
<1>6. \A s, u : Due(b, s, u) <=> u = t /\ s \in {"init"} \cup (IF now THEN Four ELSE {"later"})
  <2>1. \A s, u : Due(i \o c, s, u) <=> Due(i, s, u) \/ Due(c, s, u)
    BY <1>2, <1>3, DueCat
  <2> QED
    BY <2>1, <1>2, <1>3
<1>7. Ordered(b) /\ Adjacent(b)
  <2>1. \A s, r, u : Due(i, s, u) /\ Due(c, r, u) => Follows(s, r)
    BY <1>2, <1>3 DEF Follows, Four
  <2>2. Ordered(b)
    BY <1>2, <1>3, <2>1, OrderedCat
  <2>3. Adjacent(b)
    BY <1>2, <1>3, AdjacentCat
  <2> QED
    BY <2>2, <2>3
<1>8. \A k \in DOMAIN b : b[k][2] = t /\ (now \/ b[k][1] \in {"init", "later"})
  <2>1. ASSUME NEW k \in DOMAIN b PROVE b[k][2] = t /\ (now \/ b[k][1] \in {"init", "later"})
    <3>1. CASE k = 1
      BY <1>2, <1>3, <3>1
    <3>2. CASE k # 1
      <4>1. k - 1 \in DOMAIN c /\ b[k] = c[k - 1]
        <5>1. Len(i) = 1 /\ Len(c) \in Nat /\ DOMAIN c = 1 .. Len(c) /\ DOMAIN b = 1 .. Len(i) + Len(c)
          BY <1>2, <1>3 DEF i
        <5> QED
          BY <1>2, <1>3, <3>2, <5>1
      <4> QED
        BY <4>1, <1>3
    <3> QED
      BY <3>1, <3>2
  <2> QED
    BY <2>1
<1> HIDE DEF b
<1>9. \A s : ~Due(w, s, t)
  <2>1. \A k \in DOMAIN w : w[k][2] # t
    BY <1>1, NothingDue
  <2> QED
    BY <2>1 DEF Due
<1>10. \A s, u : Due(w \o b, s, u) <=> Due(w, s, u) \/ Due(b, s, u)
  BY <1>1, <1>5, DueCat
<1>11. Ordered(w \o b)
  BY <1>1, <1>5, <1>6, <1>7, <1>9, OrderedCat
<1>12. ASSUME NEW u \in All PROVE Agrees(w \o b, u, new[u])
  <2>1. Agrees(w, u, ph[u])
    BY DEF ListOk
  <2>2. CASE u # t
    <3>1. new[u] = ph[u] /\ \A s : Due(w \o b, s, u) <=> Due(w, s, u)
      BY <1>6, <1>10, <2>2
    <3> QED
      BY <2>1, <3>1 DEF Agrees
  <2>3. CASE u = t
    <3>1. new[u] = "queued" /\ \A s : Due(w \o b, s, u) <=> s \in {"init"} \cup (IF now THEN Four ELSE {"later"})
      BY <1>6, <1>9, <1>10, <2>3
    <3> HIDE DEF new
    <3> QED
      BY <3>1 DEF Agrees, Four
  <2> QED
    BY <2>2, <2>3
<1>13. FreshLast(w \o b, f) /\ (~ready => \A k \in DOMAIN (w \o b) : ~Fresh((w \o b)[k], f))
  <2>1. ~ready => \A k \in DOMAIN w : ~Fresh(w[k], f)
    BY DEF ListOk
  <2>2. t \in Plain => \A k \in DOMAIN w : ~Fresh(w[k], f)
    OBVIOUS
  <2>3. (\A k \in DOMAIN w : ~Fresh(w[k], f)) \/ (\A k \in DOMAIN b : ~Again(b[k], f))
    BY <1>8, <2>2 DEF Again
  <2>4. \A k \in DOMAIN b : ~Fresh(b[k], f) \/ t \notin Plain
    BY <1>8 DEF Fresh, Four
  <2>5. FreshLast(b, f)
    BY <1>8, <2>4 DEF FreshLast, Fresh, Again
  <2>6. FreshLast(w \o b, f)
    BY <1>1, <1>5, <2>3, <2>5, FreshCat
  <2>7. ASSUME ~ready, NEW k \in DOMAIN (w \o b) PROVE ~Fresh((w \o b)[k], f)
    <3>1. k \in DOMAIN w => (w \o b)[k] = w[k]
      BY <1>1, <1>5
    <3>2. k \notin DOMAIN w => k - Len(w) \in DOMAIN b /\ (w \o b)[k] = b[k - Len(w)]
      BY <1>1, <1>5
    <3>3. \A l \in DOMAIN b : ~Fresh(b[l], f)
      BY <1>8 , <2>4, <2>7 DEF Fresh
    <3> QED
      BY <2>1, <2>7, <3>1, <3>2, <3>3
  <2> QED
    BY <2>6, <2>7
<1>14. \A u \in Plain \cap f : ~Due(w \o b, "later", u)
  <2>1. \A u \in Plain \cap f : ~Due(w, "later", u)
    BY DEF ListOk
  <2>2. t \in Plain \cap f => ~Due(b, "later", t)
    BY <1>6 DEF Four
  <2> QED
    BY <2>1, <2>2, <1>6, <1>10
<1>15. ~auto => Adjacent(w \o b)
  BY <1>1, <1>5, <1>7, AdjacentCat DEF ListOk
<1>16. w \o b \in Seq(Jobs) /\ new \in [All -> Phases]
  BY <1>1, <1>5 DEF Phases
<1> QED
  BY <1>4, <1>11, <1>12, <1>13, <1>14, <1>15, <1>16 DEF ListOk

-----------------------------------------------------------------------------
(* A loop or call with last is the outermost one and adds a single step,   *)
(* and until the end of the run there is only one loop                     *)
StackOk(s, auto) == \A k \in 1 .. Len(s) :
  /\ s[k].last => k = Len(s)
  /\ s[k].op = "synchronize" /\ s[k].last => Len(s[k].steps) = 1
  /\ s[k].op = "process" /\ ~auto => k = Len(s)

LEMMA StackPop ==
  ASSUME NEW s \in Seq(Frames), NEW auto, s # << >>, StackOk(s, auto)
  PROVE  /\ Tail(s) \in Seq(Frames) /\ StackOk(Tail(s), auto) /\ Head(s) \in Frames
         /\ Head(s).last => Tail(s) = << >>
         /\ Head(s).op = "process" /\ ~auto => Tail(s) = << >>
         /\ Head(s).op = "synchronize" /\ Head(s).last => Len(Head(s).steps) = 1
<1> DEFINE u == Tail(s)
<1>1. /\ u \in Seq(Frames) /\ Len(u) = Len(s) - 1 /\ Len(s) \in Nat /\ Len(s) > 0
      /\ \A k \in 1 .. Len(s) - 1 : u[k] = s[k + 1]
      /\ Head(s) = s[1] /\ Head(s) \in Frames
  OBVIOUS
<1> HIDE DEF u
<1>2. 1 \in 1 .. Len(s)
  BY <1>1
<1>3. 1 = Len(s) => u = << >>
  BY <1>1, EmptySeq
<1>4. ASSUME NEW k \in 1 .. Len(u)
      PROVE  /\ u[k].last => k = Len(u)
             /\ u[k].op = "synchronize" /\ u[k].last => Len(u[k].steps) = 1
             /\ u[k].op = "process" /\ ~auto => k = Len(u)
  <2>1. k + 1 \in 1 .. Len(s) /\ u[k] = s[k + 1] /\ (k + 1 = Len(s) => k = Len(u))
    BY <1>1
  <2>2. /\ s[k + 1].last => k + 1 = Len(s)
        /\ s[k + 1].op = "synchronize" /\ s[k + 1].last => Len(s[k + 1].steps) = 1
        /\ s[k + 1].op = "process" /\ ~auto => k + 1 = Len(s)
    BY <2>1 DEF StackOk
  <2> QED
    BY <2>1, <2>2
<1> QED
  BY <1>1, <1>2, <1>3, <1>4 DEF StackOk, u

LEMMA StackPush ==
  ASSUME NEW s \in Seq(Frames), NEW auto, StackOk(s, auto), NEW f \in Frames,
         f.last \/ (f.op = "process" /\ ~auto) => s = << >>,
         f.op = "synchronize" /\ f.last => Len(f.steps) = 1
  PROVE  << f >> \o s \in Seq(Frames) /\ StackOk(<< f >> \o s, auto)
<1> DEFINE u == << f >> \o s
<1>1. /\ u \in Seq(Frames) /\ Len(u) = Len(s) + 1 /\ Len(s) \in Nat /\ u[1] = f
      /\ \A k \in 2 .. Len(s) + 1 : u[k] = s[k - 1]
  OBVIOUS
<1>2. s = << >> => Len(s) = 0
  OBVIOUS
<1> HIDE DEF u
<1>3. ASSUME NEW k \in 1 .. Len(u)
      PROVE  /\ u[k].last => k = Len(u)
             /\ u[k].op = "synchronize" /\ u[k].last => Len(u[k].steps) = 1
             /\ u[k].op = "process" /\ ~auto => k = Len(u)
  <2>1. CASE k = 1
    BY <1>1, <1>2, <2>1
  <2>2. CASE k # 1
    <3>1. k - 1 \in 1 .. Len(s) /\ u[k] = s[k - 1] /\ (k - 1 = Len(s) => k = Len(u))
      BY <1>1, <2>2
    <3> QED
      BY <3>1 DEF StackOk
  <2> QED
    BY <2>1, <2>2
<1> QED
  BY <1>1, <1>3 DEF StackOk, u

LEMMA StackEmpty == \A auto : StackOk(<< >>, auto) /\ << >> \in Seq(Frames)
BY DEF StackOk

LEMMA ProcessFrame ==
  ASSUME NEW last \in BOOLEAN
  PROVE  /\ Process(last) \in Frames /\ Process(last).op = "process" /\ Process(last).last = last
         /\ StepsOf(Process(last)) = << >> /\ Loops(Process(last)) = 1
BY DEF Process, Frames, StepsOf, Loops

LEMMA SynchronizeFrame ==
  ASSUME NEW st \in Seq(Jobs), st # << >>, NEW last \in BOOLEAN
  PROVE  LET f == Synchronize(st, last)
         IN /\ f \in Frames /\ f.op = "synchronize" /\ f.last = last /\ f.steps = st
            /\ StepsOf(f) = st /\ Loops(f) = 0
BY DEF Synchronize, Frames, StepsOf, Loops

LEMMA Associative ==
  \A x, y, z \in Seq(Jobs) : (x \o y) \o z = x \o (y \o z)
<1> TAKE x, y, z \in Seq(Jobs)
<1> QED
  BY ConcatAssociative

LEMMA MoveJob ==
  ASSUME NEW q \in Seq(Jobs), NEW st \in Seq(Jobs), st # << >>, NEW r \in Seq(Jobs)
  PROVE  /\ Append(q, Head(st)) \in Seq(Jobs) /\ Tail(st) \in Seq(Jobs)
         /\ Append(q, Head(st)) \o (Tail(st) \o r) = q \o (st \o r)
         /\ Len(st) = 1 => Append(q, Head(st)) \o r = q \o (st \o r)
         /\ Len(st) # 1 => Tail(st) # << >>
<1>1. Head(st) \in Jobs /\ Tail(st) \in Seq(Jobs) /\ << Head(st) >> \in Seq(Jobs) /\ Append(q, Head(st)) \in Seq(Jobs)
  OBVIOUS
<1>2. Append(q, Head(st)) = q \o << Head(st) >> /\ st = << Head(st) >> \o Tail(st)
  <2>1. Append(q, Head(st)) = q \o << Head(st) >>
    BY <1>1, AppendIsConcat
  <2>2. st = << Head(st) >> \o Tail(st)
    OBVIOUS
  <2> QED
    BY <2>1, <2>2
<1>3. Len(st) = 1 => Tail(st) = << >>
  OBVIOUS
<1>4. Len(st) # 1 => Tail(st) # << >>
  <2> DEFINE u == Tail(st)
  <2>1. Len(u) = Len(st) - 1 /\ Len(st) \in Nat
    BY HeadTailProperties
  <2> HIDE DEF u
  <2>2. Len(st) # 1 => u # << >>
    BY <2>1
  <2> QED
    BY <2>2 DEF u
<1>5. (<< Head(st) >> \o Tail(st)) \o r = << Head(st) >> \o (Tail(st) \o r)
  BY <1>1, Associative, Zenon
<1>6. (q \o << Head(st) >>) \o (Tail(st) \o r) = q \o (<< Head(st) >> \o (Tail(st) \o r))
  <2>1. Tail(st) \o r \in Seq(Jobs)
    BY <1>1
  <2> DEFINE h == << Head(st) >>
             e == Tail(st) \o r
  <2>2. h \in Seq(Jobs) /\ e \in Seq(Jobs)
    BY <1>1, <2>1
  <2> HIDE DEF h, e
  <2>4. (q \o h) \o e = q \o (h \o e)
    BY <2>2, Associative, Zenon
  <2> QED
    BY <2>4 DEF h, e
<1>7. << >> \o r = r
  OBVIOUS
<1> QED
  BY <1>1, <1>2, <1>3, <1>4, <1>5, <1>6, <1>7

-----------------------------------------------------------------------------
RunnerTypes ==
  /\ queue \in Seq(Jobs) /\ stack \in Seq(Frames)
  /\ phase \in [All -> Phases] /\ registered \in Nat
  /\ semaphore \in Nat /\ startTimers \in Nat
  /\ blocking \in BOOLEAN /\ autorun \in BOOLEAN /\ timeout \in BOOLEAN
  /\ loaded \in BOOLEAN /\ early \in BOOLEAN
  /\ current \in All \cup {NONE} /\ order \in Seq(All)
  /\ \A c \in pending : c[1] \in Tests /\ c[2] \in DOMAIN Body[c[1]].later

(* What is queued and what the calls under way will queue                  *)
QueueInv ==
  \E r : Unwinds(stack, r, depth) /\ ListOk(queue \o r, phase, autorun, loaded, failedBefore)

(* Nothing has happened before the page is loaded, and the tests it has    *)
(* registered by then are through at the end of the run                    *)
LoadInv ==
  /\ ~loaded => /\ blocking /\ ~timeout /\ ~autorun /\ startTimers = 0 /\ current = NONE
                /\ pending = {} /\ order = << >>
                /\ failedBefore = {storage[i] : i \in DOMAIN storage}
  /\ loaded => \A t \in Plain : phase[t] # "new"
  /\ autorun => \A t \in Plain : phase[t] \in {"skipped", "finished"}
  /\ \A t \in Tests : t > registered <=> phase[t] = "new"

(* Once another test has run, those that failed the last time are through  *)
OrderInv == \A i \in DOMAIN order : order[i] \in Plain \ failedBefore =>
  \A u \in Plain \cap failedBefore : phase[u] \in {"skipped", "finished"}

Active == {"setup", "run", "teardown"}
WaitInv ==
  /\ timeout => blocking /\ current # NONE
  /\ current # NONE => phase[current] \in Active

RunnerInv ==
  /\ RunnerTypes /\ QueueInv /\ StackOk(stack, autorun)
  /\ LoadInv /\ OrderInv /\ WaitInv /\ FailedFirst

LEMMA RunnerStart == Init => RunnerInv
<1> SUFFICES ASSUME Init PROVE RunnerInv
  OBVIOUS
<1>1. RunnerTypes
  <2>1. phase \in [All -> Phases]
    BY DEF Init, Phases
  <2>2. /\ blocking \in BOOLEAN /\ autorun \in BOOLEAN /\ timeout \in BOOLEAN
        /\ loaded \in BOOLEAN /\ early \in BOOLEAN
    BY Zenon DEF Init
  <2>3. semaphore \in Nat /\ startTimers \in Nat /\ registered \in Nat /\ pending = {}
    BY DEF Init
  <2>4. queue \in Seq(Jobs) /\ stack \in Seq(Frames) /\ order \in Seq(All)
    BY DEF Init
  <2> QED
    BY <2>1, <2>2, <2>3, <2>4 DEF Init, RunnerTypes
<1>2. QueueInv
  <2>1. Unwinds(stack, << >>, depth) /\ queue \o << >> = << >> /\ << >> \in Seq(Jobs) /\ DOMAIN << >> = {}
    BY UnwindEmpty DEF Init
  <2>2. \A t \in All : Agrees(<< >>, t, phase[t])
    BY DEF Init, Agrees, Due
  <2>3. ListOk(<< >>, phase, autorun, loaded, failedBefore)
    BY <2>1, <2>2 DEF ListOk, Ordered, FreshLast, Adjacent, Due
  <2> QED
    BY <2>1, <2>3 DEF QueueInv
<1>3. StackOk(stack, autorun)
  BY StackEmpty DEF Init
<1>4. LoadInv
  BY QUnitAssumption DEF Init, LoadInv, Plain, All
<1>5. OrderInv /\ WaitInv /\ FailedFirst
  BY DEF Init, OrderInv, WaitInv, FailedFirst
<1> QED
  BY <1>1, <1>2, <1>3, <1>4, <1>5 DEF RunnerInv

-----------------------------------------------------------------------------
(* The parts of the invariant about the queue and the stack                *)
Moved ==
  /\ queue' \in Seq(Jobs) /\ stack' \in Seq(Frames) /\ StackOk(stack', autorun')
  /\ \E r : Unwinds(stack', r, depth') /\ ListOk(queue' \o r, phase', autorun', loaded', failedBefore')

LEMMA ListWeaker ==
  ASSUME NEW w, NEW ph, NEW auto, NEW ready, NEW f, ListOk(w, ph, auto, ready, f),
         NEW auto2, NEW ready2, auto => auto2, ready => ready2
  PROVE  ListOk(w, ph, auto2, ready2, f)
BY DEF ListOk

LEMMA StackWeaker ==
  ASSUME NEW s, NEW auto, NEW auto2, auto => auto2, StackOk(s, auto)
  PROVE  StackOk(s, auto2)
BY DEF StackOk

LEMMA SynchronizeMoves == RunnerInv /\ SynchronizeStep => Moved
<1> SUFFICES ASSUME RunnerInv, SynchronizeStep PROVE Moved
  OBVIOUS
<1> DEFINE top == Head(stack)
           st == top.steps
           under == Tail(stack)
           left == [top EXCEPT !.steps = Tail(@)]
           rest == IF Len(st) = 1 THEN << >> ELSE << left >>
<1>1. /\ stack # << >> /\ top.op = "synchronize" /\ stack \in Seq(Frames) /\ queue \in Seq(Jobs)
      /\ queue' = Append(queue, Head(st))
      /\ IF processesNow THEN stack' = (<< Process(top.last) >> \o rest) \o under /\ depth' = depth + 1
         ELSE stack' = rest \o under /\ depth' = depth
      /\ phase' = phase /\ autorun' = autorun /\ loaded' = loaded /\ failedBefore' = failedBefore
      /\ StackOk(stack, autorun)
  BY DEF SynchronizeStep, Calling, Calls, RunnerInv, RunnerTypes, page
<1>2. PICK r : Unwinds(stack, r, depth) /\ ListOk(queue \o r, phase, autorun, loaded, failedBefore)
  BY DEF RunnerInv, QueueInv
<1>3. /\ top \in Frames /\ under \in Seq(Frames) /\ StackOk(under, autorun)
      /\ top.last => under = << >> /\ Len(st) = 1
  BY <1>1, StackPop
<1>4. PICK q \in Seq(Jobs), e \in Nat : Unwinds(under, q, e) /\ r = StepsOf(top) \o q /\ depth = e + Loops(top)
  <2>1. stack \in Seq(Frames) /\ stack # << >> /\ Unwinds(stack, r, depth)
    BY <1>1, <1>2
  <2>2. \E q \in Seq(Jobs), e \in Nat :
          Unwinds(Tail(stack), q, e) /\ r = StepsOf(Head(stack)) \o q /\ depth = e + Loops(Head(stack))
    BY <2>1, UnwindPop
  <2> QED
    BY <2>2
<1>5. st \in Seq(Jobs) /\ st # << >> /\ r = st \o q /\ depth = e /\ top.last \in BOOLEAN
  BY SMTT(30), <1>1, <1>3, <1>4, FrameFacts DEF StepsOf, Loops
<1>6. /\ queue' \in Seq(Jobs) /\ Tail(st) \in Seq(Jobs)
      /\ queue' \o (Tail(st) \o q) = queue \o r
      /\ Len(st) = 1 => queue' \o q = queue \o r
      /\ Len(st) # 1 => Tail(st) # << >>
  BY <1>1, <1>5, MoveJob
<1>7. Len(st) # 1 => left \in Frames /\ left.op = "synchronize" /\ left.last = FALSE
                     /\ StepsOf(left) = Tail(st) /\ Loops(left) = 0
  BY <1>1, <1>3, <1>5, <1>6 DEF Frames, StepsOf, Loops
<1> DEFINE v == rest \o under
           x == IF Len(st) = 1 THEN q ELSE Tail(st) \o q
<1> HIDE DEF top, st, under, left
<1>8. v \in Seq(Frames) /\ StackOk(v, autorun) /\ Unwinds(v, x, e)
  <2>1. CASE Len(st) = 1
    <3>1. v = under /\ x = q
      BY <2>1, <1>3
    <3> QED
      BY <3>1, <1>3, <1>4
  <2>2. CASE Len(st) # 1
    <3>1. v = << left >> \o under /\ x = Tail(st) \o q
      BY <2>2
    <3>2. << left >> \o under \in Seq(Frames) /\ StackOk(<< left >> \o under, autorun)
      BY <1>3, <1>7, <2>2, StackPush
    <3>3. Unwinds(<< left >> \o under, StepsOf(left) \o q, e + Loops(left))
      BY <1>3, <1>4, <1>7, <2>2, UnwindPush
    <3>4. e + Loops(left) = e
      BY <1>7, <2>2
    <3> QED
      BY <3>1, <3>2, <3>3, <3>4, <1>7, <2>2
  <2> QED
    BY <2>1, <2>2
<1>9. queue' \o x = queue \o r /\ x \in Seq(Jobs)
  <2>1. CASE Len(st) = 1
    BY <1>4, <1>6, <2>1
  <2>2. CASE Len(st) # 1
    <3>1. x = Tail(st) \o q /\ Tail(st) \o q \in Seq(Jobs)
      BY <1>4, <1>6, <2>2
    <3> QED
      BY <1>6, <3>1
  <2> QED
    BY <2>1, <2>2
<1>10. top.last => v = << >>
  BY <1>3
<1>11. CASE ~processesNow
  <2>1. stack' = v /\ depth' = e
    BY <1>1, <1>5, <1>11
  <2> QED
    BY <1>1, <1>2, <1>6, <1>8, <1>9, <2>1 DEF Moved
<1>12. CASE processesNow
  <2>1. autorun
    BY <1>12 DEF processesNow
  <2> DEFINE p == Process(top.last)
  <2>2. p \in Frames /\ p.op = "process" /\ p.last = top.last /\ StepsOf(p) = << >> /\ Loops(p) = 1
    BY <1>5, ProcessFrame
  <2> HIDE DEF p
  <2>3. << p >> \o v \in Seq(Frames) /\ StackOk(<< p >> \o v, autorun)
    BY <1>8, <1>10, <2>1, <2>2, StackPush
  <2>4. Unwinds(<< p >> \o v, StepsOf(p) \o x, e + Loops(p))
    BY <1>8, <2>2, UnwindPush
  <2>5. StepsOf(p) \o x = x /\ e + Loops(p) = e + 1
    BY <1>9, <2>2, ConcatEmptySeq
  <2>6. stack' = << p >> \o v /\ depth' = e + 1
    <3>1. stack' = (<< p >> \o rest) \o under /\ depth' = e + 1
      BY <1>1, <1>5, <1>12 DEF p
    <3>2. rest \in Seq(Frames) /\ << p >> \in Seq(Frames)
      BY <1>7, <2>2
    <3> HIDE DEF rest
    <3>3. (<< p >> \o rest) \o under = << p >> \o (rest \o under)
      BY <1>3, <3>2, ConcatAssociative
    <3> QED
      BY <3>1, <3>3
  <2> HIDE DEF v, x
  <2> QED
    BY <1>1, <1>2, <1>6, <1>9, <2>3, <2>4, <2>5, <2>6 DEF Moved
<1> QED
  BY <1>11, <1>12

LEMMA PopMoves ==
  ASSUME RunnerInv, Calling("process"), depth' = depth - 1, Calls(<< >>), queue' = queue,
         phase' = phase, loaded' = loaded, failedBefore' = failedBefore, autorun => autorun'
  PROVE  Moved
<1> DEFINE top == Head(stack)
           under == Tail(stack)
<1>1. stack # << >> /\ top.op = "process" /\ stack \in Seq(Frames) /\ queue \in Seq(Jobs)
      /\ StackOk(stack, autorun)
  BY DEF Calling, RunnerInv, RunnerTypes
<1>2. PICK r : Unwinds(stack, r, depth) /\ ListOk(queue \o r, phase, autorun, loaded, failedBefore)
  BY DEF RunnerInv, QueueInv
<1>3. /\ top \in Frames /\ under \in Seq(Frames) /\ StackOk(under, autorun)
  BY <1>1, StackPop
<1>4. PICK q \in Seq(Jobs), e \in Nat : Unwinds(under, q, e) /\ r = StepsOf(top) \o q /\ depth = e + Loops(top)
  <2>1. stack \in Seq(Frames) /\ stack # << >> /\ Unwinds(stack, r, depth)
    BY <1>1, <1>2
  <2>2. \E q \in Seq(Jobs), e \in Nat :
          Unwinds(Tail(stack), q, e) /\ r = StepsOf(Head(stack)) \o q /\ depth = e + Loops(Head(stack))
    BY <2>1, UnwindPop
  <2> QED
    BY <2>2
<1>5. r = q /\ depth' = e
  <2>1. StepsOf(top) = << >> /\ Loops(top) = 1
    BY <1>1 DEF StepsOf, Loops
  <2> QED
    BY <1>4, <2>1, ConcatEmptySeq
<1>6. stack' = under
  BY <1>3, ConcatEmptySeq DEF Calls
<1>7. ListOk(queue' \o q, phase', autorun', loaded', failedBefore') /\ StackOk(under, autorun')
  BY <1>2, <1>3, <1>5, ListWeaker, StackWeaker
<1> QED
  BY <1>1, <1>3, <1>4, <1>5, <1>6, <1>7 DEF Moved

(* A loop is started when no code runs                                     *)
LEMMA LoopMoves ==
  ASSUME RunnerInv, stack = << >>, NEW last \in BOOLEAN, stack' = << Process(last) >>, depth' = depth + 1,
         queue' = queue, phase' = phase, loaded' = loaded, failedBefore' = failedBefore, autorun' = autorun
  PROVE  Moved
<1>1. PICK r : Unwinds(<< >>, r, depth) /\ ListOk(queue \o r, phase, autorun, loaded, failedBefore)
  BY DEF RunnerInv, QueueInv
<1>2. r = << >> /\ depth = 0 /\ r \in Seq(Jobs)
  <2>1. r = << >> /\ depth = 0
    BY <1>1, UnwindEmpty, Zenon
  <2> QED
    BY <2>1
<1> DEFINE p == Process(last)
<1>3. p \in Frames /\ p.op = "process" /\ p.last = last /\ StepsOf(p) = << >> /\ Loops(p) = 1
  BY ProcessFrame
<1> HIDE DEF p
<1>4. << >> \in Seq(Frames) /\ StackOk(<< >>, autorun)
  BY StackEmpty
<1>5. << p >> \o << >> \in Seq(Frames) /\ StackOk(<< p >> \o << >>, autorun)
  BY <1>3, <1>4, StackPush
<1>6. Unwinds(<< p >> \o << >>, StepsOf(p) \o << >>, 0 + Loops(p))
  BY <1>3, <1>4, UnwindEmpty, UnwindPush
<1>7. << p >> \o << >> = stack' /\ StepsOf(p) \o << >> = r /\ 0 + Loops(p) = depth'
  <2>1. << p >> \in Seq(Frames)
    BY <1>3
  <2> QED
    BY <1>2, <1>3, <2>1, ConcatEmptySeq DEF p
<1> QED
  BY <1>1, <1>5, <1>6, <1>7 DEF Moved, RunnerInv, RunnerTypes

(* Nothing moves                                                           *)
LEMMA StillMoves ==
  ASSUME RunnerInv, UNCHANGED << stack, depth, queue, phase, failedBefore, autorun >>, loaded => loaded'
  PROVE  Moved
<1>1. PICK r : Unwinds(stack, r, depth) /\ ListOk(queue \o r, phase, autorun, loaded, failedBefore)
  BY DEF RunnerInv, QueueInv
<1>2. ListOk(queue \o r, phase, autorun, loaded', failedBefore)
  BY <1>1, ListWeaker
<1> QED
  BY <1>1, <1>2 DEF Moved, RunnerInv, RunnerTypes

-----------------------------------------------------------------------------
LEMMA TakeMoves ==
  ASSUME RunnerInv, queue # << >>, queue' = Tail(queue), Head(queue)[1] # "later",
         phase' = IF Head(queue)[1] = "init" THEN phase
                  ELSE [phase EXCEPT ![Head(queue)[2]] = AfterStep(Head(queue)[1])],
         UNCHANGED << stack, depth, autorun, loaded, failedBefore >>
  PROVE  /\ Moved /\ phase' \in [All -> Phases] /\ Head(queue)[2] \in All
         /\ Head(queue)[1] # "init" => phase[Head(queue)[2]] = BeforeStep(Head(queue)[1])
         /\ Fresh(Head(queue), failedBefore) =>
              \A u \in Plain \cap failedBefore : phase[u] \notin {"queued", "setup", "run", "teardown"}
<1>1. PICK r : Unwinds(stack, r, depth) /\ ListOk(queue \o r, phase, autorun, loaded, failedBefore)
  BY DEF RunnerInv, QueueInv
<1>2. queue \in Seq(Jobs) /\ stack \in Seq(Frames) /\ phase \in [All -> Phases] /\ StackOk(stack, autorun)
  BY DEF RunnerInv, RunnerTypes
<1>3. r \in Seq(Jobs)
  BY <1>1, <1>2, UnwindTypes
<1> DEFINE w == queue \o r
<1>4. w # << >> /\ Head(w) = Head(queue) /\ Tail(w) = queue' \o r /\ queue' \in Seq(Jobs)
  BY <1>2, <1>3
<1> HIDE DEF w
<1>5. ListOk(w, phase, autorun, loaded, failedBefore) /\ phase' = IF Head(w)[1] = "init" THEN phase
        ELSE [phase EXCEPT ![Head(w)[2]] = AfterStep(Head(w)[1])]
  BY <1>1, <1>4 DEF w
<1>6. /\ ListOk(Tail(w), phase', autorun, loaded, failedBefore) /\ phase' \in [All -> Phases]
      /\ Head(w)[2] \in All
      /\ Head(w)[1] # "init" => phase[Head(w)[2]] = BeforeStep(Head(w)[1])
      /\ Fresh(Head(w), failedBefore) =>
           \A u \in Plain \cap failedBefore : phase[u] \notin {"queued", "setup", "run", "teardown"}
  BY <1>2, <1>4, <1>5, ListTake
<1>7. Moved
  BY <1>1, <1>2, <1>4, <1>6 DEF Moved
<1> QED
  BY <1>4, <1>6, <1>7

LEMMA LaterMoves == RunnerInv /\ LaterStep => Moved
<1> SUFFICES ASSUME RunnerInv, LaterStep PROVE Moved
  OBVIOUS
<1>1. PICK r : Unwinds(stack, r, depth) /\ ListOk(queue \o r, phase, autorun, loaded, failedBefore)
  BY DEF RunnerInv, QueueInv
<1>2. queue \in Seq(Jobs) /\ stack \in Seq(Frames) /\ StackOk(stack, autorun)
  BY DEF RunnerInv, RunnerTypes
<1>3. r \in Seq(Jobs) /\ depth \in Nat
  BY <1>1, <1>2, UnwindTypes
<1>4. /\ stack # << >> /\ Head(stack).op = "process" /\ queue # << >> /\ Head(queue)[1] = "later"
      /\ queue' = Tail(queue) /\ stack' = << Synchronize(Steps(Head(queue)[2]), FALSE) >> \o stack
      /\ UNCHANGED << depth, phase, autorun, loaded, failedBefore >> /\ ~blocking
  BY DEF LaterStep, Taking, Calling, page
<1>5. loaded = TRUE
  BY <1>4 DEF RunnerInv, LoadInv, RunnerTypes
<1>6. ~autorun => r = << >>
  <2> SUFFICES ASSUME ~autorun PROVE r = << >>
    OBVIOUS
  <2>1. Tail(stack) = << >>
    BY <1>2, <1>4, StackPop
  <2>2. PICK q \in Seq(Jobs), e \in Nat :
          Unwinds(Tail(stack), q, e) /\ r = StepsOf(Head(stack)) \o q /\ depth = e + Loops(Head(stack))
    <3>1. stack \in Seq(Frames) /\ stack # << >> /\ Unwinds(stack, r, depth)
      BY <1>1, <1>2, <1>4
    <3> QED
      BY <3>1, UnwindPop
  <2>3. q = << >>
    <3>1. Unwinds(<< >>, q, e)
      BY <2>1, <2>2
    <3> QED
      BY <3>1, UnwindEmpty, Zenon
  <2>4. StepsOf(Head(stack)) = << >>
    BY <1>4 DEF StepsOf
  <2> QED
    BY <2>2, <2>3, <2>4, ConcatEmptySeq
<1>7. autorun => \A t \in Plain : phase[t] \in {"skipped", "finished"}
  BY DEF RunnerInv, LoadInv
<1> DEFINE t == Head(queue)[2]
<1>8. t \in All /\ ListOk(Tail(queue) \o (Steps(t) \o r), phase, autorun, TRUE, failedBefore)
  BY <1>1, <1>2, <1>3, <1>4, <1>5, <1>6, <1>7, ListLater
<1>9. Steps(t) \in Seq(Jobs) /\ Steps(t) # << >>
  BY <1>8, StepsFacts
<1> DEFINE f == Synchronize(Steps(t), FALSE)
<1>10. f \in Frames /\ f.op = "synchronize" /\ f.last = FALSE /\ StepsOf(f) = Steps(t) /\ Loops(f) = 0
  BY <1>9, SynchronizeFrame
<1> HIDE DEF f
<1>11. << f >> \o stack \in Seq(Frames) /\ StackOk(<< f >> \o stack, autorun)
  BY <1>2, <1>10, StackPush
<1>12. Unwinds(<< f >> \o stack, StepsOf(f) \o r, depth + Loops(f))
  BY <1>1, <1>2, <1>10, UnwindPush
<1>13. depth + Loops(f) = depth'
  BY <1>3, <1>4, <1>10
<1>14. queue' \in Seq(Jobs)
  BY <1>2, <1>4
<1>15. stack' = << f >> \o stack
  BY <1>4 DEF f
<1>16. ListOk(queue' \o (StepsOf(f) \o r), phase', autorun', loaded', failedBefore')
  BY <1>4, <1>5, <1>8, <1>10
<1> QED
  BY <1>4, <1>11, <1>12, <1>13, <1>14, <1>15, <1>16 DEF Moved

LEMMA PairCat == ASSUME NEW a, NEW b PROVE << a >> \o << b >> = << a, b >>
<1> DEFINE x == << a >> \o << b >>
           y == << a, b >>
<1>1. x \in Seq({a, b}) /\ Len(x) = 2 /\ x[1] = a /\ x[2] = b
  OBVIOUS
<1>2. y \in Seq({a, b}) /\ Len(y) = 2 /\ y[1] = a /\ y[2] = b
  OBVIOUS
<1> HIDE DEF x, y
<1>3. \A i \in 1 .. 2 : i = 1 \/ i = 2
  OBVIOUS
<1>4. x = y
  BY <1>1, <1>2, <1>3, SeqEqual
<1> QED
  BY <1>4 DEF x, y

LEMMA QueueTestMoves ==
  ASSUME RunnerInv, stack = << >>, NEW t \in All, phase[t] = "new", t \in Plain => ~loaded,
         stack' = queueTest(t), phase' = [phase EXCEPT ![t] = "queued"],
         UNCHANGED << queue, depth, autorun, loaded, failedBefore >>
  PROVE  Moved /\ phase' \in [All -> Phases]
<1>1. PICK r : Unwinds(<< >>, r, depth) /\ ListOk(queue \o r, phase, autorun, loaded, failedBefore)
  BY DEF RunnerInv, QueueInv
<1>2. r = << >> /\ depth = 0
  BY <1>1, UnwindEmpty, Zenon
<1>3. queue \in Seq(Jobs) /\ phase \in [All -> Phases]
  BY DEF RunnerInv, RunnerTypes
<1>4. ListOk(queue, phase, autorun, loaded, failedBefore)
  BY <1>1, <1>2, <1>3, ConcatEmptySeq
<1> DEFINE gone == {storage[i] : i \in DOMAIN storage}
           now == t \in gone
           i1 == << << "init", t >> >>
           c == IF now THEN Steps(t) ELSE << << "later", t >> >>
           f == Synchronize(i1, FALSE)
           g == IF now THEN Synchronize(Steps(t), FALSE) ELSE Synchronize(<< << "later", t >> >>, TRUE)
<1>5. t \in Plain => (now <=> t \in failedBefore)
  BY DEF RunnerInv, LoadInv
<1>6. /\ ListOk(queue \o Added(t, gone), phase', autorun, loaded, failedBefore)
      /\ phase' \in [All -> Phases]
  <2> HIDE DEF gone
  <2>1. t \in Plain => (t \in gone <=> t \in failedBefore) /\ \A i \in DOMAIN queue : ~Fresh(queue[i], failedBefore)
    BY <1>4, <1>5 DEF ListOk
  <2>2. /\ ListOk(queue \o Added(t, gone), [phase EXCEPT ![t] = "queued"], autorun, loaded, failedBefore)
        /\ [phase EXCEPT ![t] = "queued"] \in [All -> Phases]
    BY <1>3, <1>4, <2>1, ListAppend
  <2> QED
    BY <2>2
<1>7. stack' = << f, g >> /\ Added(t, gone) = i1 \o c
  BY DEF queueTest, Added
<1>8. i1 \in Seq(Jobs) /\ i1 # << >>
  BY DEF Jobs
<1>9. Steps(t) \in Seq(Jobs) /\ Steps(t) # << >>
  BY StepsFacts
<1>10. << << "later", t >> >> \in Seq(Jobs) /\ << << "later", t >> >> # << >> /\ Len(<< << "later", t >> >>) = 1
  BY DEF Jobs
<1>11. f \in Frames /\ f.op = "synchronize" /\ f.last = FALSE /\ StepsOf(f) = i1 /\ Loops(f) = 0
  <2> HIDE DEF i1
  <2> QED
    BY <1>8, SynchronizeFrame
<1>12. g \in Frames /\ g.op = "synchronize" /\ StepsOf(g) = c /\ Loops(g) = 0 /\ (g.last => Len(g.steps) = 1)
  <2>1. CASE now
    <3>1. g = Synchronize(Steps(t), FALSE) /\ c = Steps(t)
      BY <2>1
    <3> QED
      BY <1>9, <3>1, SynchronizeFrame
  <2>2. CASE ~now
    <3> DEFINE l == << << "later", t >> >>
    <3>1. g = Synchronize(l, TRUE) /\ c = l
      BY <2>2
    <3> HIDE DEF l, g, c
    <3>2. l \in Seq(Jobs) /\ l # << >> /\ Len(l) = 1
      BY <1>10 DEF l
    <3> QED
      BY <3>1, <3>2, SynchronizeFrame
  <2> QED
    BY <2>1, <2>2
<1>13. i1 \o c \in Seq(Jobs) /\ c \in Seq(Jobs)
  BY <1>8, <1>9, <1>10
<1> HIDE DEF f, g, c, i1, now, gone
<1>14. << >> \in Seq(Frames) /\ StackOk(<< >>, autorun)
  BY StackEmpty
<1> DEFINE s1 == << g >> \o << >>
<1>15. s1 \in Seq(Frames) /\ StackOk(s1, autorun)
  BY <1>12, <1>14, StackPush
<1>16. Unwinds(s1, StepsOf(g) \o << >>, 0 + Loops(g))
  BY <1>12, <1>14, UnwindEmpty, UnwindPush
<1>17. StepsOf(g) \o << >> = c /\ 0 + Loops(g) = 0
  BY <1>12, <1>13, ConcatEmptySeq
<1> HIDE DEF s1
<1>18. << f >> \o s1 \in Seq(Frames) /\ StackOk(<< f >> \o s1, autorun)
  BY <1>11, <1>15, StackPush
<1>19. Unwinds(s1, c, 0)
  BY <1>16, <1>17
<1>20. Unwinds(<< f >> \o s1, StepsOf(f) \o c, 0 + Loops(f))
  BY <1>11, <1>15, <1>19, UnwindPush
<1>21. StepsOf(f) = i1 /\ 0 + Loops(f) = depth'
  BY <1>2, <1>11
<1>22. << f >> \o s1 = stack'
  <2>1. << f >> \in Seq(Frames) /\ << g >> \in Seq(Frames)
    BY <1>11, <1>12
  <2>2. s1 = << g >>
    BY <2>1, ConcatEmptySeq DEF s1
  <2>3. << f >> \o << g >> = << f, g >>
    BY PairCat
  <2> QED
    BY <1>7, <2>2, <2>3
<1> QED
  BY <1>3, <1>6, <1>7, <1>18, <1>20, <1>21, <1>22 DEF Moved

-----------------------------------------------------------------------------
(* The rest of the invariant                                               *)
Rest ==
  /\ phase \in [All -> Phases] /\ registered \in Nat
  /\ semaphore \in Nat /\ startTimers \in Nat
  /\ blocking \in BOOLEAN /\ autorun \in BOOLEAN /\ timeout \in BOOLEAN
  /\ loaded \in BOOLEAN /\ early \in BOOLEAN
  /\ current \in All \cup {NONE} /\ order \in Seq(All)
  /\ \A c \in pending : c[1] \in Tests /\ c[2] \in DOMAIN Body[c[1]].later
  /\ LoadInv /\ OrderInv /\ WaitInv /\ FailedFirst

LEMMA MovedAndRest ==
  /\ Moved /\ Rest' => RunnerInv'
  /\ RunnerInv => Rest
BY DEF Moved, Rest, RunnerInv, RunnerTypes, QueueInv

LEMMA RestStays ==
  ASSUME Rest,
         UNCHANGED << phase, registered, semaphore, startTimers, blocking, autorun, timeout, loaded,
                      early, current, order, pending, storage, failedBefore >>
  PROVE  Rest'
BY DEF Rest, LoadInv, OrderInv, WaitInv, FailedFirst

LEMMA QuietKeeps ==
  RunnerInv /\ (SynchronizeStep \/ Yield \/ (\E last \in BOOLEAN : NextTimer(last)) \/ InitStep \/ LaterStep)
    => RunnerInv'
<1> SUFFICES ASSUME RunnerInv PROVE
      SynchronizeStep \/ Yield \/ (\E last \in BOOLEAN : NextTimer(last)) \/ InitStep \/ LaterStep => RunnerInv'
  OBVIOUS
<1>0. Rest
  BY MovedAndRest
<1>1. CASE SynchronizeStep
  <2>1. Rest'
    BY <1>0, <1>1, RestStays DEF SynchronizeStep, timers, results, window, page
  <2> QED
    BY <1>1, <2>1, SynchronizeMoves, MovedAndRest
<1>2. CASE Yield
  <2>1. Rest'
    BY <1>0, <1>2, RestStays DEF Yield, results, window
  <2>2. Moved
    BY <1>2, PopMoves DEF Yield
  <2> QED
    BY <2>1, <2>2, MovedAndRest
<1>3. ASSUME NEW last \in BOOLEAN, NextTimer(last) PROVE RunnerInv'
  <2>1. Rest'
    BY <1>0, <1>3, RestStays DEF NextTimer, results, window, page
  <2>2. Moved
    BY <1>3, LoopMoves DEF NextTimer, page
  <2> QED
    BY <2>1, <2>2, MovedAndRest
<1>4. CASE InitStep
  <2>1. Rest'
    BY <1>0, <1>4, RestStays DEF InitStep, timers, results, window, page
  <2>2. Moved
    BY <1>4, TakeMoves DEF InitStep, Taking, page
  <2> QED
    BY <2>1, <2>2, MovedAndRest
<1>5. CASE LaterStep
  <2>1. Rest'
    BY <1>0, <1>5, RestStays DEF LaterStep, timers, results, window, page
  <2> QED
    BY <1>5, <2>1, LaterMoves, MovedAndRest
<1> QED
  BY <1>1, <1>2, <1>3, <1>4, <1>5

(* The outermost loop ends and the queue is empty: no test is under way    *)
LEMMA AllThrough ==
  ASSUME RunnerInv, Calling("process"), queue = << >>, Head(stack).last
  PROVE  \A t \in All : phase[t] \in {"new", "skipped", "finished"}
<1>1. stack # << >> /\ Head(stack).op = "process" /\ stack \in Seq(Frames) /\ StackOk(stack, autorun)
  BY DEF Calling, RunnerInv, RunnerTypes
<1>2. PICK r : Unwinds(stack, r, depth) /\ ListOk(queue \o r, phase, autorun, loaded, failedBefore)
  BY DEF RunnerInv, QueueInv
<1>3. Tail(stack) = << >>
  BY <1>1, StackPop
<1>4. PICK q \in Seq(Jobs), e \in Nat :
        Unwinds(Tail(stack), q, e) /\ r = StepsOf(Head(stack)) \o q /\ depth = e + Loops(Head(stack))
  <2>1. stack \in Seq(Frames) /\ stack # << >> /\ Unwinds(stack, r, depth)
    BY <1>1, <1>2
  <2> QED
    BY <2>1, UnwindPop
<1>5. r = << >>
  <2>1. Unwinds(<< >>, q, e)
    BY <1>3, <1>4
  <2>2. q = << >>
    BY <2>1, UnwindEmpty, Zenon
  <2>3. StepsOf(Head(stack)) = << >>
    BY <1>1 DEF StepsOf
  <2> QED
    BY <1>4, <2>2, <2>3, ConcatEmptySeq
<1>6. queue \o r = << >> /\ << >> \in Seq(Jobs) /\ DOMAIN << >> = {}
  BY <1>5
<1>7. ASSUME NEW t \in All PROVE phase[t] \in {"new", "skipped", "finished"}
  <2>1. Agrees(<< >>, t, phase[t])
    BY <1>2, <1>6 DEF ListOk
  <2>2. phase[t] \notin {"queued", "setup", "run", "teardown"}
    BY <1>6, <2>1, NothingDue
  <2>3. phase[t] \in Phases
    BY DEF RunnerInv, RunnerTypes
  <2> QED
    BY <2>2, <2>3 DEF Phases
<1> QED
  BY <1>7

LEMMA ProcessEndsKeeps == RunnerInv /\ ProcessEnds => RunnerInv'
<1> SUFFICES ASSUME RunnerInv, ProcessEnds PROVE RunnerInv'
  OBVIOUS
<1>0. Rest
  BY MovedAndRest
<1>1. /\ Calling("process") /\ depth' = depth - 1 /\ Calls(<< >>) /\ queue' = queue
      /\ UNCHANGED << phase, registered, semaphore, startTimers, blocking, timeout, loaded,
                      early, current, order, pending, failedBefore >>
      /\ IF ReportsDone(Head(stack).last) THEN done ELSE UNCHANGED << autorun, doneCalls, storage >>
  BY DEF ProcessEnds, timers, window
<1>2. CASE ~ReportsDone(Head(stack).last)
  <2>1. UNCHANGED << autorun, storage >>
    BY <1>1, <1>2
  <2>2. Rest'
    BY <1>0, <1>1, <2>1, RestStays
  <2>3. Moved
    BY <1>1, <2>1, PopMoves
  <2> QED
    BY <2>2, <2>3, MovedAndRest
<1>3. CASE ReportsDone(Head(stack).last)
  <2>0. done => autorun' = TRUE
    BY Zenon DEF done
  <2>1. autorun' = TRUE /\ ~blocking /\ queue = << >> /\ Head(stack).last
    BY <1>1, <1>3, <2>0 DEF ReportsDone
  <2>2. \A t \in All : phase[t] \in {"new", "skipped", "finished"}
    BY <1>1, <2>1, AllThrough
  <2>3. loaded
    BY <1>0, <2>1 DEF Rest, LoadInv
  <2>4. LoadInv'
    <3>1. \A t \in Plain : phase[t] \in {"skipped", "finished"}
      BY <1>0, <2>2, <2>3 DEF Rest, LoadInv, Plain, All
    <3> QED
      BY <1>0, <1>1, <2>3, <3>1 DEF Rest, LoadInv
  <2>5. Rest'
    BY <1>0, <1>1, <2>1, <2>4 DEF Rest, OrderInv, WaitInv, FailedFirst
  <2>6. Moved
    BY <1>1, <2>1, PopMoves
  <2> QED
    BY <2>5, <2>6, MovedAndRest
<1> QED
  BY <1>2, <1>3

-----------------------------------------------------------------------------
(* What a step of a test does to its phase                                 *)
LEMMA StepTaken ==
  ASSUME RunnerInv, NEW s \in Four, Taking(s),
         phase' = [phase EXCEPT ![Head(queue)[2]] = AfterStep(s)],
         UNCHANGED << stack, depth, autorun, loaded, failedBefore >>
  PROVE  /\ Moved /\ Head(queue)[2] \in All /\ phase' \in [All -> Phases]
         /\ phase[Head(queue)[2]] = BeforeStep(s) /\ phase'[Head(queue)[2]] = AfterStep(s)
         /\ \A u \in All : u # Head(queue)[2] => phase'[u] = phase[u]
         /\ loaded /\ ~timeout /\ ~blocking
         /\ Head(queue)[2] \in Plain \ failedBefore =>
              \A u \in Plain \cap failedBefore : phase[u] \in {"skipped", "finished"}
<1> DEFINE t == Head(queue)[2]
<1>1. queue # << >> /\ queue' = Tail(queue) /\ Head(queue)[1] = s /\ ~blocking /\ s # "init" /\ s # "later"
  BY DEF Taking, Four
<1>2. Rest
  BY MovedAndRest
<1>3. loaded /\ ~timeout
  BY <1>1, <1>2 DEF Rest, LoadInv, WaitInv
<1>4. /\ Moved /\ phase' \in [All -> Phases] /\ t \in All
      /\ phase[t] = BeforeStep(s)
      /\ Fresh(Head(queue), failedBefore) =>
           \A u \in Plain \cap failedBefore : phase[u] \notin {"queued", "setup", "run", "teardown"}
  BY <1>1, TakeMoves
<1>5. t \in Plain \ failedBefore => Fresh(Head(queue), failedBefore)
  BY <1>1 DEF Fresh
<1>6. \A u \in Plain : phase[u] \in Phases /\ phase[u] # "new"
  BY <1>2, <1>3 DEF Rest, LoadInv, Plain, All
<1>7. phase \in [All -> Phases]
  BY <1>2 DEF Rest
<1>8. t \in Plain \ failedBefore => \A u \in Plain \cap failedBefore : phase[u] \in {"skipped", "finished"}
  BY <1>4, <1>5, <1>6 DEF Phases
<1> QED
  BY <1>1, <1>3, <1>4, <1>7, <1>8

LEMMA StepFollows ==
  ASSUME RunnerInv, NEW s \in Four, NEW t \in All, phase' \in [All -> Phases],
         phase[t] = BeforeStep(s), phase'[t] = AfterStep(s),
         \A u \in All : u # t => phase'[u] = phase[u],
         loaded, UNCHANGED << autorun, loaded, failedBefore, registered >>
  PROVE  /\ LoadInv'
         /\ order' = order => OrderInv' /\ FailedFirst'
         /\ \A u \in All : phase[u] \in {"skipped", "finished"} => phase'[u] \in {"skipped", "finished"}
<1>1. Rest
  BY MovedAndRest
<1>2. phase[t] \in {"queued", "setup", "run", "teardown"} /\ phase'[t] \in {"setup", "run", "teardown", "finished"}
  BY DEF Four, BeforeStep, AfterStep
<1>3. \A u \in All : /\ phase[u] \in {"skipped", "finished"} => phase'[u] \in {"skipped", "finished"}
                     /\ phase[u] = "new" <=> phase'[u] = "new"
  BY <1>2
<1>4. Tests \subseteq All /\ Plain \subseteq All
  BY DEF All, Plain
<1>5. LoadInv'
  BY <1>1, <1>3, <1>4 DEF Rest, LoadInv
<1>6. order' = order => OrderInv' /\ FailedFirst'
  BY <1>1, <1>3, <1>4 DEF Rest, OrderInv, FailedFirst
<1> QED
  BY <1>3, <1>5, <1>6

LEMMA SetupKeeps == RunnerInv /\ SetupStep => RunnerInv'
<1> SUFFICES ASSUME RunnerInv, SetupStep PROVE RunnerInv'
  OBVIOUS
<1> DEFINE t == Head(queue)[2]
<1>1. /\ Taking("setup") /\ current' = t /\ phase' = [phase EXCEPT ![t] = "setup"]
      /\ UNCHANGED << stack, depth, autorun, loaded, failedBefore, registered, semaphore, startTimers,
                      blocking, timeout, early, order, pending >>
  BY DEF SetupStep, timers, page
<1>2. "setup" \in Four /\ AfterStep("setup") = "setup"
  BY DEF Four, AfterStep
<1>3. /\ Moved /\ t \in All /\ phase' \in [All -> Phases]
      /\ phase[t] = BeforeStep("setup") /\ phase'[t] = "setup"
      /\ \A u \in All : u # t => phase'[u] = phase[u]
      /\ loaded /\ ~timeout /\ ~blocking
  BY <1>1, <1>2, StepTaken
<1>4. LoadInv' /\ OrderInv' /\ FailedFirst'
  BY <1>1, <1>2, <1>3, StepFollows
<1>5. WaitInv'
  BY <1>1, <1>3 DEF WaitInv, Active
<1>6. Rest'
  BY <1>1, <1>3, <1>4, <1>5, MovedAndRest DEF Rest
<1> QED
  BY <1>3, <1>6, MovedAndRest

LEMMA TeardownKeeps == RunnerInv /\ TeardownStep => RunnerInv'
<1> SUFFICES ASSUME RunnerInv, TeardownStep PROVE RunnerInv'
  OBVIOUS
<1> DEFINE t == Head(queue)[2]
<1>1. /\ Taking("teardown") /\ current' = t /\ phase' = [phase EXCEPT ![t] = "teardown"]
      /\ UNCHANGED << stack, depth, autorun, loaded, failedBefore, registered, semaphore, startTimers,
                      blocking, timeout, early, order, pending >>
  BY DEF TeardownStep, timers, page
<1>2. "teardown" \in Four /\ AfterStep("teardown") = "teardown"
  BY DEF Four, AfterStep
<1>3. /\ Moved /\ t \in All /\ phase' \in [All -> Phases]
      /\ phase[t] = BeforeStep("teardown") /\ phase'[t] = "teardown"
      /\ \A u \in All : u # t => phase'[u] = phase[u]
      /\ loaded /\ ~timeout /\ ~blocking
  BY <1>1, <1>2, StepTaken
<1>4. LoadInv' /\ OrderInv' /\ FailedFirst'
  BY <1>1, <1>2, <1>3, StepFollows
<1>5. WaitInv'
  BY <1>1, <1>3 DEF WaitInv, Active
<1>6. Rest'
  BY <1>1, <1>3, <1>4, <1>5, MovedAndRest DEF Rest
<1> QED
  BY <1>3, <1>6, MovedAndRest

LEMMA FinishKeeps == RunnerInv /\ FinishStep => RunnerInv'
<1> SUFFICES ASSUME RunnerInv, FinishStep PROVE RunnerInv'
  OBVIOUS
<1> DEFINE t == Head(queue)[2]
<1>1. /\ Taking("finish") /\ current' = NONE /\ phase' = [phase EXCEPT ![t] = "finished"]
      /\ UNCHANGED << stack, depth, autorun, loaded, failedBefore, registered, semaphore, startTimers,
                      blocking, timeout, early, order, pending >>
  BY DEF FinishStep, timers, page
<1>2. "finish" \in Four /\ AfterStep("finish") = "finished"
  BY DEF Four, AfterStep
<1>3. /\ Moved /\ t \in All /\ phase' \in [All -> Phases]
      /\ phase[t] = BeforeStep("finish") /\ phase'[t] = "finished"
      /\ \A u \in All : u # t => phase'[u] = phase[u]
      /\ loaded /\ ~timeout /\ ~blocking
  BY <1>1, <1>2, StepTaken
<1>4. LoadInv' /\ OrderInv' /\ FailedFirst'
  BY <1>1, <1>2, <1>3, StepFollows
<1>5. WaitInv'
  BY <1>1, <1>3 DEF WaitInv, Active
<1>6. Rest'
  BY <1>1, <1>3, <1>4, <1>5, MovedAndRest DEF Rest
<1> QED
  BY <1>3, <1>6, MovedAndRest

LEMMA StartedFacts ==
  ASSUME NEW s \in Nat, NEW n \in Nat
  PROVE  started(s, n).semaphore \in Nat /\ started(s, n).timers \in {0, 1}
BY DEF started

LEMMA BodyFacts ==
  ASSUME NEW t \in Tests
  PROVE  /\ Body[t].asserts \in Seq(BOOLEAN) /\ Body[t].stops \in Nat
         /\ Body[t].leaks \in BOOLEAN /\ Body[t].dies \in BOOLEAN
         /\ Body[t].expected \in Nat \cup {NONE}
         /\ Body[t].later \in Seq([asserts : Seq(BOOLEAN), starts : Nat])
         /\ \A k \in DOMAIN Body[t].later :
              Body[t].later[k].asserts \in Seq(BOOLEAN) /\ Body[t].later[k].starts \in Nat
<1>1. Body[t] \in Bodies
  BY QUnitAssumption
<1>2. /\ Body[t].asserts \in Seq(BOOLEAN) /\ Body[t].stops \in Nat
      /\ Body[t].leaks \in BOOLEAN /\ Body[t].dies \in BOOLEAN
      /\ Body[t].expected \in Nat \cup {NONE}
      /\ Body[t].later \in Seq([asserts : Seq(BOOLEAN), starts : Nat])
  BY <1>1 DEF Bodies
<1>3. \A k \in DOMAIN Body[t].later : Body[t].later[k] \in [asserts : Seq(BOOLEAN), starts : Nat]
  <2> DEFINE l == Body[t].later
             S == [asserts : Seq(BOOLEAN), starts : Nat]
  <2>1. l \in Seq(S)
    BY <1>2
  <2> HIDE DEF l, S
  <2>2. \A k \in DOMAIN l : l[k] \in S
    BY <2>1
  <2> QED
    BY <2>2 DEF l, S
<1> QED
  BY <1>2, <1>3

(* What a test does, or the one that reports a global failure              *)
BodyOf(t) ==
  IF t \in Spares
    THEN [asserts |-> << FALSE >>, stops |-> 0, leaks |-> FALSE, dies |-> FALSE, later |-> << >>]
    ELSE Body[t]

LEMMA BodyOfFacts ==
  ASSUME NEW t \in All
  PROVE  /\ BodyOf(t).asserts \in Seq(BOOLEAN) /\ BodyOf(t).stops \in Nat
         /\ BodyOf(t).leaks \in BOOLEAN /\ BodyOf(t).dies \in BOOLEAN
         /\ \A k \in DOMAIN BodyOf(t).later : t \in Tests /\ BodyOf(t) = Body[t]
<1>1. CASE t \in Spares
  BY <1>1 DEF BodyOf
<1>2. CASE t \notin Spares
  <2>1. t \in Tests /\ BodyOf(t) = Body[t]
    BY <1>2 DEF BodyOf, All
  <2> QED
    BY <2>1, BodyFacts
<1> QED
  BY <1>1, <1>2

LEMMA RunKeeps == RunnerInv /\ RunStep => RunnerInv'
<1> SUFFICES ASSUME RunnerInv, RunStep PROVE RunnerInv'
  OBVIOUS
<1> DEFINE t == Head(queue)[2]
           b == BodyOf(t)
           stopped == started(semaphore + b.stops, IF b.dies /\ b.stops > 0 THEN 1 ELSE 0)
<1>1. /\ Taking("run") /\ current' = t /\ phase' = [phase EXCEPT ![t] = "run"]
      /\ order' = Append(order, t)
      /\ blocking' = (b.stops > 0) /\ semaphore' = stopped.semaphore
      /\ startTimers' = startTimers + stopped.timers
      /\ timeout' = (timeout \/ timed(b.stops))
      /\ pending' = pending \cup {<< t, k >> : k \in DOMAIN b.later}
      /\ early' = (early \/ (b.dies /\ b.stops > 0))
      /\ UNCHANGED << stack, depth, autorun, loaded, failedBefore, registered >>
  BY DEF RunStep, BodyOf
<1>2. "run" \in Four /\ AfterStep("run") = "run" /\ BeforeStep("run") = "setup"
  BY DEF Four, AfterStep, BeforeStep
<1>3. /\ Moved /\ t \in All /\ phase' \in [All -> Phases]
      /\ phase[t] = BeforeStep("run") /\ phase'[t] = "run"
      /\ \A u \in All : u # t => phase'[u] = phase[u]
      /\ loaded /\ ~timeout /\ ~blocking
      /\ t \in Plain \ failedBefore => \A u \in Plain \cap failedBefore : phase[u] \in {"skipped", "finished"}
  BY <1>1, <1>2, StepTaken
<1> HIDE DEF b, t
<1>4. LoadInv' /\ \A u \in All : phase[u] \in {"skipped", "finished"} => phase'[u] \in {"skipped", "finished"}
  BY <1>1, <1>2, <1>3, StepFollows
<1>5. Rest
  BY MovedAndRest
<1>6. b.stops \in Nat /\ b.dies \in BOOLEAN /\ (\A k \in DOMAIN b.later : t \in Tests /\ b = Body[t])
  BY <1>3, BodyOfFacts DEF b
<1>7. WaitInv'
  BY <1>1, <1>3, QUnitAssumption DEF WaitInv, Active, timed
<1>8. order \in Seq(All) /\ order' \in Seq(All) /\ Len(order') = Len(order) + 1 /\ Len(order) \in Nat
      /\ order'[Len(order) + 1] = t /\ \A i \in 1 .. Len(order) : order'[i] = order[i]
  BY <1>1, <1>3, <1>5, AppendProperties DEF Rest
<1>9. DOMAIN order = 1 .. Len(order) /\ DOMAIN order' = 1 .. Len(order) + 1
  BY <1>8
<1>10. \A i \in DOMAIN order' :
         (i \in DOMAIN order /\ order'[i] = order[i]) \/ (i = Len(order) + 1 /\ order'[i] = t)
  <2> SUFFICES ASSUME NEW i \in 1 .. Len(order) + 1
               PROVE  (i \in 1 .. Len(order) /\ order'[i] = order[i]) \/ (i = Len(order) + 1 /\ order'[i] = t)
    BY <1>9
  <2>1. i \in 1 .. Len(order) \/ i = Len(order) + 1
    BY <1>8
  <2>2. CASE i \in 1 .. Len(order)
    BY <1>8, <2>2, Zenon
  <2>3. CASE i = Len(order) + 1
    BY <1>8, <2>3, Zenon
  <2> QED
    BY <2>1, <2>2, <2>3
<1>11. OrderInv'
  BY <1>1, <1>3, <1>4, <1>5, <1>10 DEF OrderInv, Rest, Plain, All
<1>12. FailedFirst'
  <2> SUFFICES ASSUME NEW i \in DOMAIN order', NEW j \in DOMAIN order', i < j,
                      order'[i] \in Plain, order'[j] \in Plain, order'[j] \in failedBefore
               PROVE  order'[i] \in failedBefore
    BY <1>1 DEF FailedFirst, Plain
  <2>1. i \in DOMAIN order /\ order'[i] = order[i]
    BY <1>8, <1>9
  <2>2. CASE j \in DOMAIN order
    BY <1>5, <1>8, <1>9, <2>1, <2>2 DEF Rest, FailedFirst, Plain
  <2>3. CASE j \notin DOMAIN order
    <3>1. order'[j] = t /\ t \in Plain \cap failedBefore
      BY <1>10, <2>3
    <3>2. phase[t] = "setup"
      BY <1>2, <1>3
    <3> QED
      BY <1>5, <2>1, <3>1, <3>2 DEF Rest, OrderInv
  <2> QED
    BY <2>2, <2>3
<1>13. \A c \in pending' : c[1] \in Tests /\ c[2] \in DOMAIN Body[c[1]].later
  <2>1. ASSUME NEW k \in DOMAIN b.later PROVE << t, k >>[1] \in Tests /\ << t, k >>[2] \in DOMAIN Body[<< t, k >>[1]].later
    BY <1>6
  <2> QED
    BY <1>1, <1>5, <2>1 DEF Rest
<1>14. semaphore' \in Nat /\ startTimers' \in Nat
  <2>1. semaphore \in Nat /\ startTimers \in Nat
    BY <1>5 DEF Rest
  <2> DEFINE a == semaphore + b.stops
             n == IF b.dies /\ b.stops > 0 THEN 1 ELSE 0
  <2>2. a \in Nat /\ n \in Nat
    BY <1>6, <2>1
  <2> HIDE DEF a, n
  <2>3. started(a, n).semaphore \in Nat /\ started(a, n).timers \in {0, 1}
    BY <2>2, StartedFacts
  <2> QED
    BY <1>1, <2>1, <2>3 DEF a, n
<1>15. blocking' \in BOOLEAN /\ timeout' \in BOOLEAN /\ early' \in BOOLEAN
  BY <1>1
<1>16. Rest'
  BY <1>1, <1>3, <1>4, <1>5, <1>7, <1>8, <1>11, <1>12, <1>13, <1>14, <1>15 DEF Rest
<1> QED
  BY <1>3, <1>16, MovedAndRest

-----------------------------------------------------------------------------
LEMMA TimersKeep == RunnerInv /\ (StartTimer \/ TimeoutFires \/ Load) => RunnerInv'
<1> SUFFICES ASSUME RunnerInv PROVE StartTimer \/ TimeoutFires \/ Load => RunnerInv'
  OBVIOUS
<1>0. Rest
  BY MovedAndRest
<1>1. CASE StartTimer
  <2>1. /\ stack = << >> /\ startTimers > 0 /\ startTimers' = startTimers - 1
        /\ UNCHANGED << queue, phase, registered, semaphore, autorun, loaded, early, current, order,
                        pending, storage, failedBefore >>
        /\ IF semaphore > 0 THEN UNCHANGED << timeout, blocking, stack, depth >>
           ELSE timeout' = FALSE /\ blocking' = FALSE /\ stack' = << Process(TRUE) >> /\ depth' = depth + 1
    BY <1>1 DEF StartTimer, results, page
  <2>2. loaded
    BY <1>0, <2>1 DEF Rest, LoadInv
  <2>3. LoadInv' /\ OrderInv' /\ FailedFirst'
    BY <1>0, <2>1, <2>2 DEF Rest, LoadInv, OrderInv, FailedFirst
  <2>4. WaitInv' /\ timeout' \in BOOLEAN /\ blocking' \in BOOLEAN
    BY <1>0, <2>1 DEF Rest, WaitInv
  <2>5. startTimers' \in Nat
    BY <1>0, <2>1 DEF Rest
  <2>6. Rest'
    BY <1>0, <2>1, <2>3, <2>4, <2>5 DEF Rest
  <2>7. Moved
    <3>1. CASE semaphore > 0
      BY <2>1, <3>1, StillMoves
    <3>2. CASE ~(semaphore > 0)
      <4>1. TRUE \in BOOLEAN
        OBVIOUS
      <4> QED
        BY <2>1, <3>2, <4>1, LoopMoves
    <3> QED
      BY <3>1, <3>2
  <2> QED
    BY <2>6, <2>7, MovedAndRest
<1>2. CASE TimeoutFires
  <2>1. /\ timeout /\ timeout' = FALSE /\ semaphore' = 0 /\ startTimers' = startTimers + 1 /\ early' = TRUE
        /\ UNCHANGED << queue, stack, depth, phase, registered, blocking, autorun, loaded, current, order,
                        pending, storage, failedBefore >>
    BY <1>2 DEF TimeoutFires
  <2>2. loaded
    BY <1>0, <2>1 DEF Rest, LoadInv
  <2>3. LoadInv' /\ OrderInv' /\ FailedFirst'
    BY <1>0, <2>1, <2>2 DEF Rest, LoadInv, OrderInv, FailedFirst
  <2>4. WaitInv' /\ startTimers' \in Nat
    BY <1>0, <2>1 DEF Rest, WaitInv
  <2>6. Rest'
    BY <1>0, <2>1, <2>3, <2>4 DEF Rest
  <2>7. Moved
    BY <2>1, StillMoves
  <2> QED
    BY <2>6, <2>7, MovedAndRest
<1>3. CASE Load
  <2>1. /\ ~loaded /\ (\A t \in Tests \ Late : t <= registered) /\ loaded' = TRUE /\ blocking' = FALSE
        /\ startTimers' = startTimers + 1
        /\ UNCHANGED << queue, stack, depth, phase, registered, semaphore, autorun, timeout, early, current,
                        order, pending, storage, failedBefore >>
    BY <1>3 DEF Load, results
  <2>2. \A t \in Plain : phase[t] # "new"
    <3>1. ASSUME NEW t \in Plain PROVE phase[t] # "new"
      <4>1. t \in Tests /\ t \in Int /\ registered \in Nat /\ t <= registered
        BY <1>0, <2>1, QUnitAssumption DEF Plain, Rest
      <4> QED
        BY <1>0, <4>1 DEF Rest, LoadInv
    <3> QED
      BY <3>1
  <2>3. LoadInv'
    BY <1>0, <2>1, <2>2 DEF Rest, LoadInv
  <2>4. OrderInv' /\ FailedFirst' /\ WaitInv' /\ startTimers' \in Nat
    BY <1>0, <2>1 DEF Rest, LoadInv, OrderInv, FailedFirst, WaitInv
  <2>6. Rest'
    BY <1>0, <2>1, <2>3, <2>4 DEF Rest
  <2>7. Moved
    BY <2>1, StillMoves
  <2> QED
    BY <2>6, <2>7, MovedAndRest
<1> QED
  BY <1>1, <1>2, <1>3

LEMMA CallbackKeeps ==
  ASSUME RunnerInv, NEW c \in pending, Callback(c[1], c[2]) \/ CallbackOutside(c[1], c[2])
  PROVE  RunnerInv'
<1>0. Rest
  BY MovedAndRest
<1> DEFINE t == c[1]
           k == c[2]
<1>1. t \in Tests /\ k \in DOMAIN Body[t].later /\ Body[t].later[k].starts \in Nat
  BY <1>0, BodyFacts DEF Rest
<1>2. loaded
  BY <1>0 DEF Rest, LoadInv
<1> HIDE DEF t, k
<1>3. CASE Callback(t, k)
  <2> DEFINE now == started(semaphore, Body[t].later[k].starts)
  <2>1. /\ semaphore' = now.semaphore /\ startTimers' = startTimers + now.timers
        /\ pending' = pending \ {<< t, k >>}
        /\ UNCHANGED << queue, stack, depth, phase, registered, autorun, loaded, failedBefore, blocking,
                        timeout, early, current, order, storage >>
    BY <1>3 DEF Callback, page
  <2>2. now.semaphore \in Nat /\ now.timers \in {0, 1}
    BY <1>0, <1>1, StartedFacts DEF Rest
  <2> HIDE DEF now
  <2>3. LoadInv' /\ OrderInv' /\ FailedFirst' /\ WaitInv'
    BY <1>0, <1>2, <2>1 DEF Rest, LoadInv, OrderInv, FailedFirst, WaitInv
  <2>4. startTimers' \in Nat
    BY <1>0, <2>1, <2>2 DEF Rest
  <2>6. Rest'
    BY <1>0, <2>1, <2>2, <2>3, <2>4 DEF Rest
  <2>7. Moved
    BY <2>1, StillMoves
  <2> QED
    BY <2>6, <2>7, MovedAndRest
<1>4. CASE CallbackOutside(t, k)
  <2>1. PICK g \in Spares : phase[g] = "new" /\ phase' = [phase EXCEPT ![g] = "queued"] /\ stack' = queueTest(g)
    BY <1>4 DEF CallbackOutside
  <2>2. /\ stack = << >> /\ pending' = pending \ {<< t, k >>}
        /\ UNCHANGED << queue, depth, registered, autorun, loaded, failedBefore, blocking, semaphore,
                        startTimers, timeout, early, current, order, storage >>
    BY <1>4 DEF CallbackOutside, timers, results, page
  <2>3. g \in All /\ g \notin Tests /\ g \notin Plain
    BY QUnitAssumption DEF All, Plain
  <2>4. Moved /\ phase' \in [All -> Phases]
    BY <2>1, <2>2, <2>3, QueueTestMoves
  <2>5. \A u \in All : u # g => phase'[u] = phase[u]
    BY <1>0, <2>1 DEF Rest
  <2>6. Tests \subseteq All /\ Plain \subseteq All
    BY DEF All, Plain
  <2>7. LoadInv' /\ OrderInv' /\ FailedFirst'
    BY <1>0, <1>2, <2>2, <2>3, <2>5, <2>6 DEF Rest, LoadInv, OrderInv, FailedFirst
  <2>8. WaitInv'
    BY <1>0, <2>1, <2>2, <2>5 DEF Rest, WaitInv, Active
  <2>9. Rest'
    BY <1>0, <2>2, <2>4, <2>7, <2>8 DEF Rest
  <2> QED
    BY <2>4, <2>9, MovedAndRest
<1> QED
  BY <1>3, <1>4 DEF t, k

LEMMA TestsAre == \A t \in Tests : t \in Int
<1>1. Tests = 1 .. Cardinality(Tests)
  BY QUnitAssumption
<1> DEFINE n == Cardinality(Tests)
<1> HIDE DEF n
<1>2. \A t \in 1 .. n : t \in Int
  OBVIOUS
<1> QED
  BY <1>1, <1>2 DEF n

LEMMA RegisterKeeps == ASSUME RunnerInv, NEW t \in Tests, Register(t) PROVE RunnerInv'
<1>0. Rest
  BY MovedAndRest
<1>1. /\ stack = << >> /\ t = registered + 1 /\ (t \in Late <=> loaded) /\ registered' = t
      /\ phase' = [phase EXCEPT ![t] = IF validTest(t) THEN "queued" ELSE "skipped"]
      /\ stack' = IF validTest(t) THEN queueTest(t) ELSE << >>
      /\ UNCHANGED << queue, depth, autorun, loaded, failedBefore, blocking, semaphore, startTimers,
                      timeout, early, current, order, pending, storage >>
  BY DEF Register, timers, results
<1>2. t \in All /\ phase[t] = "new" /\ t \in Int /\ registered \in Nat /\ phase \in [All -> Phases]
  <2>1. t \in All /\ t \in Int /\ registered \in Nat
    BY <1>0, TestsAre DEF Rest, All
  <2>2. t > registered
    BY <1>1, <2>1
  <2> QED
    BY <1>0, <1>1, <2>1, <2>2 DEF Rest, LoadInv
<1>3. t \in Plain => ~loaded
  BY <1>1 DEF Plain
<1>4. Moved /\ phase' \in [All -> Phases]
  <2>1. CASE validTest(t)
    BY <1>1, <1>2, <1>3, <2>1, QueueTestMoves
  <2>2. CASE ~validTest(t)
    <3>1. stack' = stack /\ phase' = [phase EXCEPT ![t] = "skipped"]
      BY <1>1, <2>2
    <3>2. PICK r : Unwinds(stack, r, depth) /\ ListOk(queue \o r, phase, autorun, loaded, failedBefore)
      BY DEF RunnerInv, QueueInv
    <3>3. \A u \in All : Agrees(queue \o r, u, phase'[u])
      <4>1. ASSUME NEW u \in All PROVE Agrees(queue \o r, u, phase'[u])
        <5>1. Agrees(queue \o r, u, phase[u])
          BY <3>2 DEF ListOk
        <5>2. CASE u = t
          <6>1. phase[u] = "new" /\ phase'[u] = "skipped"
            BY <1>2, <3>1, <5>2
          <6> QED
            BY <5>1, <6>1 DEF Agrees
        <5>3. CASE u # t
          BY <1>2, <3>1, <5>1, <5>3
        <5> QED
          BY <5>2, <5>3
      <4> QED
        BY <4>1
    <3>4. ListOk(queue \o r, phase', autorun, loaded, failedBefore)
      BY <3>2, <3>3 DEF ListOk
    <3>5. phase' \in [All -> Phases]
      BY <1>2, <3>1 DEF Phases
    <3>6. Moved
      BY <1>1, <3>1, <3>2, <3>4 DEF Moved, RunnerInv, RunnerTypes
    <3> QED
      BY <3>5, <3>6
  <2> QED
    BY <2>1, <2>2
<1>5. /\ \A u \in All : u # t => phase'[u] = phase[u]
      /\ phase'[t] # "new"
  BY <1>1, <1>2
<1>6. Tests \subseteq All /\ Plain \subseteq All /\ \A u \in Tests : u \in Int
  BY TestsAre DEF All, Plain
<1>7. LoadInv'
  <2>1. \A u \in Tests : u > registered' <=> phase'[u] = "new"
    <3> SUFFICES ASSUME NEW u \in Tests PROVE u > t <=> phase'[u] = "new"
      BY <1>1
    <3>1. u > registered <=> phase[u] = "new"
      BY <1>0 DEF Rest, LoadInv
    <3>2. u # t => (u > registered <=> u > t)
      BY <1>1, <1>2, <1>6
    <3>3. ~(t > t)
      BY <1>2
    <3> QED
      BY <1>5, <1>6, <3>1, <3>2, <3>3
  <2>2. loaded => \A u \in Plain : phase'[u] # "new"
    BY <1>0, <1>3, <1>5, <1>6 DEF Rest, LoadInv
  <2>3. autorun => \A u \in Plain : phase'[u] \in {"skipped", "finished"}
    BY <1>0, <1>3, <1>5, <1>6 DEF Rest, LoadInv
  <2> QED
    BY <1>0, <1>1, <2>1, <2>2, <2>3 DEF Rest, LoadInv
<1>8. OrderInv' /\ FailedFirst'
  BY <1>0, <1>1, <1>2, <1>5, <1>6 DEF Rest, OrderInv, FailedFirst
<1>9. WaitInv'
  BY <1>0, <1>1, <1>2, <1>5 DEF Rest, WaitInv, Active
<1>10. Rest'
  BY <1>0, <1>1, <1>2, <1>4, <1>7, <1>8, <1>9 DEF Rest
<1> QED
  BY <1>4, <1>10, MovedAndRest

LEMMA RunnerStep == RunnerInv /\ [Next]_vars => RunnerInv'
<1> SUFFICES ASSUME RunnerInv, [Next]_vars PROVE RunnerInv'
  OBVIOUS
<1>1. CASE Step
  BY <1>1, QuietKeeps, ProcessEndsKeeps, SetupKeeps, RunKeeps, TeardownKeeps, FinishKeeps DEF Step
<1>2. CASE Timer
  BY <1>2, QuietKeeps, TimersKeep DEF Timer
<1>3. CASE Load
  BY <1>3, TimersKeep
<1>4. CASE \E t \in Tests : Register(t)
  BY <1>4, RegisterKeeps
<1>5. CASE \E c \in pending : Callback(c[1], c[2]) \/ CallbackOutside(c[1], c[2])
  BY <1>5, CallbackKeeps
<1>6. CASE UNCHANGED vars
  <2>1. Rest'
    BY <1>6, MovedAndRest, RestStays DEF vars, control, timers, results, window, page
  <2>2. Moved
    BY <1>6, StillMoves DEF vars, control, page
  <2> QED
    BY <2>1, <2>2, MovedAndRest
<1> QED
  BY <1>1, <1>2, <1>3, <1>4, <1>5, <1>6 DEF Next

LEMMA AlwaysRunner == Spec => []RunnerInv
<1> QED
  BY RunnerStart, RunnerStep, PTL DEF Spec

(* Until the end of the run the step at the head of the list says which    *)
(* test is under way                                                       *)
LEMMA AtHead ==
  ASSUME NEW w \in Seq(Jobs), Adjacent(w), NEW t, NEW p \in Active, Agrees(w, t, p)
  PROVE  w # << >> /\ w[1][2] = t
<1> DEFINE s == IF p = "setup" THEN "run" ELSE IF p = "run" THEN "teardown" ELSE "finish"
<1>1. Due(w, s, t) /\ ~Due(w, Prev(s), t) /\ s \in {"run", "teardown", "finish"}
  BY DEF Active, Agrees, Prev
<1>2. PICK i \in DOMAIN w : w[i] = << s, t >>
  BY <1>1 DEF Due
<1> HIDE DEF s
<1>3. w[i][1] = s /\ w[i][2] = t
  BY <1>2
<1>4. CASE i = 1
  BY <1>3, <1>4
<1>5. CASE i # 1
  <2>1. i > 1 /\ i - 1 \in DOMAIN w
    BY <1>5
  <2>2. w[i - 1] = << Prev(s), t >>
    BY <1>1, <1>3, <2>1 DEF Adjacent
  <2> QED
    BY <1>1, <2>1, <2>2 DEF Due
<1> QED
  BY <1>4, <1>5

LEMMA RunnerOrder == RunnerInv => RunsInOrder
<1> SUFFICES ASSUME RunnerInv PROVE RunsInOrder
  OBVIOUS
<1>1. FailedFirst
  BY DEF RunnerInv
<1>2. OneAtATime
  <2> SUFFICES ASSUME ~autorun PROVE Cardinality({t \in All : phase[t] \in Active}) <= 1
    BY DEF OneAtATime, Active
  <2>1. PICK r : Unwinds(stack, r, depth) /\ ListOk(queue \o r, phase, autorun, loaded, failedBefore)
    BY DEF RunnerInv, QueueInv
  <2> DEFINE w == queue \o r
             A == {t \in All : phase[t] \in Active}
  <2>2. w \in Seq(Jobs) /\ Adjacent(w) /\ \A t \in All : Agrees(w, t, phase[t])
    BY <2>1 DEF ListOk
  <2> HIDE DEF w
  <2>3. \A t \in A : w[1][2] = t
    BY <2>2, AtHead
  <2>4. A \subseteq {w[1][2]}
    BY <2>3
  <2> HIDE DEF A
  <2>5. IsFiniteSet({w[1][2]}) /\ Cardinality({w[1][2]}) = 1
    BY FS_Singleton
  <2>6. Cardinality(A) <= 1
    BY <2>4, <2>5, FS_Subset
  <2> QED
    BY <2>6 DEF A
<1> QED
  BY <1>1, <1>2 DEF RunsInOrder

\* For any tests, filters, bodies and results of the run before: until the end
\* of the run one test is set up, run and finished before the next one, and the
\* tests that failed the last time run first (Test.queue, synchronize, process).
THEOREM TestsRunInOrder == Spec => []RunsInOrder
<1> QED
  BY AlwaysRunner, RunnerOrder, PTL

LEMMA OnlyProcessEnds == [Next]_vars /\ ~ProcessEnds => doneCalls' = doneCalls
BY DEF Next, Step, Timer, SynchronizeStep, Yield, InitStep, LaterStep, SetupStep, RunStep,
       TeardownStep, FinishStep, StartTimer, NextTimer, TimeoutFires, Load, Register,
       Callback, CallbackOutside, page, vars

DoneCount == doneCalls \in Nat

LEMMA DoneCounts == Spec => []DoneCount
<1>1. Init => DoneCount
  BY DEF Init, DoneCount
<1>2. DoneCount /\ [Next]_vars => DoneCount'
  <2> SUFFICES ASSUME doneCalls \in Nat, [Next]_vars PROVE doneCalls' \in Nat
    BY DEF DoneCount
  <2>1. CASE ProcessEnds
    <3>1. done => doneCalls' = doneCalls + 1
      BY Zenon DEF done
    <3>2. doneCalls' = doneCalls + 1 \/ doneCalls' = doneCalls
      BY <2>1, <3>1 DEF ProcessEnds
    <3> QED
      BY <3>2
  <2>2. CASE ~ProcessEnds
    BY <2>2, OnlyProcessEnds
  <2> QED
    BY <2>1, <2>2
<1> QED
  BY <1>1, <1>2, PTL DEF Spec

\* For any tests and any order of timers, timeouts and callbacks: done() is
\* called only when no test is queued, waits or runs (process, done).
THEOREM DoneIsTheEnd == Spec => DoneMeansAll
<1> DEFINE Ends == doneCalls' > doneCalls => \A t \in All : phase[t] \in {"new", "skipped", "finished"}
<1>1. RunnerInv /\ DoneCount /\ [Next]_vars => [Ends]_vars
  <2> SUFFICES ASSUME RunnerInv, doneCalls \in Nat, [Next]_vars PROVE Ends
    BY DEF DoneCount
  <2>1. CASE ProcessEnds
    <3>1. CASE ReportsDone(Head(stack).last)
      <4>1. Calling("process") /\ queue = << >> /\ Head(stack).last
        BY <2>1, <3>1 DEF ProcessEnds, ReportsDone
      <4> QED
        BY <4>1, AllThrough
    <3>2. CASE ~ReportsDone(Head(stack).last)
      BY <2>1, <3>2 DEF ProcessEnds
    <3> QED
      BY <3>1, <3>2
  <2>2. CASE ~ProcessEnds
    BY <2>2, OnlyProcessEnds
  <2> QED
    BY <2>1, <2>2
<1> QED
  BY <1>1, AlwaysRunner, DoneCounts, PTL DEF Spec, DoneMeansAll

-----------------------------------------------------------------------------
(***************************************************************************)
(* The report of the runner.                                               *)
(***************************************************************************)
(* The element that a sum over s takes out first                           *)
First(s) == CHOOSE m \in s : TRUE

(* f is the function that MapThenSumSet defines over the subsets of s, for *)
(* the numbers z                                                           *)
Sums(f, z, s) == f = [r \in SUBSET s |->
  IF r = {} THEN 0 ELSE z[First(r)] + f[r \ {First(r)}]]

SumOf(z, s) == CHOOSE f : Sums(f, z, s)
Total(z, s) == SumOf(z, s)[s]

LEMMA MinimalSet ==
  ASSUME NEW S, IsFiniteSet(S), NEW Bad, Bad \subseteq SUBSET S, Bad # {}
  PROVE  \E x \in Bad : \A y \in SUBSET x : y # x => y \notin Bad
<1>1. Bad \subseteq FiniteSubsetsOf(S)
  BY FS_Subset DEF FiniteSubsetsOf
<1>2. \E x \in Bad : \A y \in Bad : ~ (<<y, x>> \in StrictSubsetOrdering(S))
  BY <1>1, FS_StrictSubsetOrderingWellFounded, WFMin
<1> QED
  BY <1>2 DEF StrictSubsetOrdering

LEMMA FirstIn == ASSUME NEW s, s # {} PROVE First(s) \in s
BY DEF First

LEMMA SumsStep ==
  ASSUME NEW f, NEW z, NEW s, Sums(f, z, s), NEW r \in SUBSET s
  PROVE  f[r] = IF r = {} THEN 0 ELSE z[First(r)] + f[r \ {First(r)}]
BY DEF Sums

LEMMA SumsAgree ==
  ASSUME NEW f, NEW g, NEW s, NEW r, NEW z, NEW y, Sums(f, z, s), Sums(g, y, r),
         NEW q, IsFiniteSet(q), q \subseteq s, q \subseteq r, \A t \in q : z[t] = y[t]
  PROVE  f[q] = g[q]
<1> DEFINE Bad == {p \in SUBSET q : f[p] # g[p]}
<1> SUFFICES ASSUME Bad # {} PROVE FALSE
  OBVIOUS
<1>1. PICK x \in Bad : \A w \in SUBSET x : w # x => w \notin Bad
  <2>1. Bad \subseteq SUBSET q
    OBVIOUS
  <2> HIDE DEF Bad
  <2> QED
    BY <2>1, MinimalSet
<1>2. x \subseteq q /\ f[x] # g[x]
  OBVIOUS
<1>3. /\ f[x] = IF x = {} THEN 0 ELSE z[First(x)] + f[x \ {First(x)}]
      /\ g[x] = IF x = {} THEN 0 ELSE y[First(x)] + g[x \ {First(x)}]
  BY <1>2, SumsStep
<1>4. x # {}
  BY <1>2, <1>3
<1>5. x \ {First(x)} \in SUBSET x /\ x \ {First(x)} # x /\ z[First(x)] = y[First(x)]
  BY <1>2, <1>4, FirstIn
<1>6. f[x \ {First(x)}] = g[x \ {First(x)}]
  BY <1>1, <1>2, <1>5
<1> QED
  BY <1>2, <1>3, <1>4, <1>5, <1>6

LEMMA SumExists ==
  ASSUME NEW z, NEW S, IsFiniteSet(S)
  PROVE  Sums(SumOf(z, S), z, S)
<1> DEFINE Bad == {p \in SUBSET S : ~ Sums(SumOf(z, p), z, p)}
<1>0. Bad = {} => Sums(SumOf(z, S), z, S)
  OBVIOUS
<1> SUFFICES ASSUME Bad # {} PROVE FALSE
  BY <1>0
<1>1. PICK x \in Bad : \A y \in SUBSET x : y # x => y \notin Bad
  <2>1. Bad \subseteq SUBSET S
    OBVIOUS
  <2> HIDE DEF Bad
  <2> QED
    BY <2>1, MinimalSet
<1>2. x \subseteq S /\ IsFiniteSet(x) /\ ~ Sums(SumOf(z, x), z, x)
  BY FS_Subset
<1>3. \A y \in SUBSET x : y # x => Sums(SumOf(z, y), z, y) /\ IsFiniteSet(y)
  BY <1>1, <1>2, FS_Subset
<1> DEFINE f == [r \in SUBSET x |->
             IF r = {} THEN 0 ELSE z[First(r)] + SumOf(z, r \ {First(r)})[r \ {First(r)}]]
<1>4. ASSUME NEW r \in SUBSET x, r # {}
      PROVE  f[r \ {First(r)}] = SumOf(z, r \ {First(r)})[r \ {First(r)}]
  <2> DEFINE q == r \ {First(r)}
  <2>1. q \in SUBSET x /\ q # x
    BY SMTT(30), <1>4, FirstIn
  <2>2. Sums(SumOf(z, q), z, q) /\ q \in SUBSET q /\ IsFiniteSet(q)
    BY <1>3, <2>1
  <2>3. SumOf(z, q)[q] = IF q = {} THEN 0 ELSE z[First(q)] + SumOf(z, q)[q \ {First(q)}]
    BY <2>2, SumsStep
  <2>4. f[q] = IF q = {} THEN 0 ELSE z[First(q)] + SumOf(z, q \ {First(q)})[q \ {First(q)}]
    BY <2>1
  <2>5. ASSUME q # {} PROVE SumOf(z, q \ {First(q)})[q \ {First(q)}] = SumOf(z, q)[q \ {First(q)}]
    <3>1. /\ q \ {First(q)} \in SUBSET x /\ q \ {First(q)} # x
      BY <2>1, <2>5, FirstIn
    <3>2. Sums(SumOf(z, q \ {First(q)}), z, q \ {First(q)}) /\ IsFiniteSet(q \ {First(q)})
      BY <1>3, <3>1
    <3> HIDE DEF q
    <3> QED
      BY <2>2, <3>2, SumsAgree
  <2> QED
    BY <2>3, <2>4, <2>5
<1>5. Sums(f, z, x)
  <2>1. \A r \in SUBSET x : f[r] = IF r = {} THEN 0 ELSE z[First(r)] + f[r \ {First(r)}]
    BY <1>4
  <2> HIDE DEF f
  <2>2. f = [r \in SUBSET x |-> f[r]]
    BY DEF f
  <2> QED
    BY <2>1, <2>2 DEF Sums
<1> HIDE DEF f
<1>6. Sums(SumOf(z, x), z, x)
  BY <1>5 DEF SumOf
<1> QED
  BY <1>2, <1>6

LEMMA TotalStep ==
  ASSUME NEW z, NEW S, IsFiniteSet(S)
  PROVE  Total(z, S) = IF S = {} THEN 0 ELSE z[First(S)] + Total(z, S \ {First(S)})
<1>1. Sums(SumOf(z, S), z, S)
  BY SumExists
<1>2. SumOf(z, S)[S] = IF S = {} THEN 0 ELSE z[First(S)] + SumOf(z, S)[S \ {First(S)}]
  BY <1>1, SumsStep
<1>3. IsFiniteSet(S \ {First(S)})
  BY FS_RemoveElement
<1>4. Sums(SumOf(z, S \ {First(S)}), z, S \ {First(S)})
  BY <1>3, SumExists
<1>5. SumOf(z, S)[S \ {First(S)}] = SumOf(z, S \ {First(S)})[S \ {First(S)}]
  BY <1>1, <1>3, <1>4, SumsAgree
<1> QED
  BY <1>2, <1>5 DEF Total

(* A sum depends only on the numbers of its elements                       *)
LEMMA TotalSame ==
  ASSUME NEW z, NEW y, NEW S, IsFiniteSet(S), \A t \in S : z[t] = y[t]
  PROVE  Total(z, S) = Total(y, S)
BY SumExists, SumsAgree DEF Total

(* The sum does not depend on which element is taken out first             *)
LEMMA TotalWithout ==
  ASSUME NEW z, NEW S, IsFiniteSet(S), \A t \in S : z[t] \in Nat
  PROVE  /\ Total(z, S) \in Nat
         /\ \A m \in S : Total(z, S) = z[m] + Total(z, S \ {m})
<1> DEFINE Good(s) == /\ Total(z, s) \in Nat
                      /\ \A m \in s : Total(z, s) = z[m] + Total(z, s \ {m})
           Bad == {s \in SUBSET S : ~ Good(s)}
<1>a. Bad = {} => Good(S)
  OBVIOUS
<1> SUFFICES ASSUME Bad # {} PROVE FALSE
  BY <1>a
<1>1. PICK x \in Bad : \A y \in SUBSET x : y # x => y \notin Bad
  <2>1. Bad \subseteq SUBSET S
    OBVIOUS
  <2> HIDE DEF Bad
  <2> QED
    BY <2>1, MinimalSet
<1>2. x \subseteq S /\ ~ (Total(z, x) \in Nat /\ \A m \in x : Total(z, x) = z[m] + Total(z, x \ {m}))
  OBVIOUS
<1>3. ASSUME NEW y, y \subseteq x, y # x
      PROVE  /\ Total(z, y) \in Nat
             /\ \A m \in y : Total(z, y) = z[m] + Total(z, y \ {m})
  BY <1>1, <1>2, <1>3
<1>4. IsFiniteSet(x)
  BY <1>2, FS_Subset
<1>5. CASE x = {}
  <2>1. Total(z, x) = 0
    BY <1>4, <1>5, TotalStep
  <2> QED
    BY <1>2, <1>5, <2>1
<1>6. CASE x # {}
  <2> DEFINE p == First(x)
  <2>1. p \in x /\ z[p] \in Nat
    BY <1>2, <1>6, FirstIn
  <2>2. Total(z, x) = z[p] + Total(z, x \ {p})
    BY <1>4, <1>6, TotalStep
  <2> HIDE DEF p
  <2>3. /\ Total(z, x \ {p}) \in Nat
        /\ \A m \in x \ {p} : Total(z, x \ {p}) = z[m] + Total(z, (x \ {p}) \ {m})
    BY <1>3, <2>1
  <2>4. Total(z, x) \in Nat
    BY <2>1, <2>2, <2>3
  <2>5. ASSUME NEW m \in x PROVE Total(z, x) = z[m] + Total(z, x \ {m})
    <3>1. CASE m = p
      BY <2>2, <3>1
    <3>2. CASE m # p
      <4>1. Total(z, x \ {p}) = z[m] + Total(z, (x \ {p}) \ {m})
        BY <2>3, <3>2
      <4>2. Total(z, x \ {m}) = z[p] + Total(z, (x \ {m}) \ {p})
        BY <1>3, <2>1, <3>2
      <4>3. (x \ {p}) \ {m} = (x \ {m}) \ {p} /\ (x \ {p}) \ {m} \subseteq x /\ (x \ {p}) \ {m} # x
        OBVIOUS
      <4>4. Total(z, (x \ {p}) \ {m}) \in Nat
        BY <1>3, <4>3
      <4>5. z[m] \in Nat
        BY <1>2
      <4> DEFINE rest == Total(z, (x \ {p}) \ {m})
      <4>6. Total(z, x) = z[p] + (z[m] + rest) /\ Total(z, x \ {m}) = z[p] + rest /\ rest \in Nat
        BY <2>2, <4>1, <4>2, <4>3, <4>4
      <4> HIDE DEF rest
      <4>7. z[p] + (z[m] + rest) = z[m] + (z[p] + rest)
        BY <2>1, <4>5, <4>6
      <4> QED
        BY <4>6, <4>7
    <3> QED
      BY <3>1, <3>2
  <2> QED
    BY <1>2, <2>4, <2>5
<1> QED
  BY <1>5, <1>6

LEMMA TotalEmpty == \A z : Total(z, {}) = 0
BY FS_EmptySet, TotalStep

LEMMA TotalAdd ==
  ASSUME NEW z, NEW S, IsFiniteSet(S), NEW m, m \notin S, \A t \in S \cup {m} : z[t] \in Nat
  PROVE  Total(z, S \cup {m}) = Total(z, S) + z[m] /\ Total(z, S) \in Nat
<1>1. (S \cup {m}) \ {m} = S /\ m \in S \cup {m} /\ IsFiniteSet(S \cup {m})
  BY FS_AddElement
<1>2. Total(z, S) \in Nat /\ z[m] \in Nat
  BY TotalWithout
<1>3. Total(z, S \cup {m}) = z[m] + Total(z, S)
  BY <1>1, TotalWithout
<1> QED
  BY <1>2, <1>3

(* The totals of the report, as such sums                                  *)
Lens(a) == [t \in All |-> Len(a[t])]
Bads(a) == [t \in All |-> Fails(a[t])]

LEMMA LensTotal ==
  ASSUME NEW a, NEW S, S \subseteq All
  PROVE  MapThenSumSet(LAMBDA t : Len(a[t]), S) = Total(Lens(a), S)
<1> DEFINE Q(f) == f = [r \in SUBSET S |->
             IF r = {} THEN 0 ELSE Len(a[First(r)]) + f[r \ {First(r)}]]
<1>1. MapThenSumSet(LAMBDA t : Len(a[t]), S) = (CHOOSE f : Q(f))[S]
  BY DEF MapThenSumSet, MapThenFoldSet, First
<1>2. \A r \in SUBSET S : r # {} => Lens(a)[First(r)] = Len(a[First(r)])
  BY FirstIn DEF Lens
<1>3. \A f : Q(f) <=> Sums(f, Lens(a), S)
  BY <1>2 DEF Sums
<1> HIDE DEF Q
<1>4. (CHOOSE f : Q(f)) = (CHOOSE f : Sums(f, Lens(a), S))
  BY <1>3
<1> QED
  BY <1>1, <1>4 DEF Total, SumOf

LEMMA BadsTotal ==
  ASSUME NEW a, NEW S, S \subseteq All
  PROVE  MapThenSumSet(LAMBDA t : Fails(a[t]), S) = Total(Bads(a), S)
<1> DEFINE Q(f) == f = [r \in SUBSET S |->
             IF r = {} THEN 0 ELSE Fails(a[First(r)]) + f[r \ {First(r)}]]
<1>1. MapThenSumSet(LAMBDA t : Fails(a[t]), S) = (CHOOSE f : Q(f))[S]
  BY DEF MapThenSumSet, MapThenFoldSet, First
<1>2. \A r \in SUBSET S : r # {} => Bads(a)[First(r)] = Fails(a[First(r)])
  BY FirstIn DEF Bads
<1>3. \A f : Q(f) <=> Sums(f, Bads(a), S)
  BY <1>2 DEF Sums
<1> HIDE DEF Q
<1>4. (CHOOSE f : Q(f)) = (CHOOSE f : Sums(f, Bads(a), S))
  BY <1>3
<1> QED
  BY <1>1, <1>4 DEF Total, SumOf

-----------------------------------------------------------------------------
(* Assertions as they are kept with a test                                 *)
Notes == [by : All, ok : BOOLEAN]
HasFail(s) == \E i \in DOMAIN s : ~s[i].ok

LEMMA FailsFacts ==
  ASSUME NEW s \in Seq(Notes)
  PROVE  Fails(s) \in Nat /\ Len(s) \in Nat /\ (Fails(s) > 0 <=> HasFail(s))
<1> DEFINE F == {i \in DOMAIN s : ~s[i].ok}
<1>1. IsFiniteSet(DOMAIN s) /\ Len(s) \in Nat
  <2>1. DOMAIN s = 1 .. Len(s) /\ Len(s) \in Nat
    OBVIOUS
  <2> QED
    BY <2>1, FS_Interval
<1>2. IsFiniteSet(F)
  <2>1. F \subseteq DOMAIN s
    OBVIOUS
  <2> HIDE DEF F
  <2> QED
    BY <1>1, <2>1, FS_Subset
<1>3. Fails(s) = Cardinality(F) /\ (HasFail(s) <=> F # {})
  BY DEF Fails, HasFail
<1> HIDE DEF F
<1>4. Cardinality(F) \in Nat /\ (Cardinality(F) = 0 <=> F = {})
  BY <1>2, FS_CardinalityType, FS_EmptySet
<1> QED
  BY <1>1, <1>3, <1>4

LEMMA HasFailCat ==
  ASSUME NEW s \in Seq(Notes), NEW u \in Seq(Notes)
  PROVE  /\ s \o u \in Seq(Notes) /\ Len(s \o u) = Len(s) + Len(u)
         /\ HasFail(s \o u) <=> HasFail(s) \/ HasFail(u)
<1>1. s \o u \in Seq(Notes) /\ Len(s \o u) = Len(s) + Len(u) /\ Len(s) \in Nat /\ Len(u) \in Nat
  OBVIOUS
<1>2. \A i \in 1 .. Len(s) : (s \o u)[i] = s[i]
  OBVIOUS
<1>3. \A i \in 1 .. Len(u) : (s \o u)[Len(s) + i] = u[i]
  OBVIOUS
<1>4. DOMAIN s = 1 .. Len(s) /\ DOMAIN u = 1 .. Len(u) /\ DOMAIN (s \o u) = 1 .. Len(s) + Len(u)
  OBVIOUS
<1> DEFINE w == s \o u
           n == Len(s)
           m == Len(u)
<1>5. /\ n \in Nat /\ m \in Nat /\ DOMAIN s = 1 .. n /\ DOMAIN u = 1 .. m /\ DOMAIN w = 1 .. n + m
      /\ (\A i \in 1 .. n : w[i] = s[i]) /\ (\A i \in 1 .. m : w[n + i] = u[i])
  BY <1>1, <1>2, <1>3, <1>4
<1> HIDE DEF w, n, m
<1>6. HasFail(w) => HasFail(s) \/ HasFail(u)
  <2> SUFFICES ASSUME NEW i \in DOMAIN w, ~w[i].ok PROVE HasFail(s) \/ HasFail(u)
    BY DEF HasFail
  <2>1. CASE i \in 1 .. n
    BY <1>5, <2>1 DEF HasFail
  <2>2. CASE i \notin 1 .. n
    <3>1. i - n \in 1 .. m /\ n + (i - n) = i
      BY <1>5, <2>2
    <3>2. u[i - n] = w[i] /\ i - n \in DOMAIN u
      BY <1>5, <3>1
    <3> QED
      BY <3>2 DEF HasFail
  <2> QED
    BY <2>1, <2>2
<1>7. HasFail(s) => HasFail(w)
  <2> SUFFICES ASSUME NEW i \in DOMAIN s, ~s[i].ok PROVE HasFail(w)
    BY DEF HasFail
  <2>1. i \in DOMAIN w /\ w[i] = s[i]
    BY <1>5
  <2> QED
    BY <2>1 DEF HasFail
<1>8. HasFail(u) => HasFail(w)
  <2> SUFFICES ASSUME NEW i \in DOMAIN u, ~u[i].ok PROVE HasFail(w)
    BY DEF HasFail
  <2>1. n + i \in DOMAIN w /\ w[n + i] = u[i]
    BY <1>5
  <2> QED
    BY <2>1 DEF HasFail
<1> QED
  BY <1>1, <1>6, <1>7, <1>8 DEF w

LEMMA NoteFacts ==
  /\ << >> \in Seq(Notes) /\ Len(<< >>) = 0 /\ ~HasFail(<< >>)
  /\ \A t \in All : Failure(t) \in Seq(Notes) /\ Len(Failure(t)) = 1 /\ HasFail(Failure(t))
<1>1. << >> \in Seq(Notes) /\ Len(<< >>) = 0 /\ DOMAIN << >> = {}
  OBVIOUS
<1>2. ASSUME NEW t \in All PROVE Failure(t) \in Seq(Notes) /\ Len(Failure(t)) = 1 /\ HasFail(Failure(t))
  <2> DEFINE e == [by |-> t, ok |-> FALSE]
  <2>1. e \in Notes /\ ~e.ok
    BY DEF Notes
  <2> HIDE DEF e
  <2>2. << e >> \in Seq(Notes) /\ Len(<< e >>) = 1 /\ 1 \in DOMAIN << e >> /\ << e >>[1] = e
    BY <2>1
  <2>3. HasFail(<< e >>)
    BY <2>1, <2>2 DEF HasFail
  <2> QED
    BY <2>2, <2>3 DEF Failure, e
<1> QED
  BY <1>1, <1>2 DEF HasFail

LEMMA PassesFacts ==
  ASSUME NEW t \in All, NEW oks \in Seq(BOOLEAN)
  PROVE  /\ Passes(t, oks) \in Seq(Notes) /\ Len(Passes(t, oks)) = Len(oks)
         /\ HasFail(Passes(t, oks)) <=> \E i \in DOMAIN oks : ~oks[i]
<1> DEFINE s == Passes(t, oks)
           n == Len(oks)
<1>1. n \in Nat /\ DOMAIN oks = 1 .. n /\ \A i \in 1 .. n : oks[i] \in BOOLEAN
  OBVIOUS
<1>2. s = [i \in 1 .. n |-> [by |-> t, ok |-> oks[i]]]
  BY <1>1 DEF Passes
<1>3. \A i \in 1 .. n : s[i] \in Notes /\ s[i].ok = oks[i]
  BY <1>1, <1>2 DEF Notes
<1> HIDE DEF s, n
<1>4. s \in [1 .. n -> Notes] /\ DOMAIN s = 1 .. n
  <2>1. s = [i \in 1 .. n |-> s[i]]
    BY <1>2
  <2> QED
    BY <1>3, <2>1
<1>5. s \in Seq(Notes) /\ Len(s) = n
  BY <1>1, <1>4
<1>6. HasFail(s) <=> \E i \in 1 .. n : ~oks[i]
  BY <1>3, <1>4 DEF HasFail
<1> QED
  BY <1>1, <1>5, <1>6 DEF s, n

-----------------------------------------------------------------------------
StatsInv == assertions \in [All -> Seq(Notes)] /\ IsFiniteSet(Finished) /\ StatsExact

(* The totals as sums over a function                                      *)
StatsSum ==
  /\ stats.all = Total(Lens(assertions), Finished)
  /\ stats.bad = Total(Bads(assertions), Finished)

LEMMA StatsAre == StatsExact <=> StatsSum
<1>1. Finished \subseteq All
  BY DEF Finished
<1> QED
  BY <1>1, LensTotal, BadsTotal DEF StatsExact, StatsSum

LEMMA StatsAreNext == StatsExact' <=> StatsSum'
BY StatsAre, PTL

LEMMA StatsStay ==
  ASSUME StatsInv, assertions' \in [All -> Seq(Notes)], stats' = stats,
         \A t \in All : phase'[t] = "finished" <=> phase[t] = "finished",
         \A t \in All : phase[t] = "finished" => assertions'[t] = assertions[t]
  PROVE  StatsInv'
<1>1. Finished' = Finished /\ Finished \subseteq All /\ IsFiniteSet(Finished)
  BY DEF StatsInv, Finished
<1>2. \A t \in Finished : /\ Lens(assertions')[t] = Lens(assertions)[t]
                          /\ Bads(assertions')[t] = Bads(assertions)[t]
  BY DEF Lens, Bads, Finished
<1>3. /\ Total(Lens(assertions'), Finished) = Total(Lens(assertions), Finished)
      /\ Total(Bads(assertions'), Finished) = Total(Bads(assertions), Finished)
  BY <1>1, <1>2, TotalSame
<1>4. StatsExact'
  BY <1>1, <1>3, StatsAre, StatsAreNext DEF StatsInv, StatsSum
<1> QED
  BY <1>1, <1>4 DEF StatsInv

LEMMA StatsAdd ==
  ASSUME StatsInv, NEW t \in All, phase[t] # "finished", NEW s \in Seq(Notes),
         phase \in [All -> Phases], phase' = [phase EXCEPT ![t] = "finished"],
         assertions' = [assertions EXCEPT ![t] = s], stats' = Counted(stats, s)
  PROVE  StatsInv'
<1>1. assertions' \in [All -> Seq(Notes)] /\ assertions'[t] = s /\ \A u \in All : u # t => assertions'[u] = assertions[u]
  BY DEF StatsInv
<1>2. Finished' = Finished \cup {t} /\ t \notin Finished /\ Finished \subseteq All /\ IsFiniteSet(Finished)
  BY DEF Finished, StatsInv
<1>3. IsFiniteSet(Finished')
  BY <1>2, FS_AddElement
<1>4. \A u \in Finished : /\ Lens(assertions')[u] = Lens(assertions)[u]
                          /\ Bads(assertions')[u] = Bads(assertions)[u]
  BY <1>1, <1>2 DEF Lens, Bads
<1>5. /\ Total(Lens(assertions'), Finished) = Total(Lens(assertions), Finished)
      /\ Total(Bads(assertions'), Finished) = Total(Bads(assertions), Finished)
  <2> DEFINE F == Finished
             z == Lens(assertions)
             y == Bads(assertions)
             zz == Lens(assertions')
             yy == Bads(assertions')
  <2>1. IsFiniteSet(F) /\ (\A u \in F : zz[u] = z[u]) /\ (\A u \in F : yy[u] = y[u])
    BY <1>2, <1>4
  <2> HIDE DEF F, z, y, zz, yy
  <2>2. Total(zz, F) = Total(z, F)
    BY <2>1, TotalSame
  <2>3. Total(yy, F) = Total(y, F)
    BY <2>1, TotalSame
  <2> QED
    BY <2>2, <2>3 DEF F, z, y, zz, yy
<1>6. \A u \in All : Lens(assertions')[u] \in Nat /\ Bads(assertions')[u] \in Nat
  BY <1>1, FailsFacts DEF Lens, Bads
<1>7. Lens(assertions')[t] = Len(s) /\ Bads(assertions')[t] = Fails(s)
  BY <1>1 DEF Lens, Bads
<1>8. /\ Total(Lens(assertions'), Finished') = Total(Lens(assertions'), Finished) + Len(s)
      /\ Total(Bads(assertions'), Finished') = Total(Bads(assertions'), Finished) + Fails(s)
  <2> DEFINE F == Finished
             zz == Lens(assertions')
             yy == Bads(assertions')
  <2>1. /\ IsFiniteSet(F) /\ t \notin F
        /\ (\A u \in F \cup {t} : zz[u] \in Nat) /\ (\A u \in F \cup {t} : yy[u] \in Nat)
    BY <1>2, <1>6
  <2> HIDE DEF F, zz, yy
  <2>2. Total(zz, F \cup {t}) = Total(zz, F) + zz[t]
    BY <2>1, TotalAdd
  <2>3. Total(yy, F \cup {t}) = Total(yy, F) + yy[t]
    BY <2>1, TotalAdd
  <2> QED
    BY <1>2, <1>7, <2>2, <2>3 DEF F, zz, yy
<1>9. stats'.all = stats.all + Len(s) /\ stats'.bad = stats.bad + Fails(s)
  BY DEF Counted
<1>10. StatsExact'
  BY <1>5, <1>8, <1>9, StatsAre, StatsAreNext DEF StatsInv, StatsSum
<1> QED
  BY <1>1, <1>3, <1>10 DEF StatsInv

-----------------------------------------------------------------------------
(* Steps that add nothing to the report: tests are queued or skipped, and  *)
(* the queue goes on when nothing is waited for                            *)
Silent ==
  /\ UNCHANGED << assertions, stats, globals, pollution, semaphore, pending, early, current >>
  /\ \A u \in All : phase'[u] = phase[u]
                    \/ (u \in Tests /\ phase[u] = "new" /\ phase'[u] \in {"queued", "skipped"})
  /\ blocking /\ ~blocking' => pending = {} \/ semaphore = 0

Telling ==
  \/ SetupStep \/ RunStep \/ TeardownStep \/ FinishStep \/ TimeoutFires
  \/ \E c \in pending : Callback(c[1], c[2]) \/ CallbackOutside(c[1], c[2])

LEMMA SilentOrTelling == RunnerInv /\ [Next]_vars => Silent \/ Telling
<1> SUFFICES ASSUME RunnerInv, [Next]_vars, ~Telling PROVE Silent
  OBVIOUS
<1>0. Rest
  BY MovedAndRest
<1>1. CASE SynchronizeStep \/ Yield \/ InitStep \/ LaterStep \/ UNCHANGED vars
  BY <1>1 DEF Silent, SynchronizeStep, Yield, InitStep, LaterStep, vars, control, timers, results, window, page
<1>2. CASE ProcessEnds
  BY <1>2 DEF Silent, ProcessEnds, window
<1>3. CASE \E last \in BOOLEAN : NextTimer(last)
  BY <1>3 DEF Silent, NextTimer, results, window, page
<1>4. CASE StartTimer
  <2>1. /\ UNCHANGED << assertions, stats, globals, pollution, semaphore, pending, early, current, phase >>
        /\ semaphore > 0 => blocking' = blocking
    BY <1>4 DEF StartTimer, results, window, page
  <2>2. semaphore > 0 \/ semaphore = 0
    BY <1>0 DEF Rest
  <2> QED
    BY <2>1, <2>2 DEF Silent
<1>5. CASE Load
  <2>1. UNCHANGED << assertions, stats, globals, pollution, semaphore, pending, early, current, phase >> /\ ~loaded
    BY <1>5 DEF Load, results, window
  <2>2. pending = {}
    BY <1>0, <2>1 DEF Rest, LoadInv
  <2> QED
    BY <2>1, <2>2 DEF Silent
<1>6. CASE \E t \in Tests : Register(t)
  <2>1. PICK t \in Tests : Register(t)
    BY <1>6
  <2>2. /\ UNCHANGED << assertions, stats, globals, pollution, semaphore, pending, early, current, blocking >>
        /\ t = registered + 1 /\ phase' = [phase EXCEPT ![t] = IF validTest(t) THEN "queued" ELSE "skipped"]
    BY <2>1 DEF Register, results, window
  <2>3. t > registered /\ phase \in [All -> Phases] /\ t \in All
    BY <1>0, <2>2 DEF Rest, All
  <2>4. phase[t] = "new"
    BY <1>0, <2>3 DEF Rest, LoadInv
  <2>5. \A u \in All : phase'[u] = phase[u]
                       \/ (u \in Tests /\ phase[u] = "new" /\ phase'[u] \in {"queued", "skipped"})
    BY <2>2, <2>3, <2>4
  <2> QED
    BY <2>2, <2>5 DEF Silent
<1>7. \/ Step \/ Timer \/ Load \/ (\E t \in Tests : Register(t)) \/ UNCHANGED vars
  BY DEF Next, Telling
<1> QED
  BY <1>1, <1>2, <1>3, <1>4, <1>5, <1>6, <1>7 DEF Step, Timer, Telling

(* A step s of the test at the head of the queue                           *)
LEMMA TakenTest ==
  ASSUME RunnerInv, NEW s \in Four, Taking(s),
         phase' = [phase EXCEPT ![Head(queue)[2]] = AfterStep(s)],
         UNCHANGED << stack, depth, autorun, loaded, failedBefore >>
  PROVE  /\ Head(queue)[2] \in All
         /\ phase[Head(queue)[2]] = BeforeStep(s) /\ phase'[Head(queue)[2]] = AfterStep(s)
         /\ \A u \in All : u # Head(queue)[2] => phase'[u] = phase[u]
         /\ ~blocking
BY StepTaken

LEMMA SetupIs ==
  ASSUME RunnerInv, SetupStep
  PROVE  \E t \in All :
           /\ phase[t] = "queued" /\ phase' = [phase EXCEPT ![t] = "setup"] /\ ~blocking /\ current' = t
           /\ pollution' = IF pollution = NONE THEN globals ELSE pollution
           /\ UNCHANGED << assertions, stats, globals, semaphore, pending, early, blocking >>
<1> DEFINE t == Head(queue)[2]
<1>1. "setup" \in Four /\ AfterStep("setup") = "setup" /\ BeforeStep("setup") = "queued"
  BY DEF Four, AfterStep, BeforeStep
<1>2. /\ Taking("setup") /\ phase' = [phase EXCEPT ![t] = "setup"] /\ current' = t
      /\ UNCHANGED << stack, depth, autorun, loaded, failedBefore >>
      /\ pollution' = IF pollution = NONE THEN globals ELSE pollution
      /\ UNCHANGED << assertions, stats, globals, semaphore, pending, early, blocking >>
  BY DEF SetupStep, saveGlobal, page
<1>3. t \in All /\ phase[t] = "queued" /\ ~blocking
  BY <1>1, <1>2, TakenTest
<1> HIDE DEF t
<1> QED
  BY <1>2, <1>3

LEMMA RunIs ==
  ASSUME RunnerInv, RunStep
  PROVE  \E t \in All :
           /\ phase[t] = "setup" /\ phase' = [phase EXCEPT ![t] = "run"] /\ ~blocking /\ current' = t
           /\ assertions' = [assertions EXCEPT ![t] =
                @ \o Passes(t, BodyOf(t).asserts) \o IF BodyOf(t).dies THEN Failure(t) ELSE << >>]
           /\ globals' = IF BodyOf(t).leaks THEN globals \cup {t} ELSE globals
           /\ pollution' = IF BodyOf(t).dies THEN globals' ELSE pollution
           /\ blocking' = (BodyOf(t).stops > 0)
           /\ semaphore' = started(semaphore + BodyOf(t).stops,
                                   IF BodyOf(t).dies /\ BodyOf(t).stops > 0 THEN 1 ELSE 0).semaphore
           /\ pending' = pending \cup {<< t, k >> : k \in DOMAIN BodyOf(t).later}
           /\ early' = (early \/ (BodyOf(t).dies /\ BodyOf(t).stops > 0))
           /\ UNCHANGED stats
<1> DEFINE t == Head(queue)[2]
<1>1. "run" \in Four /\ AfterStep("run") = "run" /\ BeforeStep("run") = "setup"
  BY DEF Four, AfterStep, BeforeStep
<1>2. /\ Taking("run") /\ phase' = [phase EXCEPT ![t] = "run"] /\ current' = t
      /\ UNCHANGED << stack, depth, autorun, loaded, failedBefore, stats >>
      /\ assertions' = [assertions EXCEPT ![t] =
           @ \o Passes(t, BodyOf(t).asserts) \o IF BodyOf(t).dies THEN Failure(t) ELSE << >>]
      /\ globals' = IF BodyOf(t).leaks THEN globals \cup {t} ELSE globals
      /\ pollution' = IF BodyOf(t).dies THEN globals' ELSE pollution
      /\ blocking' = (BodyOf(t).stops > 0)
      /\ semaphore' = started(semaphore + BodyOf(t).stops,
                              IF BodyOf(t).dies /\ BodyOf(t).stops > 0 THEN 1 ELSE 0).semaphore
      /\ pending' = pending \cup {<< t, k >> : k \in DOMAIN BodyOf(t).later}
      /\ early' = (early \/ (BodyOf(t).dies /\ BodyOf(t).stops > 0))
  BY DEF RunStep, BodyOf
<1>3. t \in All /\ phase[t] = "setup" /\ ~blocking
  BY <1>1, <1>2, TakenTest
<1> HIDE DEF t
<1> QED
  BY <1>2, <1>3

LEMMA TeardownIs ==
  ASSUME RunnerInv, TeardownStep
  PROVE  \E t \in All :
           /\ phase[t] = "run" /\ phase' = [phase EXCEPT ![t] = "teardown"] /\ ~blocking /\ current' = t
           /\ assertions' = [assertions EXCEPT ![t] =
                @ \o (IF globals \ pollution # {} THEN Failure(t) ELSE << >>)
                  \o (IF pollution \ globals # {} THEN Failure(t) ELSE << >>)]
           /\ pollution' = globals
           /\ UNCHANGED << stats, globals, semaphore, pending, early, blocking >>
<1> DEFINE t == Head(queue)[2]
<1>1. "teardown" \in Four /\ AfterStep("teardown") = "teardown" /\ BeforeStep("teardown") = "run"
  BY DEF Four, AfterStep, BeforeStep
<1>2. /\ Taking("teardown") /\ phase' = [phase EXCEPT ![t] = "teardown"] /\ current' = t
      /\ UNCHANGED << stack, depth, autorun, loaded, failedBefore >>
      /\ assertions' = [assertions EXCEPT ![t] =
           @ \o (IF globals \ pollution # {} THEN Failure(t) ELSE << >>)
             \o (IF pollution \ globals # {} THEN Failure(t) ELSE << >>)]
      /\ pollution' = globals
      /\ UNCHANGED << stats, globals, semaphore, pending, early, blocking >>
  BY DEF TeardownStep, checkPollution, saveGlobal, page
<1>3. t \in All /\ phase[t] = "run" /\ ~blocking
  BY <1>1, <1>2, TakenTest
<1> HIDE DEF t
<1> QED
  BY <1>2, <1>3

LEMMA FinishIs ==
  ASSUME RunnerInv, FinishStep
  PROVE  \E t \in All : \E s :
           /\ phase[t] = "teardown" /\ phase' = [phase EXCEPT ![t] = "finished"] /\ ~blocking /\ current' = NONE
           /\ s = assertions[t] \o IF Unexpected(t) THEN Failure(t) ELSE << >>
           /\ assertions' = [assertions EXCEPT ![t] = s] /\ stats' = Counted(stats, s)
           /\ UNCHANGED << globals, pollution, semaphore, pending, early, blocking >>
<1> DEFINE t == Head(queue)[2]
           s == assertions[t] \o IF Unexpected(t) THEN Failure(t) ELSE << >>
<1>1. "finish" \in Four /\ AfterStep("finish") = "finished" /\ BeforeStep("finish") = "teardown"
  BY DEF Four, AfterStep, BeforeStep
<1>2. /\ Taking("finish") /\ phase' = [phase EXCEPT ![t] = "finished"] /\ current' = NONE
      /\ UNCHANGED << stack, depth, autorun, loaded, failedBefore >>
      /\ assertions' = [assertions EXCEPT ![t] = s] /\ stats' = Counted(stats, s)
      /\ UNCHANGED << globals, pollution, semaphore, pending, early, blocking >>
  BY DEF FinishStep, window, page
<1>3. t \in All /\ phase[t] = "teardown" /\ ~blocking
  BY <1>1, <1>2, TakenTest
<1>4. s = assertions[t] \o IF Unexpected(t) THEN Failure(t) ELSE << >>
  OBVIOUS
<1> HIDE DEF t, s
<1> QED
  BY <1>2, <1>3, <1>4

-----------------------------------------------------------------------------
LEMMA IfNote ==
  ASSUME NEW t \in All, NEW c
  PROVE  /\ (IF c THEN Failure(t) ELSE << >>) \in Seq(Notes)
         /\ HasFail(IF c THEN Failure(t) ELSE << >>) <=> c
         /\ Len(IF c THEN Failure(t) ELSE << >>) = IF c THEN 1 ELSE 0
<1>1. CASE c
  BY <1>1, NoteFacts
<1>2. CASE ~c
  BY <1>2, NoteFacts
<1> QED
  BY <1>1, <1>2

(* What a test has to show when its body has run, and at its teardown      *)
LEMMA RunNotes ==
  ASSUME NEW t \in All, NEW a \in Seq(Notes)
  PROVE  LET s == a \o Passes(t, BodyOf(t).asserts) \o IF BodyOf(t).dies THEN Failure(t) ELSE << >>
         IN /\ s \in Seq(Notes)
            /\ Len(s) = Len(a) + Len(BodyOf(t).asserts) + IF BodyOf(t).dies THEN 1 ELSE 0
            /\ HasFail(s) <=> \/ HasFail(a) \/ BodyOf(t).dies
                              \/ \E i \in DOMAIN BodyOf(t).asserts : ~BodyOf(t).asserts[i]
<1> DEFINE p == Passes(t, BodyOf(t).asserts)
           f == IF BodyOf(t).dies THEN Failure(t) ELSE << >>
<1>1. BodyOf(t).asserts \in Seq(BOOLEAN)
  BY BodyOfFacts
<1>2. /\ p \in Seq(Notes) /\ Len(p) = Len(BodyOf(t).asserts)
      /\ HasFail(p) <=> \E i \in DOMAIN BodyOf(t).asserts : ~BodyOf(t).asserts[i]
  BY <1>1, PassesFacts
<1>3. /\ f \in Seq(Notes) /\ (HasFail(f) <=> BodyOf(t).dies)
      /\ Len(f) = IF BodyOf(t).dies THEN 1 ELSE 0
  BY IfNote
<1> HIDE DEF p, f
<1>4. /\ a \o p \in Seq(Notes) /\ Len(a \o p) = Len(a) + Len(p)
      /\ HasFail(a \o p) <=> HasFail(a) \/ HasFail(p)
  BY <1>2, HasFailCat
<1>5. /\ (a \o p) \o f \in Seq(Notes) /\ Len((a \o p) \o f) = Len(a \o p) + Len(f)
      /\ HasFail((a \o p) \o f) <=> HasFail(a \o p) \/ HasFail(f)
  BY <1>3, <1>4, HasFailCat
<1>6. /\ (a \o p) \o f \in Seq(Notes)
      /\ Len((a \o p) \o f) = Len(a) + Len(BodyOf(t).asserts) + IF BodyOf(t).dies THEN 1 ELSE 0
  BY <1>2, <1>3, <1>4, <1>5
<1>7. HasFail((a \o p) \o f) <=> \/ HasFail(a) \/ BodyOf(t).dies
                                 \/ \E i \in DOMAIN BodyOf(t).asserts : ~BodyOf(t).asserts[i]
  BY <1>2, <1>3, <1>4, <1>5
<1> QED
  BY <1>6, <1>7 DEF p, f

LEMMA TwoNotes ==
  ASSUME NEW t \in All, NEW a \in Seq(Notes), NEW c, NEW d
  PROVE  LET s == a \o (IF c THEN Failure(t) ELSE << >>) \o (IF d THEN Failure(t) ELSE << >>)
         IN /\ s \in Seq(Notes) /\ (HasFail(s) <=> HasFail(a) \/ c \/ d)
            /\ ~c /\ ~d => Len(s) = Len(a)
<1> DEFINE p == IF c THEN Failure(t) ELSE << >>
           f == IF d THEN Failure(t) ELSE << >>
<1>1. p \in Seq(Notes) /\ (HasFail(p) <=> c) /\ Len(p) = IF c THEN 1 ELSE 0
  BY IfNote
<1>2. f \in Seq(Notes) /\ (HasFail(f) <=> d) /\ Len(f) = IF d THEN 1 ELSE 0
  BY IfNote
<1> HIDE DEF p, f
<1>3. /\ a \o p \in Seq(Notes) /\ Len(a \o p) = Len(a) + Len(p)
      /\ HasFail(a \o p) <=> HasFail(a) \/ HasFail(p)
  BY <1>1, HasFailCat
<1>4. /\ (a \o p) \o f \in Seq(Notes) /\ Len((a \o p) \o f) = Len(a \o p) + Len(f)
      /\ HasFail((a \o p) \o f) <=> HasFail(a \o p) \/ HasFail(f)
  BY <1>2, <1>3, HasFailCat
<1>5. Len(a) \in Nat
  OBVIOUS
<1>6. ~c /\ ~d => Len((a \o p) \o f) = Len(a)
  BY <1>1, <1>2, <1>3, <1>4, <1>5
<1>7. (a \o p) \o f \in Seq(Notes) /\ (HasFail((a \o p) \o f) <=> HasFail(a) \/ c \/ d)
  BY <1>1, <1>2, <1>3, <1>4
<1> QED
  BY <1>6, <1>7 DEF p, f

LEMMA OneNote ==
  ASSUME NEW t \in All, NEW a \in Seq(Notes), NEW c
  PROVE  LET s == a \o IF c THEN Failure(t) ELSE << >>
         IN s \in Seq(Notes) /\ (HasFail(s) <=> HasFail(a) \/ c)
BY IfNote, HasFailCat

(* The assertions of a callback go to the test that is current             *)
LEMMA CallbackIs ==
  ASSUME RunnerInv, NEW c \in pending, Callback(c[1], c[2])
  PROVE  /\ c[1] \in Tests /\ c[2] \in DOMAIN Body[c[1]].later
         /\ assertions' = IF current = NONE THEN assertions
                          ELSE [assertions EXCEPT ![current] = @ \o Passes(c[1], Body[c[1]].later[c[2]].asserts)]
         /\ semaphore' = started(semaphore, Body[c[1]].later[c[2]].starts).semaphore
         /\ pending' = pending \ {<< c[1], c[2] >>} /\ << c[1], c[2] >> \in pending
         /\ UNCHANGED << stats, globals, pollution, early, current, phase, blocking >>
<1>1. c[1] \in Tests /\ c[2] \in DOMAIN Body[c[1]].later
  BY DEF RunnerInv, RunnerTypes
<1> QED
  BY <1>1 DEF Callback, window, page

LEMMA StatsStart == Init => StatsInv
<1> SUFFICES ASSUME Init PROVE StatsInv
  OBVIOUS
<1>1. Finished = {} /\ stats.all = 0 /\ stats.bad = 0
  BY DEF Init, Finished
<1>2. assertions \in [All -> Seq(Notes)]
  BY DEF Init
<1>3. StatsExact
  BY <1>1, TotalEmpty, StatsAre DEF StatsSum
<1> QED
  BY <1>1, <1>2, <1>3, FS_EmptySet DEF StatsInv

-----------------------------------------------------------------------------
LEMMA StatsStep == RunnerInv /\ StatsInv /\ [Next]_vars => StatsInv'
<1> SUFFICES ASSUME RunnerInv, StatsInv, [Next]_vars PROVE StatsInv'
  OBVIOUS
<1>0. assertions \in [All -> Seq(Notes)] /\ phase \in [All -> Phases]
  BY DEF StatsInv, RunnerInv, RunnerTypes
<1>1. CASE Silent
  <2>1. /\ assertions' = assertions /\ stats' = stats
        /\ \A u \in All : phase'[u] = "finished" <=> phase[u] = "finished"
    BY <1>1 DEF Silent
  <2> QED
    BY <1>0, <2>1, StatsStay
<1>2. CASE SetupStep
  <2>1. PICK t \in All : phase[t] = "queued" /\ phase' = [phase EXCEPT ![t] = "setup"]
                         /\ UNCHANGED << assertions, stats >>
    BY <1>2, SetupIs
  <2>2. \A u \in All : phase'[u] = "finished" <=> phase[u] = "finished"
    BY <1>0, <2>1
  <2> QED
    BY <1>0, <2>1, <2>2, StatsStay
<1>3. CASE RunStep
  <2>1. PICK t \in All :
           /\ phase[t] = "setup" /\ phase' = [phase EXCEPT ![t] = "run"] /\ UNCHANGED stats
           /\ assertions' = [assertions EXCEPT ![t] =
                @ \o Passes(t, BodyOf(t).asserts) \o IF BodyOf(t).dies THEN Failure(t) ELSE << >>]
    BY <1>3, RunIs
  <2>2. \A u \in All : phase'[u] = "finished" <=> phase[u] = "finished"
    BY <1>0, <2>1
  <2>3. assertions[t] \o Passes(t, BodyOf(t).asserts) \o (IF BodyOf(t).dies THEN Failure(t) ELSE << >>) \in Seq(Notes)
    BY <1>0, RunNotes
  <2>4. assertions' \in [All -> Seq(Notes)] /\ \A u \in All : u # t => assertions'[u] = assertions[u]
    BY <1>0, <2>1, <2>3
  <2> QED
    BY <2>1, <2>2, <2>4, StatsStay
<1>4. CASE TeardownStep
  <2>1. PICK t \in All :
           /\ phase[t] = "run" /\ phase' = [phase EXCEPT ![t] = "teardown"] /\ UNCHANGED stats
           /\ assertions' = [assertions EXCEPT ![t] =
                @ \o (IF globals \ pollution # {} THEN Failure(t) ELSE << >>)
                  \o (IF pollution \ globals # {} THEN Failure(t) ELSE << >>)]
    BY <1>4, TeardownIs
  <2>2. \A u \in All : phase'[u] = "finished" <=> phase[u] = "finished"
    BY <1>0, <2>1
  <2>3. assertions[t] \o (IF globals \ pollution # {} THEN Failure(t) ELSE << >>)
                      \o (IF pollution \ globals # {} THEN Failure(t) ELSE << >>) \in Seq(Notes)
    BY <1>0, TwoNotes
  <2>4. assertions' \in [All -> Seq(Notes)] /\ \A u \in All : u # t => assertions'[u] = assertions[u]
    BY <1>0, <2>1, <2>3
  <2> QED
    BY <2>1, <2>2, <2>4, StatsStay
<1>5. CASE FinishStep
  <2>1. PICK t \in All : \E s :
           /\ phase[t] = "teardown" /\ phase' = [phase EXCEPT ![t] = "finished"]
           /\ s = assertions[t] \o IF Unexpected(t) THEN Failure(t) ELSE << >>
           /\ assertions' = [assertions EXCEPT ![t] = s] /\ stats' = Counted(stats, s)
    BY <1>5, FinishIs
  <2>2. PICK s : /\ phase[t] = "teardown" /\ phase' = [phase EXCEPT ![t] = "finished"]
                 /\ s = assertions[t] \o IF Unexpected(t) THEN Failure(t) ELSE << >>
                 /\ assertions' = [assertions EXCEPT ![t] = s] /\ stats' = Counted(stats, s)
    BY <2>1
  <2>3. s \in Seq(Notes)
    BY <1>0, <2>2, OneNote
  <2> QED
    BY <1>0, <2>2, <2>3, StatsAdd
<1>6. CASE TimeoutFires
  <2>1. /\ timeout /\ assertions' = [assertions EXCEPT ![current] = @ \o Failure(current)]
        /\ UNCHANGED << stats, phase >>
    BY <1>6 DEF TimeoutFires
  <2>2. current \in All /\ phase[current] # "finished"
    BY <2>1 DEF RunnerInv, RunnerTypes, WaitInv, Active
  <2>3. assertions[current] \o Failure(current) \in Seq(Notes)
    BY <1>0, <2>2, NoteFacts, HasFailCat
  <2>4. assertions' \in [All -> Seq(Notes)] /\ \A u \in All : u # current => assertions'[u] = assertions[u]
    BY <1>0, <2>1, <2>2, <2>3
  <2> QED
    BY <2>1, <2>2, <2>4, StatsStay
<1>7. CASE \E c \in pending : Callback(c[1], c[2])
  <2>1. PICK c \in pending : Callback(c[1], c[2])
    BY <1>7
  <2> DEFINE t == c[1]
             asserts == Body[c[1]].later[c[2]].asserts
  <2>2. /\ t \in Tests /\ c[2] \in DOMAIN Body[c[1]].later
        /\ assertions' = IF current = NONE THEN assertions
                         ELSE [assertions EXCEPT ![current] = @ \o Passes(t, asserts)]
        /\ UNCHANGED << stats, phase >>
    BY <2>1, CallbackIs
  <2>3. asserts \in Seq(BOOLEAN) /\ t \in All
    BY <2>2, BodyFacts DEF All
  <2> HIDE DEF t, asserts
  <2>4. CASE current = NONE
    BY <1>0, <2>2, <2>4, StatsStay
  <2>5. CASE current # NONE
    <3>1. current \in All /\ phase[current] # "finished"
      BY <2>5 DEF RunnerInv, RunnerTypes, WaitInv, Active
    <3>2. assertions[current] \o Passes(t, asserts) \in Seq(Notes)
      BY <1>0, <2>3, <3>1, PassesFacts, HasFailCat
    <3>3. assertions' \in [All -> Seq(Notes)] /\ \A u \in All : u # current => assertions'[u] = assertions[u]
      BY <1>0, <2>2, <2>5, <3>1, <3>2
    <3> QED
      BY <2>2, <3>1, <3>3, StatsStay
  <2> QED
    BY <2>4, <2>5
<1>8. CASE \E c \in pending : CallbackOutside(c[1], c[2])
  <2>1. PICK c \in pending : CallbackOutside(c[1], c[2])
    BY <1>8
  <2>2. PICK g \in Spares : phase[g] = "new" /\ phase' = [phase EXCEPT ![g] = "queued"]
    BY <2>1 DEF CallbackOutside
  <2>3. UNCHANGED << assertions, stats >>
    BY <2>1 DEF CallbackOutside, results
  <2>4. \A u \in All : phase'[u] = "finished" <=> phase[u] = "finished"
    BY <1>0, <2>2
  <2> QED
    BY <1>0, <2>3, <2>4, StatsStay
<1> QED
  BY <1>1, <1>2, <1>3, <1>4, <1>5, <1>6, <1>7, <1>8, SilentOrTelling DEF Telling

LEMMA RunnerTypesOk == RunnerInv => TypeOK
<1> SUFFICES ASSUME RunnerInv PROVE TypeOK
  OBVIOUS
<1>0. PICK r : Unwinds(stack, r, depth) /\ ListOk(queue \o r, phase, autorun, loaded, failedBefore)
  BY DEF RunnerInv, QueueInv
<1>1. depth \in Nat
  <2>1. stack \in Seq(Frames) /\ Unwinds(stack, r, depth)
    BY <1>0 DEF RunnerInv, RunnerTypes
  <2> QED
    BY <2>1, UnwindTypes
<1>2. RunnerTypes /\ WaitInv
  BY DEF RunnerInv
<1> QED
  BY <1>1, <1>2 DEF TypeOK, RunnerTypes, WaitInv, Phases

(* The totals need no assumption about the bodies                          *)
LEMMA TotalsAlways == Spec => [](RunnerInv /\ StatsInv)
<1>1. Init => RunnerInv /\ StatsInv
  BY RunnerStart, StatsStart
<1>2. (RunnerInv /\ StatsInv) /\ [Next]_vars => (RunnerInv /\ StatsInv)'
  BY RunnerStep, StatsStep
<1> QED
  BY <1>1, <1>2, PTL DEF Spec

\* For any bodies, whatever they call too often or not at all, the totals of
\* the report are the sums over the finished tests, each counted once, late
\* failures included (finish, pushFailure, the callbacks of stop()).
THEOREM TotalsAreExact == Spec => []StatsExact
<1>1. StatsInv => StatsExact
  BY DEF StatsInv
<1> QED
  BY <1>1, TotalsAlways, PTL

-----------------------------------------------------------------------------
(* The assertions of the callbacks K of test t                             *)
Parts(t, K) == UNION {{<< k, i >> : i \in DOMAIN Body[t].later[k].asserts} : k \in K}

LEMMA PartsFacts ==
  ASSUME NEW t
  PROVE  /\ Parts(t, {}) = {}
         /\ LaterAsserts(t) = Parts(t, DOMAIN Body[t].later)
BY DEF Parts, LaterAsserts

(* Tagged pairs are as many as what is tagged                              *)
LEMMA Tagged ==
  ASSUME NEW k, NEW n \in Nat
  PROVE  LET T == {<< k, i >> : i \in 1 .. n} IN IsFiniteSet(T) /\ Cardinality(T) = n
<1> DEFINE T == {<< k, i >> : i \in 1 .. n}
           f == [i \in 1 .. n |-> << k, i >>]
<1>1. f \in [1 .. n -> T]
  OBVIOUS
<1>2. f \in Injection(1 .. n, T)
  BY <1>1 DEF Injection, IsInjective
<1>3. f \in Surjection(1 .. n, T)
  BY <1>1 DEF Surjection
<1>4. ExistsBijection(1 .. n, T)
  BY <1>2, <1>3 DEF Bijection, ExistsBijection
<1> HIDE DEF T, f
<1>5. IsFiniteSet(1 .. n) /\ Cardinality(1 .. n) = n
  BY FS_Interval
<1>6. IsFiniteSet(T) /\ Cardinality(T) = n
  BY <1>4, <1>5, FS_Bijection
<1> QED
  BY <1>6 DEF T

LEMMA PartsAdd ==
  ASSUME NEW t \in Tests, NEW K, IsFiniteSet(Parts(t, K)), NEW k \in DOMAIN Body[t].later, k \notin K
  PROVE  /\ IsFiniteSet(Parts(t, K \cup {k}))
         /\ Cardinality(Parts(t, K \cup {k})) = Cardinality(Parts(t, K)) + Len(Body[t].later[k].asserts)
         /\ Parts(t, K \cup {k}) = Parts(t, K) \cup {<< k, i >> : i \in DOMAIN Body[t].later[k].asserts}
<1> DEFINE n == Len(Body[t].later[k].asserts)
           T == {<< k, i >> : i \in 1 .. n}
           P == Parts(t, K)
<1>1. n \in Nat /\ DOMAIN Body[t].later[k].asserts = 1 .. n
  <2> DEFINE a == Body[t].later[k].asserts
  <2>1. a \in Seq(BOOLEAN)
    BY BodyFacts
  <2> HIDE DEF a
  <2>2. Len(a) \in Nat /\ DOMAIN a = 1 .. Len(a)
    BY <2>1
  <2> QED
    BY <2>2 DEF a
<1>2. Parts(t, K \cup {k}) = P \cup {<< k, i >> : i \in DOMAIN Body[t].later[k].asserts}
  BY DEF Parts
<1>3. \A x \in P : \E j \in K : \E i : x = << j, i >>
  BY DEF Parts
<1>4. P \cap T = {}
  BY <1>3
<1>5. IsFiniteSet(T) /\ Cardinality(T) = n
  BY <1>1, Tagged
<1>6. {<< k, i >> : i \in DOMAIN Body[t].later[k].asserts} = T
  BY <1>1
<1>7. IsFiniteSet(P)
  OBVIOUS
<1>8. n = Len(Body[t].later[k].asserts)
  OBVIOUS
<1> HIDE DEF P, T, n
<1>9. Cardinality(P) \in Nat /\ Cardinality(T) \in Nat
  BY <1>5, <1>7, FS_CardinalityType
<1>10. IsFiniteSet(P \cup T) /\ Cardinality(P \cup T) = Cardinality(P) + Cardinality(T) - Cardinality(P \cap T)
  BY <1>5, <1>7, FS_Union
<1>11. Cardinality(P \cup T) = Cardinality(P) + n
  <2>1. Cardinality(P \cap T) = 0
    BY <1>4, FS_EmptySet
  <2>2. Cardinality(P \cup T) = Cardinality(P) + n - 0
    BY <1>5, <1>10, <2>1
  <2> QED
    BY <1>5, <1>9, <2>2
<1>12. Parts(t, K \cup {k}) = P \cup T
  BY <1>2, <1>6
<1> QED
  BY <1>2, <1>8, <1>10, <1>11, <1>12 DEF P

LEMMA PartsFinite ==
  ASSUME NEW t \in Tests, NEW K, K \subseteq DOMAIN Body[t].later
  PROVE  IsFiniteSet(Parts(t, K)) /\ Cardinality(Parts(t, K)) \in Nat
<1> DEFINE Bad == {L \in SUBSET K : ~IsFiniteSet(Parts(t, L))}
<1>0. IsFiniteSet(K)
  <2> DEFINE l == Body[t].later
             S == [asserts : Seq(BOOLEAN), starts : Nat]
  <2>1. l \in Seq(S)
    BY BodyFacts
  <2>2. K \subseteq DOMAIN l
    OBVIOUS
  <2> HIDE DEF l, S
  <2>3. DOMAIN l = 1 .. Len(l) /\ Len(l) \in Int
    BY <2>1
  <2>4. IsFiniteSet(DOMAIN l)
    BY <2>3, FS_Interval
  <2> QED
    BY <2>2, <2>4, FS_Subset
<1>1. Bad = {}
  <2> SUFFICES ASSUME Bad # {} PROVE FALSE
    OBVIOUS
  <2>1. PICK L \in Bad : \A M \in SUBSET L : M # L => M \notin Bad
    <3>1. Bad \subseteq SUBSET K
      OBVIOUS
    <3> HIDE DEF Bad
    <3> QED
      BY <1>0, <3>1, MinimalSet
  <2>2. L \subseteq K /\ ~IsFiniteSet(Parts(t, L))
    OBVIOUS
  <2>3. CASE L = {}
    BY <2>2, <2>3, PartsFacts, FS_EmptySet
  <2>4. CASE L # {}
    <3>1. PICK k : k \in L
      BY <2>4
    <3>2. L \ {k} \in SUBSET L /\ L \ {k} # L /\ L = (L \ {k}) \cup {k} /\ k \in DOMAIN Body[t].later /\ k \notin L \ {k}
      BY <2>2, <3>1
    <3>3. IsFiniteSet(Parts(t, L \ {k}))
      BY <2>1, <2>2, <3>2
    <3> DEFINE M == L \ {k}
    <3>4. IsFiniteSet(Parts(t, M)) /\ L = M \cup {k} /\ k \notin M /\ k \in DOMAIN Body[t].later
      BY <3>2, <3>3
    <3> HIDE DEF M
    <3>5. IsFiniteSet(Parts(t, M \cup {k}))
      BY <3>4, PartsAdd
    <3> QED
      BY <2>2, <3>4, <3>5
  <2> QED
    BY <2>3, <2>4
<1>2. IsFiniteSet(Parts(t, K))
  BY <1>1
<1> QED
  BY <1>2, FS_CardinalityType

-----------------------------------------------------------------------------
(* While no test is left behind: the callbacks to come are those of the    *)
(* current test, whose body has run, and each will call start() once       *)
WaitsFor ==
  /\ IsFiniteSet(pending) /\ semaphore = Cardinality(pending)
  /\ pending # {} => blocking /\ current # NONE /\ phase[current] = "run" /\ \A c \in pending : c[1] = current
  /\ \A g \in Spares : phase[g] = "new"

LEMMA NotSpare ==
  ASSUME WaitsFor, NEW t \in All, phase[t] # "new"
  PROVE  t \in Tests
BY DEF WaitsFor, All

LEMMA WaitsFacts ==
  ASSUME WaitsFor
  PROVE  /\ Cardinality(pending) \in Nat /\ semaphore = Cardinality(pending)
         /\ semaphore = 0 <=> pending = {}
         /\ ~blocking => pending = {}
BY FS_CardinalityType, FS_EmptySet DEF WaitsFor

(* The callbacks of a test, as pairs with it                               *)
LEMMA CallbacksOf ==
  ASSUME Orderly, NEW t \in Tests
  PROVE  LET P == {<< t, k >> : k \in DOMAIN Body[t].later}
         IN IsFiniteSet(P) /\ Cardinality(P) = Body[t].stops
<1> DEFINE l == Body[t].later
           S == [asserts : Seq(BOOLEAN), starts : Nat]
<1>1. l \in Seq(S) /\ Len(l) = Body[t].stops
  BY BodyFacts DEF Orderly
<1> HIDE DEF l, S
<1>2. Len(l) \in Nat /\ DOMAIN l = 1 .. Len(l)
  BY <1>1
<1> DEFINE n == Len(l)
           T == {<< t, k >> : k \in 1 .. n}
<1>3. n \in Nat
  BY <1>2
<1> HIDE DEF n
<1>4. IsFiniteSet(T) /\ Cardinality(T) = n
  BY <1>3, Tagged
<1>5. {<< t, k >> : k \in DOMAIN l} = T
  BY <1>2 DEF n
<1> HIDE DEF T
<1> QED
  BY <1>1, <1>4, <1>5 DEF l, n

LEMMA SparesAre == Spares \subseteq All /\ \A g \in Spares : g \notin Tests
BY QUnitAssumption DEF All

LEMMA WaitsStep ==
  ASSUME Orderly, RunnerInv, WaitsFor, ~early, ~early', [Next]_vars
  PROVE  WaitsFor'
<1>0. phase \in [All -> Phases]
  BY DEF RunnerInv, RunnerTypes
<1>w. /\ Cardinality(pending) \in Nat /\ semaphore = Cardinality(pending) /\ IsFiniteSet(pending)
      /\ semaphore = 0 <=> pending = {}
      /\ ~blocking => pending = {}
  BY WaitsFacts DEF WaitsFor
<1>s. \A g \in Spares : phase[g] = "new" /\ g \in All /\ g \notin Tests
  BY SparesAre DEF WaitsFor
<1>1. CASE Silent
  <2>1. UNCHANGED << semaphore, pending, current >>
    BY <1>1 DEF Silent
  <2>2. \A g \in Spares : phase'[g] = "new"
    BY <1>1, <1>s DEF Silent
  <2>3. CASE pending = {}
    BY <1>w, <2>1, <2>2, <2>3 DEF WaitsFor
  <2>4. CASE pending # {}
    <3>1. blocking /\ current # NONE /\ phase[current] = "run" /\ \A c \in pending : c[1] = current
      BY <2>4 DEF WaitsFor
    <3>2. blocking'
      BY <1>1, <1>w, <2>4, <3>1 DEF Silent
    <3>3. current \in All
      BY <3>1 DEF RunnerInv, RunnerTypes
    <3>4. phase'[current] = "run"
      BY <1>1, <3>1, <3>3 DEF Silent
    <3> QED
      BY <1>w, <2>1, <2>2, <3>1, <3>2, <3>4 DEF WaitsFor
  <2> QED
    BY <2>3, <2>4
<1>2. CASE SetupStep
  <2>1. PICK t \in All : /\ phase[t] = "queued" /\ phase' = [phase EXCEPT ![t] = "setup"] /\ ~blocking
                         /\ UNCHANGED << semaphore, pending >>
    BY <1>2, SetupIs
  <2>2. \A g \in Spares : phase'[g] = "new"
    BY <1>0, <1>s, <2>1
  <2> QED
    BY <1>w, <2>1, <2>2 DEF WaitsFor
<1>3. CASE RunStep
  <2>1. PICK t \in All :
           /\ phase[t] = "setup" /\ phase' = [phase EXCEPT ![t] = "run"] /\ ~blocking /\ current' = t
           /\ blocking' = (BodyOf(t).stops > 0)
           /\ semaphore' = started(semaphore + BodyOf(t).stops,
                                   IF BodyOf(t).dies /\ BodyOf(t).stops > 0 THEN 1 ELSE 0).semaphore
           /\ pending' = pending \cup {<< t, k >> : k \in DOMAIN BodyOf(t).later}
           /\ early' = (early \/ (BodyOf(t).dies /\ BodyOf(t).stops > 0))
    BY <1>3, RunIs
  <2>2. t \in Tests /\ t \notin Spares
    BY <2>1, <1>s, NotSpare
  <2>3. BodyOf(t) = Body[t] /\ Body[t].stops \in Nat
    BY <2>2, BodyFacts DEF BodyOf
  <2>4. pending = {} /\ semaphore = 0
    BY <1>w, <2>1
  <2> DEFINE P == {<< t, k >> : k \in DOMAIN Body[t].later}
  <2>5. IsFiniteSet(P) /\ Cardinality(P) = Body[t].stops
    BY <2>2, CallbacksOf
  <2>6. pending' = P /\ \A c \in P : c[1] = t
    BY <2>1, <2>3, <2>4
  <2>7. semaphore' = Body[t].stops
    <3>1. ~(Body[t].dies /\ Body[t].stops > 0)
      BY <2>1, <2>3
    <3>2. semaphore' = started(0 + Body[t].stops, 0).semaphore
      BY <2>1, <2>3, <2>4, <3>1
    <3> QED
      BY <2>3, <3>2 DEF started
  <2> HIDE DEF P
  <2>8. P # {} => Body[t].stops > 0
    BY <2>3, <2>5, FS_EmptySet
  <2>9. \A g \in Spares : phase'[g] = "new"
    BY <1>0, <1>s, <2>1
  <2>10. phase'[t] = "run" /\ t # NONE
    BY <1>0, <2>1, QUnitAssumption
  <2> QED
    BY <2>1, <2>3, <2>5, <2>6, <2>7, <2>8, <2>9, <2>10 DEF WaitsFor
<1>4. CASE TeardownStep
  <2>1. PICK t \in All : /\ phase[t] = "run" /\ phase' = [phase EXCEPT ![t] = "teardown"] /\ ~blocking
                         /\ UNCHANGED << semaphore, pending >>
    BY <1>4, TeardownIs
  <2>2. \A g \in Spares : phase'[g] = "new"
    BY <1>0, <1>s, <2>1
  <2> QED
    BY <1>w, <2>1, <2>2 DEF WaitsFor
<1>5. CASE FinishStep
  <2>1. PICK t \in All : /\ phase[t] = "teardown" /\ phase' = [phase EXCEPT ![t] = "finished"] /\ ~blocking
                         /\ UNCHANGED << semaphore, pending >>
    BY <1>5, FinishIs
  <2>2. \A g \in Spares : phase'[g] = "new"
    BY <1>0, <1>s, <2>1
  <2> QED
    BY <1>w, <2>1, <2>2 DEF WaitsFor
<1>6. CASE TimeoutFires
  BY <1>6 DEF TimeoutFires
<1>7. CASE \E c \in pending : Callback(c[1], c[2])
  <2>1. PICK c \in pending : Callback(c[1], c[2])
    BY <1>7
  <2>2. /\ c[1] \in Tests /\ c[2] \in DOMAIN Body[c[1]].later
        /\ semaphore' = started(semaphore, Body[c[1]].later[c[2]].starts).semaphore
        /\ pending' = pending \ {<< c[1], c[2] >>} /\ << c[1], c[2] >> \in pending
        /\ UNCHANGED << current, phase, blocking >>
    BY <2>1, CallbackIs
  <2>3. Body[c[1]].later[c[2]].starts = 1
    BY <2>2 DEF Orderly
  <2>4. semaphore \in Nat /\ semaphore # 0
    BY <1>w, <2>2
  <2>5. semaphore' = semaphore - 1
    BY <2>2, <2>3, <2>4 DEF started
  <2>6. IsFiniteSet(pending') /\ Cardinality(pending') = Cardinality(pending) - 1
    BY <1>w, <2>2, FS_RemoveElement
  <2>7. blocking /\ current # NONE /\ phase[current] = "run" /\ \A d \in pending : d[1] = current
    BY <2>2 DEF WaitsFor
  <2>8. \A d \in pending' : d[1] = current
    BY <2>2, <2>7
  <2> QED
    BY <1>w, <1>s, <2>2, <2>5, <2>6, <2>7, <2>8 DEF WaitsFor
<1>8. CASE \E c \in pending : CallbackOutside(c[1], c[2])
  <2>1. current = NONE /\ pending # {}
    BY <1>8 DEF CallbackOutside
  <2> QED
    BY <2>1 DEF WaitsFor
<1> QED
  BY <1>1, <1>2, <1>3, <1>4, <1>5, <1>6, <1>7, <1>8, SilentOrTelling DEF Telling

-----------------------------------------------------------------------------
SparesNew == \A g \in Spares : phase[g] = "new"
Alone == \A t, u \in All : phase[t] \in Active /\ phase[u] \in Active => t = u

LEMMA AloneNow == OneLate /\ RunnerInv /\ SparesNew => Alone
<1> SUFFICES ASSUME OneLate, RunnerInv, SparesNew, NEW t \in All, NEW u \in All,
                    phase[t] \in Active, phase[u] \in Active
             PROVE  t = u
  BY DEF Alone
<1>1. CASE autorun
  <2>1. \A v \in Plain : phase[v] \in {"skipped", "finished"}
    BY <1>1 DEF RunnerInv, LoadInv
  <2>2. t \in Late /\ u \in Late
    BY <2>1 DEF SparesNew, All, Plain, Active
  <2> QED
    BY <2>2 DEF OneLate
<1>2. CASE ~autorun
  <2>1. PICK r : Unwinds(stack, r, depth) /\ ListOk(queue \o r, phase, autorun, loaded, failedBefore)
    BY DEF RunnerInv, QueueInv
  <2> DEFINE w == queue \o r
  <2>2. w \in Seq(Jobs) /\ Adjacent(w) /\ \A v \in All : Agrees(w, v, phase[v])
    BY <1>2, <2>1 DEF ListOk
  <2> HIDE DEF w
  <2>3. w[1][2] = t
    BY <2>2, AtHead
  <2>4. w[1][2] = u
    BY <2>2, AtHead
  <2> QED
    BY <2>3, <2>4
<1> QED
  BY <1>1, <1>2

LEMMA AloneNext == OneLate /\ RunnerInv' /\ SparesNew' => Alone'
<1>1. (OneLate /\ RunnerInv /\ SparesNew => Alone)'
  BY AloneNow, PTL
<1>2. OneLate' = OneLate
  BY DEF OneLate
<1> QED
  BY <1>1, <1>2

(* The tests that have left a global variable which no teardown has seen   *)
Leaving == {t \in Tests : phase[t] = "run" /\ Body[t].leaks /\ ~Body[t].dies}
WindowOk ==
  \/ (\A t \in Tests : phase[t] \in {"new", "skipped", "queued"}) /\ globals = {} /\ pollution = NONE
  \/ /\ globals \subseteq {t \in Tests : phase[t] \in {"run", "teardown", "finished"}}
     /\ pollution \subseteq globals /\ globals \ pollution = Leaving

(* No other test than u has left one                                       *)
LEMMA OnlyOneLeaves ==
  ASSUME Orderly, RunnerInv, WaitsFor, NEW u \in Tests, phase[u] \in Active
  PROVE  Leaving \subseteq {u}
<1>1. CASE NoLeaks
  BY <1>1 DEF NoLeaks, Leaving
<1>2. CASE OneLate
  <2>1. Alone
    BY <1>2, AloneNow DEF SparesNew, WaitsFor
  <2> QED
    BY <2>1 DEF Alone, Leaving, Active, All
<1> QED
  BY <1>1, <1>2 DEF Orderly

LEMMA OnlyOneLeavesNext ==
  ASSUME Orderly, RunnerInv', WaitsFor', NEW u \in Tests, phase'[u] \in Active
  PROVE  Leaving' \subseteq {u}
<1>1. CASE NoLeaks
  BY <1>1 DEF NoLeaks, Leaving
<1>2. CASE OneLate
  <2>1. Alone'
    BY <1>2, AloneNext DEF SparesNew, WaitsFor
  <2> QED
    BY <2>1 DEF Alone, Leaving, Active, All
<1> QED
  BY <1>1, <1>2 DEF Orderly

LEMMA WindowStep ==
  ASSUME Orderly, RunnerInv, RunnerInv', WaitsFor, WaitsFor', WindowOk, ~early, ~early', [Next]_vars
  PROVE  WindowOk'
<1> DEFINE Begun == {t \in Tests : phase[t] \in {"run", "teardown", "finished"}}
<1>0. phase \in [All -> Phases] /\ Tests \subseteq All
  BY DEF RunnerInv, RunnerTypes, All
<1>1. CASE Silent
  <2>1. UNCHANGED << globals, pollution >>
    BY <1>1 DEF Silent
  <2>2. /\ Leaving' = Leaving /\ Begun' = Begun
        /\ \A t \in Tests : phase[t] \in {"new", "skipped", "queued"} => phase'[t] \in {"new", "skipped", "queued"}
    BY <1>0, <1>1 DEF Silent, Leaving
  <2> QED
    BY <2>1, <2>2 DEF WindowOk
<1>2. CASE SetupStep
  <2>1. PICK t \in All :
           /\ phase[t] = "queued" /\ phase' = [phase EXCEPT ![t] = "setup"]
           /\ pollution' = IF pollution = NONE THEN globals ELSE pollution
           /\ UNCHANGED globals
    BY <1>2, SetupIs
  <2>2. t \in Tests
    BY <2>1, NotSpare
  <2>3. Leaving' = Leaving /\ Begun' = Begun /\ phase'[t] = "setup"
    BY <1>0, <2>1 DEF Leaving
  <2>4. CASE (\A u \in Tests : phase[u] \in {"new", "skipped", "queued"}) /\ globals = {} /\ pollution = NONE
    <3>1. Leaving' = {}
      BY <2>3, <2>4 DEF Leaving
    <3> QED
      BY <2>1, <2>4, <3>1 DEF WindowOk
  <2>5. CASE globals \subseteq Begun /\ pollution \subseteq globals /\ globals \ pollution = Leaving
    <3>1. CASE pollution # NONE
      BY <2>1, <2>3, <2>5, <3>1 DEF WindowOk
    <3>2. CASE pollution = NONE
      <4>1. Leaving' \subseteq {t} /\ t \notin Leaving'
        BY <2>2, <2>3, OnlyOneLeavesNext DEF Active, Leaving
      <4>2. Leaving' = {}
        BY <4>1
      <4> QED
        BY <2>1, <2>3, <2>5, <3>2, <4>2 DEF WindowOk
    <3> QED
      BY <3>1, <3>2
  <2> QED
    BY <2>4, <2>5 DEF WindowOk
<1>3. CASE RunStep
  <2>1. PICK t \in All :
           /\ phase[t] = "setup" /\ phase' = [phase EXCEPT ![t] = "run"]
           /\ globals' = IF BodyOf(t).leaks THEN globals \cup {t} ELSE globals
           /\ pollution' = IF BodyOf(t).dies THEN globals' ELSE pollution
    BY <1>3, RunIs
  <2>2. t \in Tests /\ BodyOf(t) = Body[t]
    BY <2>1, NotSpare, QUnitAssumption DEF BodyOf
  <2>3. globals \subseteq Begun /\ pollution \subseteq globals /\ globals \ pollution = Leaving
    BY <2>1, <2>2 DEF WindowOk
  <2>4. Begun' = Begun \cup {t} /\ t \notin Begun /\ phase'[t] = "run"
    BY <1>0, <2>1, <2>2
  <2>5. globals' \subseteq Begun'
    BY <2>1, <2>2, <2>3, <2>4
  <2>6. CASE Body[t].dies
    <3>1. Leaving' \subseteq {t} /\ t \notin Leaving'
      BY <2>2, <2>4, <2>6, OnlyOneLeavesNext DEF Active, Leaving
    <3>2. Leaving' = {}
      BY <3>1
    <3> QED
      BY <2>1, <2>2, <2>5, <2>6, <3>2 DEF WindowOk
  <2>7. CASE ~Body[t].dies
    <3>1. Leaving' = Leaving \cup (IF Body[t].leaks THEN {t} ELSE {})
      BY <1>0, <2>1, <2>2, <2>7 DEF Leaving
    <3>2. globals' = globals \cup (IF Body[t].leaks THEN {t} ELSE {}) /\ pollution' = pollution
      BY <2>1, <2>2, <2>7
    <3>3. t \notin globals
      BY <2>3, <2>4
    <3>4. globals' \ pollution' = Leaving' /\ pollution' \subseteq globals'
      BY <2>3, <3>1, <3>2, <3>3
    <3> QED
      BY <2>5, <3>4 DEF WindowOk
  <2> QED
    BY <2>6, <2>7
<1>4. CASE TeardownStep
  <2>1. PICK t \in All :
           phase[t] = "run" /\ phase' = [phase EXCEPT ![t] = "teardown"] /\ pollution' = globals /\ UNCHANGED globals
    BY <1>4, TeardownIs
  <2>2. t \in Tests
    BY <2>1, NotSpare
  <2>3. globals \subseteq Begun
    BY <2>1, <2>2 DEF WindowOk
  <2>4. Begun' = Begun /\ phase'[t] = "teardown"
    BY <1>0, <2>1
  <2>5. Leaving' \subseteq {t} /\ t \notin Leaving'
    BY <2>2, <2>4, OnlyOneLeavesNext DEF Active, Leaving
  <2>6. Leaving' = {}
    BY <2>5
  <2> QED
    BY <2>1, <2>3, <2>4, <2>6 DEF WindowOk
<1>5. CASE FinishStep
  <2>1. PICK t \in All : phase[t] = "teardown" /\ phase' = [phase EXCEPT ![t] = "finished"] /\ UNCHANGED << globals, pollution >>
    BY <1>5, FinishIs
  <2>2. t \in Tests
    BY <2>1, NotSpare
  <2>3. globals \subseteq Begun /\ pollution \subseteq globals /\ globals \ pollution = Leaving
    BY <2>1, <2>2 DEF WindowOk
  <2>4. Begun' = Begun /\ Leaving' = Leaving
    BY <1>0, <2>1 DEF Leaving
  <2> QED
    BY <2>1, <2>3, <2>4 DEF WindowOk
<1>6. CASE TimeoutFires
  BY <1>6 DEF TimeoutFires
<1>7. CASE \E c \in pending : Callback(c[1], c[2])
  <2>1. UNCHANGED << globals, pollution, phase >>
    BY <1>7, CallbackIs
  <2> QED
    BY <2>1 DEF WindowOk, Leaving
<1>8. CASE \E c \in pending : CallbackOutside(c[1], c[2])
  <2>1. current = NONE /\ pending # {}
    BY <1>8 DEF CallbackOutside
  <2> QED
    BY <2>1 DEF WaitsFor
<1> QED
  BY <1>1, <1>2, <1>3, <1>4, <1>5, <1>6, <1>7, <1>8, SilentOrTelling DEF Telling

-----------------------------------------------------------------------------
(* The callbacks of t that have been called, when those of p are to come   *)
Called(t, p) == {k \in DOMAIN Body[t].later : << t, k >> \notin p}
Wrong(t, S) ==
  \/ \E i \in DOMAIN Body[t].asserts : ~Body[t].asserts[i]
  \/ \E ki \in S : ~Body[t].later[ki[1]].asserts[ki[2]]

(* What a test in phase ph has to show for itself when its assertions are  *)
(* a and the callbacks p are to come                                       *)
Told(t, ph, a, p) ==
  /\ ph \in {"new", "skipped", "queued", "setup"} => a = << >>
  /\ ph \in {"run", "teardown"} =>
       /\ Body[t].dies \/ (ph = "teardown" /\ Body[t].leaks) => HasFail(a)
       /\ ~Body[t].dies /\ ~(ph = "teardown" /\ Body[t].leaks) =>
            /\ Len(a) = Len(Body[t].asserts) + Cardinality(Parts(t, Called(t, p)))
            /\ HasFail(a) <=> Wrong(t, Parts(t, Called(t, p)))
  /\ ph = "finished" => (HasFail(a) <=> Guilty(t))

LEMMA ToldFirst ==
  ASSUME NEW t \in Tests, NEW p, \A k \in DOMAIN Body[t].later : << t, k >> \in p,
         NEW s, Len(s) = 0 + Len(Body[t].asserts) + (IF Body[t].dies THEN 1 ELSE 0),
         HasFail(s) <=> FALSE \/ Body[t].dies \/ \E i \in DOMAIN Body[t].asserts : ~Body[t].asserts[i]
  PROVE  Told(t, "run", s, p)
<1>1. Called(t, p) = {}
  BY DEF Called
<1>2. Parts(t, Called(t, p)) = {} /\ Cardinality(Parts(t, Called(t, p))) = 0
  BY <1>1, PartsFacts, FS_EmptySet
<1>3. Len(Body[t].asserts) \in Nat
  <2>1. Body[t].asserts \in Seq(BOOLEAN)
    BY BodyFacts
  <2> QED
    BY <2>1
<1>4. Body[t].dies => HasFail(s)
  OBVIOUS
<1>5. ~Body[t].dies => Len(s) = Len(Body[t].asserts) + 0
  BY <1>3
<1>6. ~Body[t].dies => (HasFail(s) <=> Wrong(t, {}))
  BY DEF Wrong
<1> QED
  BY <1>2, <1>4, <1>5, <1>6 DEF Told

LEMMA ToldMore ==
  ASSUME NEW t \in Tests, NEW p, NEW k \in DOMAIN Body[t].later, << t, k >> \in p,
         NEW a \in Seq(Notes), Told(t, "run", a, p), NEW q, q = p \ {<< t, k >>}
  PROVE  Told(t, "run", a \o Passes(t, Body[t].later[k].asserts), q)
<1> DEFINE x == Body[t].later[k].asserts
           K == Called(t, p)
           P == Parts(t, K)
           Q == Parts(t, Called(t, q))
           s == a \o Passes(t, x)
<1>1. x \in Seq(BOOLEAN) /\ t \in All
  BY BodyFacts DEF All
<1>2. Called(t, q) = K \cup {k} /\ k \notin K /\ K \subseteq DOMAIN Body[t].later
  BY DEF Called
<1>3. IsFiniteSet(P) /\ Cardinality(P) \in Nat
  BY <1>2, PartsFinite
<1>4. /\ Cardinality(Q) = Cardinality(P) + Len(x)
      /\ Q = P \cup {<< k, i >> : i \in DOMAIN x}
  <2> HIDE DEF K
  <2>1. IsFiniteSet(Parts(t, K)) /\ k \notin K
    BY <1>2, <1>3
  <2>2. /\ Cardinality(Parts(t, K \cup {k})) = Cardinality(Parts(t, K)) + Len(Body[t].later[k].asserts)
        /\ Parts(t, K \cup {k}) = Parts(t, K) \cup {<< k, i >> : i \in DOMAIN Body[t].later[k].asserts}
    BY <2>1, PartsAdd
  <2> QED
    BY <1>2, <2>2
<1>5. /\ Passes(t, x) \in Seq(Notes) /\ Len(Passes(t, x)) = Len(x)
      /\ HasFail(Passes(t, x)) <=> \E i \in DOMAIN x : ~x[i]
  BY <1>1, PassesFacts
<1>6. Len(s) = Len(a) + Len(x) /\ (HasFail(s) <=> HasFail(a) \/ \E i \in DOMAIN x : ~x[i])
  BY <1>5, HasFailCat
<1>7. Wrong(t, Q) <=> Wrong(t, P) \/ \E i \in DOMAIN x : ~x[i]
  <2>1. ASSUME NEW ki \in Q, ~Body[t].later[ki[1]].asserts[ki[2]]
        PROVE  (\E kj \in P : ~Body[t].later[kj[1]].asserts[kj[2]]) \/ \E i \in DOMAIN x : ~x[i]
    <3>1. CASE ki \in P
      BY <2>1, <3>1
    <3>2. CASE ki \notin P
      <4>1. PICK i \in DOMAIN x : ki = << k, i >>
        BY <1>4, <3>2
      <4> QED
        BY <2>1, <4>1
    <3> QED
      BY <3>1, <3>2
  <2>2. ASSUME NEW i \in DOMAIN x, ~x[i] PROVE \E kj \in Q : ~Body[t].later[kj[1]].asserts[kj[2]]
    <3>1. << k, i >> \in Q /\ << k, i >>[1] = k /\ << k, i >>[2] = i
      BY <1>4
    <3> QED
      BY <2>2, <3>1
  <2>3. P \subseteq Q
    BY <1>4
  <2> QED
    BY <2>1, <2>2, <2>3 DEF Wrong
<1>8. Len(a) \in Nat /\ Len(x) \in Nat /\ Len(Body[t].asserts) \in Nat
  <2>1. Body[t].asserts \in Seq(BOOLEAN)
    BY BodyFacts
  <2> QED
    BY <1>1, <2>1
<1>9. /\ Body[t].dies => HasFail(a)
      /\ ~Body[t].dies => /\ Len(a) = Len(Body[t].asserts) + Cardinality(P)
                          /\ HasFail(a) <=> Wrong(t, P)
  BY DEF Told
<1> HIDE DEF x, K, P, Q, s
<1>10. Body[t].dies => HasFail(s)
  BY <1>6, <1>9
<1>11. ~Body[t].dies => Len(s) = Len(Body[t].asserts) + Cardinality(Q)
  <2> DEFINE y == Len(Body[t].asserts)
             z == Cardinality(P)
  <2>1. y \in Nat /\ z \in Nat /\ Len(x) \in Nat /\ Cardinality(Q) = z + Len(x)
    BY <1>3, <1>4, <1>8
  <2>2. ~Body[t].dies => Len(s) = (y + z) + Len(x)
    BY <1>6, <1>9
  <2> HIDE DEF y, z
  <2>3. (y + z) + Len(x) = y + (z + Len(x))
    BY <2>1
  <2> QED
    BY <2>1, <2>2, <2>3 DEF y
<1>12. ~Body[t].dies => (HasFail(s) <=> Wrong(t, Q))
  BY <1>6, <1>7, <1>9
<1>13. Told(t, "run", s, q)
  BY <1>10, <1>11, <1>12 DEF Told, Q
<1> QED
  BY <1>13 DEF s, x

(* At the teardown a leaked global counts against the test                 *)
LEMMA ToldTeardown ==
  ASSUME NEW t \in Tests, NEW p, NEW a, Told(t, "run", a, p), NEW s,
         Body[t].leaks /\ ~Body[t].dies => HasFail(s), HasFail(a) => HasFail(s),
         ~Body[t].leaks /\ ~Body[t].dies => (HasFail(s) <=> HasFail(a)) /\ Len(s) = Len(a)
  PROVE  Told(t, "teardown", s, p)
BY DEF Told

LEMMA ToldFinish ==
  ASSUME NEW t \in Tests, NEW a \in Seq(Notes), Told(t, "teardown", a, {}), NEW s, NEW u,
         HasFail(s) <=> HasFail(a) \/ u = TRUE,
         u = (IF Body[t].expected = NONE THEN a = << >> ELSE Len(a) # Body[t].expected)
  PROVE  Told(t, "finished", s, {})
<1> DEFINE P == LaterAsserts(t)
           n == Len(Body[t].asserts) + Cardinality(P)
<1>1. Called(t, {}) = DOMAIN Body[t].later /\ Parts(t, Called(t, {})) = P
  BY PartsFacts DEF Called
<1>2. Cardinality(P) \in Nat
  BY <1>1, PartsFinite
<1>3. Len(Body[t].asserts) \in Nat /\ Len(a) \in Nat /\ (a = << >> <=> Len(a) = 0)
  <2>1. Body[t].asserts \in Seq(BOOLEAN)
    BY BodyFacts
  <2> QED
    BY <2>1
<1>4. CASE Body[t].dies \/ Body[t].leaks
  <2>1. HasFail(a)
    BY <1>4 DEF Told
  <2> QED
    BY <1>4, <2>1 DEF Told, Guilty
<1>5. CASE ~Body[t].dies /\ ~Body[t].leaks
  <2>1. Len(a) = n /\ (HasFail(a) <=> Wrong(t, P))
    BY <1>1, <1>5 DEF Told
  <2>2. Guilty(t) <=> Wrong(t, P) \/ IF Body[t].expected = NONE THEN n = 0 ELSE n # Body[t].expected
    BY <1>5 DEF Guilty, Wrong
  <2> HIDE DEF n, P
  <2>3. HasFail(s) <=> Guilty(t)
    BY <1>3, <2>1, <2>2
  <2> QED
    BY <2>3 DEF Told
<1> QED
  BY <1>4, <1>5

-----------------------------------------------------------------------------
AllTold == \A t \in Tests : Told(t, phase[t], assertions[t], pending)

LEMMA ToldStays ==
  ASSUME NEW t, NEW ph, NEW a, NEW p, Told(t, ph, a, p), NEW q,
         \A k \in DOMAIN Body[t].later : << t, k >> \in p <=> << t, k >> \in q
  PROVE  Told(t, ph, a, q)
<1>1. Called(t, p) = Called(t, q)
  BY DEF Called
<1> QED
  BY <1>1 DEF Told

LEMMA ToldStep ==
  ASSUME Orderly, RunnerInv, StatsInv, WaitsFor, WindowOk, AllTold, ~early, ~early', [Next]_vars
  PROVE  AllTold'
<1>0. phase \in [All -> Phases] /\ assertions \in [All -> Seq(Notes)] /\ Tests \subseteq All
  BY DEF RunnerInv, RunnerTypes, StatsInv, All
<1>w. ~blocking => pending = {}
  BY WaitsFacts
<1> SUFFICES ASSUME NEW t \in Tests PROVE Told(t, phase'[t], assertions'[t], pending')
  BY DEF AllTold
<1>t. Told(t, phase[t], assertions[t], pending)
  BY DEF AllTold
<1>1. CASE Silent
  <2>1. assertions' = assertions /\ pending' = pending
    BY <1>1 DEF Silent
  <2>2. \/ phase'[t] = phase[t]
        \/ phase[t] = "new" /\ phase'[t] \in {"queued", "skipped"}
    BY <1>0, <1>1 DEF Silent
  <2> QED
    BY <1>t, <2>1, <2>2 DEF Told
<1>2. CASE SetupStep
  <2>1. PICK u \in All : /\ phase[u] = "queued" /\ phase' = [phase EXCEPT ![u] = "setup"]
                         /\ UNCHANGED << assertions, pending >>
    BY <1>2, SetupIs
  <2>2. CASE t = u
    <3>1. phase[t] = "queued" /\ phase'[t] = "setup"
      BY <1>0, <2>1, <2>2
    <3> QED
      BY <1>t, <2>1, <3>1 DEF Told
  <2>3. CASE t # u
    <3>1. phase'[t] = phase[t]
      BY <1>0, <2>1, <2>3
    <3> QED
      BY <1>t, <2>1, <3>1
  <2> QED
    BY <2>2, <2>3
<1>3. CASE RunStep
  <2>1. PICK u \in All :
           /\ phase[u] = "setup" /\ phase' = [phase EXCEPT ![u] = "run"] /\ ~blocking
           /\ assertions' = [assertions EXCEPT ![u] =
                @ \o Passes(u, BodyOf(u).asserts) \o IF BodyOf(u).dies THEN Failure(u) ELSE << >>]
           /\ pending' = pending \cup {<< u, k >> : k \in DOMAIN BodyOf(u).later}
    BY <1>3, RunIs
  <2>2. u \in Tests /\ BodyOf(u) = Body[u]
    BY <2>1, NotSpare, QUnitAssumption DEF BodyOf
  <2>3. CASE t = u
    <3> DEFINE s == assertions[t] \o Passes(t, BodyOf(t).asserts) \o IF BodyOf(t).dies THEN Failure(t) ELSE << >>
    <3>1. phase[t] = "setup" /\ phase'[t] = "run" /\ assertions'[t] = s /\ t \in All /\ BodyOf(t) = Body[t]
      BY <1>0, <2>1, <2>2, <2>3
    <3>2. assertions[t] = << >>
      BY <1>t, <3>1 DEF Told
    <3>3. /\ Len(s) = Len(assertions[t]) + Len(BodyOf(t).asserts) + IF BodyOf(t).dies THEN 1 ELSE 0
          /\ HasFail(s) <=> \/ HasFail(assertions[t]) \/ BodyOf(t).dies
                            \/ \E i \in DOMAIN BodyOf(t).asserts : ~BodyOf(t).asserts[i]
      BY <1>0, <3>1, RunNotes
    <3> HIDE DEF s
    <3>4. /\ Len(s) = 0 + Len(Body[t].asserts) + (IF Body[t].dies THEN 1 ELSE 0)
          /\ HasFail(s) <=> FALSE \/ Body[t].dies \/ \E i \in DOMAIN Body[t].asserts : ~Body[t].asserts[i]
      BY <3>1, <3>2, <3>3, NoteFacts
    <3>5. \A k \in DOMAIN Body[t].later : << t, k >> \in pending'
      BY <2>1, <2>2, <2>3
    <3>6. Told(t, "run", s, pending')
      BY <3>4, <3>5, ToldFirst
    <3> QED
      BY <3>1, <3>6
  <2>4. CASE t # u
    <3>1. phase'[t] = phase[t] /\ assertions'[t] = assertions[t]
      BY <1>0, <2>1, <2>4
    <3>2. \A k \in DOMAIN Body[t].later : << t, k >> \in pending <=> << t, k >> \in pending'
      BY <2>1, <2>4
    <3> QED
      BY <1>t, <3>1, <3>2, ToldStays
  <2> QED
    BY <2>3, <2>4
<1>4. CASE TeardownStep
  <2>1. PICK u \in All :
           /\ phase[u] = "run" /\ phase' = [phase EXCEPT ![u] = "teardown"] /\ UNCHANGED pending
           /\ assertions' = [assertions EXCEPT ![u] =
                @ \o (IF globals \ pollution # {} THEN Failure(u) ELSE << >>)
                  \o (IF pollution \ globals # {} THEN Failure(u) ELSE << >>)]
    BY <1>4, TeardownIs
  <2>2. u \in Tests
    BY <2>1, NotSpare
  <2>3. CASE t = u
    <3> DEFINE s == assertions[t] \o (IF globals \ pollution # {} THEN Failure(t) ELSE << >>)
                                  \o (IF pollution \ globals # {} THEN Failure(t) ELSE << >>)
    <3>1. phase[t] = "run" /\ phase'[t] = "teardown" /\ assertions'[t] = s /\ t \in All
      BY <1>0, <2>1, <2>3
    <3>2. pollution \ globals = {} /\ globals \ pollution = Leaving
      BY <3>1 DEF WindowOk
    <3>3. Leaving \subseteq {t}
      BY <3>1, OnlyOneLeaves DEF Active
    <3>4. /\ Body[t].leaks /\ ~Body[t].dies => globals \ pollution # {}
          /\ ~Body[t].leaks => globals \ pollution = {}
      BY <3>1, <3>2, <3>3 DEF Leaving
    <3>5. /\ HasFail(s) <=> HasFail(assertions[t]) \/ globals \ pollution # {} \/ pollution \ globals # {}
          /\ ~(globals \ pollution # {}) /\ ~(pollution \ globals # {}) => Len(s) = Len(assertions[t])
      BY <1>0, <3>1, TwoNotes
    <3> HIDE DEF s
    <3>6. /\ Body[t].leaks /\ ~Body[t].dies => HasFail(s)
          /\ HasFail(assertions[t]) => HasFail(s)
          /\ ~Body[t].leaks /\ ~Body[t].dies => (HasFail(s) <=> HasFail(assertions[t])) /\ Len(s) = Len(assertions[t])
      BY <3>2, <3>4, <3>5
    <3>7. Told(t, "run", assertions[t], pending)
      BY <1>t, <3>1
    <3>8. Told(t, "teardown", s, pending)
      BY <3>6, <3>7, ToldTeardown
    <3> QED
      BY <2>1, <3>1, <3>8
  <2>4. CASE t # u
    <3>1. phase'[t] = phase[t] /\ assertions'[t] = assertions[t]
      BY <1>0, <2>1, <2>4
    <3> QED
      BY <1>t, <2>1, <3>1
  <2> QED
    BY <2>3, <2>4
<1>5. CASE FinishStep
  <2>1. PICK u \in All : \E s :
           /\ phase[u] = "teardown" /\ phase' = [phase EXCEPT ![u] = "finished"] /\ ~blocking
           /\ s = assertions[u] \o IF Unexpected(u) THEN Failure(u) ELSE << >>
           /\ assertions' = [assertions EXCEPT ![u] = s] /\ UNCHANGED pending
    BY <1>5, FinishIs
  <2>2. PICK s : /\ phase[u] = "teardown" /\ phase' = [phase EXCEPT ![u] = "finished"] /\ ~blocking
                 /\ s = assertions[u] \o IF Unexpected(u) THEN Failure(u) ELSE << >>
                 /\ assertions' = [assertions EXCEPT ![u] = s] /\ UNCHANGED pending
    BY <2>1
  <2>3. pending = {} /\ pending' = {}
    BY <1>w, <2>2
  <2>4. CASE t = u
    <3>1. phase[t] = "teardown" /\ phase'[t] = "finished" /\ assertions'[t] = s /\ t \in All
      BY <1>0, <2>2, <2>4
    <3> DEFINE a == assertions[t]
               x == IF Body[t].expected = NONE THEN a = << >> ELSE Len(a) # Body[t].expected
    <3>2. Unexpected(t) <=> x
      BY SparesAre DEF Unexpected
    <3>3. HasFail(s) <=> HasFail(a) \/ Unexpected(t)
      BY <1>0, <2>2, <2>4, OneNote
    <3>4. x \in BOOLEAN
      OBVIOUS
    <3>5. HasFail(s) <=> HasFail(a) \/ x = TRUE
      BY <3>2, <3>3, <3>4
    <3>6. a \in Seq(Notes) /\ Told(t, "teardown", a, {})
      BY <1>0, <1>t, <2>3, <3>1
    <3>7. x = (IF Body[t].expected = NONE THEN a = << >> ELSE Len(a) # Body[t].expected)
      OBVIOUS
    <3> HIDE DEF a, x
    <3>8. Told(t, "finished", s, {})
      BY <3>5, <3>6, <3>7, ToldFinish
    <3> QED
      BY <2>3, <3>1, <3>8
  <2>5. CASE t # u
    <3>1. phase'[t] = phase[t] /\ assertions'[t] = assertions[t]
      BY <1>0, <2>2, <2>5
    <3> QED
      BY <1>t, <2>2, <3>1
  <2> QED
    BY <2>4, <2>5
<1>6. CASE TimeoutFires
  BY <1>6 DEF TimeoutFires
<1>7. CASE \E c \in pending : Callback(c[1], c[2])
  <2>1. PICK c \in pending : Callback(c[1], c[2])
    BY <1>7
  <2> DEFINE u == c[1]
             k == c[2]
  <2>2. /\ u \in Tests /\ k \in DOMAIN Body[u].later
        /\ assertions' = IF current = NONE THEN assertions
                         ELSE [assertions EXCEPT ![current] = @ \o Passes(u, Body[u].later[k].asserts)]
        /\ pending' = pending \ {<< u, k >>} /\ << u, k >> \in pending
        /\ UNCHANGED phase
    BY <2>1, CallbackIs
  <2> HIDE DEF u, k
  <2>3. current # NONE /\ phase[current] = "run" /\ << u, k >>[1] = current
    BY <2>2 DEF WaitsFor
  <2>4. u = current
    BY <2>3
  <2>5. CASE t = u
    <3>1. /\ phase'[t] = "run" /\ phase[t] = "run" /\ t \in All
          /\ assertions'[t] = assertions[t] \o Passes(t, Body[t].later[k].asserts)
      BY <1>0, <2>2, <2>3, <2>4, <2>5
    <3>2. k \in DOMAIN Body[t].later /\ << t, k >> \in pending /\ pending' = pending \ {<< t, k >>}
      BY <2>2, <2>5
    <3>3. assertions[t] \in Seq(Notes) /\ Told(t, "run", assertions[t], pending)
      BY <1>0, <1>t, <3>1
    <3>4. Told(t, "run", assertions[t] \o Passes(t, Body[t].later[k].asserts), pending')
      BY <3>2, <3>3, ToldMore
    <3> QED
      BY <3>1, <3>4
  <2>6. CASE t # u
    <3>1. phase'[t] = phase[t] /\ assertions'[t] = assertions[t]
      BY <1>0, <2>2, <2>3, <2>4, <2>6
    <3>2. \A n \in DOMAIN Body[t].later : << t, n >> \in pending <=> << t, n >> \in pending'
      BY <2>2, <2>6
    <3> QED
      BY <1>t, <3>1, <3>2, ToldStays
  <2> QED
    BY <2>5, <2>6
<1>8. CASE \E c \in pending : CallbackOutside(c[1], c[2])
  <2>1. current = NONE /\ pending # {}
    BY <1>8 DEF CallbackOutside
  <2> QED
    BY <2>1 DEF WaitsFor
<1> QED
  BY <1>1, <1>2, <1>3, <1>4, <1>5, <1>6, <1>7, <1>8, SilentOrTelling DEF Telling

JustInv == RunnerInv /\ StatsInv /\ (~early => WaitsFor /\ WindowOk /\ AllTold)

LEMMA EarlyStays == RunnerInv /\ [Next]_vars => (early => early')
<1> SUFFICES ASSUME RunnerInv, [Next]_vars, early PROVE early'
  OBVIOUS
<1>1. Silent \/ Telling
  BY SilentOrTelling
<1>2. CASE Silent
  BY <1>2 DEF Silent
<1>3. CASE Telling
  BY <1>3 DEF Telling, SetupStep, RunStep, TeardownStep, FinishStep, TimeoutFires, Callback, CallbackOutside, page
<1> QED
  BY <1>1, <1>2, <1>3

LEMMA JustStart == Init => JustInv
<1> SUFFICES ASSUME Init PROVE JustInv
  OBVIOUS
<1>1. RunnerInv /\ StatsInv
  BY RunnerStart, StatsStart
<1>2. /\ pending = {} /\ semaphore = 0 /\ \A t \in All : phase[t] = "new" /\ assertions[t] = << >>
      /\ globals = {} /\ pollution = NONE
  BY DEF Init
<1>3. Tests \subseteq All /\ Spares \subseteq All
  BY DEF All
<1>4. WaitsFor
  BY <1>2, <1>3, FS_EmptySet DEF WaitsFor
<1>5. WindowOk
  BY <1>2, <1>3 DEF WindowOk
<1>6. AllTold
  BY <1>2, <1>3 DEF AllTold, Told
<1> QED
  BY <1>1, <1>4, <1>5, <1>6 DEF JustInv

LEMMA JustStep == ASSUME Orderly, JustInv, [Next]_vars PROVE JustInv'
<1>1. RunnerInv /\ StatsInv /\ RunnerInv' /\ StatsInv'
  BY RunnerStep, StatsStep DEF JustInv
<1>2. ASSUME ~early' PROVE (WaitsFor /\ WindowOk /\ AllTold)'
  <2>1. ~early
    BY <1>1, <1>2, EarlyStays
  <2>2. WaitsFor /\ WindowOk /\ AllTold
    BY <2>1 DEF JustInv
  <2>3. WaitsFor'
    BY <1>1, <1>2, <2>1, <2>2, WaitsStep
  <2>4. WindowOk'
    BY <1>1, <1>2, <2>1, <2>2, <2>3, WindowStep
  <2>5. AllTold'
    BY <1>1, <1>2, <2>1, <2>2, ToldStep
  <2> QED
    BY <2>3, <2>4, <2>5
<1> QED
  BY <1>1, <1>2 DEF JustInv

LEMMA JustIs == JustInv => ReportJust
<1> SUFFICES ASSUME JustInv PROVE ReportJust
  OBVIOUS
<1>1. TypeOK /\ StatsExact
  BY RunnerTypesOk DEF JustInv, StatsInv
<1>2. VerdictJust
  <2> SUFFICES ASSUME ~early, NEW t \in Tests, phase[t] = "finished"
               PROVE  Fails(assertions[t]) > 0 <=> Guilty(t)
    BY DEF VerdictJust, Finished
  <2>1. Told(t, "finished", assertions[t], pending)
    BY DEF JustInv, AllTold
  <2>2. assertions[t] \in Seq(Notes)
    BY DEF JustInv, StatsInv, All
  <2>3. HasFail(assertions[t]) <=> Guilty(t)
    BY <2>1 DEF Told
  <2> QED
    BY <2>2, <2>3, FailsFacts
<1> QED
  BY <1>1, <1>2 DEF ReportJust

\* The report is just (finish, the leak check of teardown, stop and start):
\* its totals are exact, and a test fails if and only if it did something
\* wrong itself, unless the queue was restarted under a waiting test.
THEOREM ReportIsJust == Orderly => (Spec => []ReportJust)
<1> SUFFICES ASSUME Orderly PROVE Spec => []ReportJust
  OBVIOUS
<1>1. JustInv /\ [Next]_vars => JustInv'
  BY JustStep
<1> QED
  BY <1>1, JustStart, JustIs, PTL DEF Spec

-----------------------------------------------------------------------------
(***************************************************************************)
(* The page of applications.                                               *)
(***************************************************************************)
USE MarathonAssumption

App == [id : Ids, instances : Nat]
ViewType == [model : Nat, instances : Nat, inList : BOOLEAN, hidden : BOOLEAN]
RequestType == [n : Nat, kind : {"start", "scale", "stop"}, model : Nat, app : App,
                status : {"sent", "handled"}]
(* What the page has                                                       *)
TypeInv ==
  /\ models \in Seq(App) /\ itemViews \in Seq(ViewType) /\ requests \subseteq RequestType
  /\ sent \in Nat /\ collection \subseteq 1 .. Len(models)
  /\ server \in [DOMAIN server -> Nat] /\ DOMAIN server \subseteq Ids /\ IsFiniteSet(DOMAIN server)
  /\ listed \in [DOMAIN listed -> Nat] /\ DOMAIN listed \subseteq Ids /\ IsFiniteSet(DOMAIN listed)
  /\ listRequest \in {"sent", "handled", "done", "failed"}

(* Every view has a model of its own, every model of the collection a      *)
(* view in the list that shows it                                          *)
ViewsInv ==
  /\ \A v \in Views : itemViews[v].model \in 1 .. Len(models)
  /\ \A v, w \in Views : itemViews[v].model = itemViews[w].model => v = w
  /\ \A m \in collection : \E v \in Views : itemViews[v].model = m /\ itemViews[v].inList
  /\ \A v \in Views : itemViews[v].inList =>
       /\ itemViews[v].instances = models[itemViews[v].model].instances
       /\ itemViews[v].model \in collection \/ "early" \in excuses

(* The filter knows views once the list has come, and hides no others      *)
FilterInv ==
  /\ listRequest # "done" => lis = None /\ \A v \in Views : ~itemViews[v].hidden
  /\ listRequest = "done" => lis \subseteq Views /\ \A v \in Views \ lis : ~itemViews[v].hidden
  /\ typed => lis # None
  /\ keyTimeout => lis # None
  /\ FilterExact

(* Requests are numbered and about models that exist; names are apart;     *)
(* nothing is sent from an empty page                                      *)
SentInv ==
  /\ \A r \in requests : /\ r.n \in 1 .. sent /\ r.model \in 1 .. Len(models)
                         /\ r.app.id = models[r.model].id
  /\ \A r, q \in requests : r.n = q.n => r = q
  /\ models = << >> => requests = {} /\ server = listed
  /\ \A m, k \in collection : models[m].id = models[k].id => m = k

(* The requests on an app that the server has not seen, and the latest of  *)
(* them                                                                    *)
Pending(i) == {r \in requests : r.app.id = i /\ r.status = "sent"}
Latest(r) == \A q \in Pending(r.app.id) : q.n <= r.n

(* A start is under way among them, after number a and before number b     *)
Started(i, a, b) == \E s \in Pending(i) : a < s.n /\ s.n < b /\ s.kind = "start"

(* The app runs when the server has handled what was sent before number n  *)
Present(i, n) ==
  /\ i \notin DOMAIN server => Started(i, 0, n)
  /\ \A q \in Pending(i) : q.n < n /\ q.kind = "stop" => Started(i, q.n, n)

(* Once the server has handled all, it runs the model as it is shown       *)
Has(m) ==
  LET i == models[m].id
  IN /\ Present(i, sent + 1)
     /\ Pending(i) = {} => i \in DOMAIN server /\ server[i] = models[m].instances
     /\ \A r \in Pending(i) : Latest(r) => r.kind # "stop" /\ r.app.instances = models[m].instances

(* Once the server has handled all, it does not run the app                *)
Lacks(i) ==
  /\ Pending(i) = {} => i \notin DOMAIN server
  /\ \A r \in Pending(i) : Latest(r) => r.kind = "stop"

(* Page and server are on the way to agree; a scale reaches an app that    *)
(* runs                                                                    *)
AgreeInv ==
  excuses = {} =>
    /\ \A m \in collection : Has(m)
    /\ listRequest = "done" =>
         \A i \in Ids : (\A m \in collection : models[m].id # i) => Lacks(i)
    /\ \A r \in requests : r.status = "sent" /\ r.kind = "scale" => Present(r.app.id, r.n)

(* A new page is empty.                                                    *)
LEMMA MarathonStart == MarathonInit => TypeInv /\ ViewsInv /\ FilterInv /\ SentInv /\ AgreeInv
<1> SUFFICES ASSUME MarathonInit PROVE TypeInv /\ ViewsInv /\ FilterInv /\ SentInv /\ AgreeInv
  OBVIOUS
<1>1. TypeInv
  BY DEF MarathonInit, TypeInv
<1>2. ViewsInv /\ SentInv /\ AgreeInv
  BY DEF MarathonInit, ViewsInv, SentInv, AgreeInv, Views
<1>3. FilterInv
  BY DEF MarathonInit, FilterInv, FilterExact, Views
<1> QED
  BY <1>1, <1>2, <1>3

(* A function on 1 .. n is a sequence                                      *)
LEMMA FunctionIsSeq ==
  ASSUME NEW S, NEW n \in Nat, NEW f \in [1 .. n -> S]
  PROVE  f \in Seq(S) /\ Len(f) = n
<1>1. f \in Seq(S)
  BY SeqDef
<1>2. DOMAIN f = 1 .. n /\ DOMAIN f = 1 .. Len(f) /\ Len(f) \in Nat
  BY <1>1, LenProperties
<1> QED
  BY <1>1, <1>2

(* The names of the apps listed, each once                                 *)
LEMMA NamesOf ==
  ASSUME NEW S, IsFiniteSet(S)
  PROVE  /\ Cardinality(S) \in Nat
         /\ SetToSeq(S) \in [1 .. Cardinality(S) -> S]
         /\ \A i, j \in 1 .. Cardinality(S) : SetToSeq(S)[i] = SetToSeq(S)[j] => i = j
         /\ \A x \in S : \E i \in 1 .. Cardinality(S) : SetToSeq(S)[i] = x
<1>1. Cardinality(S) \in Nat /\ ExistsBijection(1 .. Cardinality(S), S)
  BY FS_CardinalityType, FS_CountingElements
<1>2. PICK f : f \in Bijection(1 .. Cardinality(S), S)
  BY <1>1 DEF ExistsBijection
<1>3. f \in [1 .. Cardinality(S) -> S] /\ IsInjective(f)
  BY <1>2 DEF Bijection, Injection
<1>4. PICK g : g = SetToSeq(S)
  OBVIOUS
<1>5. g \in [1 .. Cardinality(S) -> S] /\ IsInjective(g)
  BY <1>3, <1>4 DEF SetToSeq
<1>6. g \in Injection(1 .. Cardinality(S), S)
  BY <1>5 DEF Injection
<1>7. Cardinality(1 .. Cardinality(S)) = Cardinality(S)
  BY <1>1, FS_Interval
<1>8. g \in Surjection(1 .. Cardinality(S), S)
  BY <1>6, <1>7, FS_Injection
<1>9. \A x \in S : \E i \in 1 .. Cardinality(S) : g[i] = x
  BY <1>8 DEF Surjection
<1> QED
  BY <1>1, <1>4, <1>5, <1>9 DEF IsInjective

(* What the page has when the list has come: the apps listed, each once,   *)
(* behind what was there                                                   *)
Fetched(f) ==
  /\ f \in Seq(App)
  /\ \A i \in 1 .. Len(f) : f[i].id \in DOMAIN listed /\ f[i].instances = listed[f[i].id]
  /\ \A i, j \in 1 .. Len(f) : f[i].id = f[j].id => i = j
  /\ \A x \in DOMAIN listed : \E i \in 1 .. Len(f) : f[i].id = x
  /\ models' \in Seq(App) /\ Len(models') = Len(models) + Len(f)
  /\ \A m \in 1 .. Len(models) : models'[m] = models[m]
  /\ \A i \in 1 .. Len(f) : models'[Len(models) + i] = f[i]
  /\ collection' = (Len(models) + 1) .. (Len(models) + Len(f))
  /\ itemViews' \in Seq(ViewType) /\ Len(itemViews') = Len(itemViews) + Len(f)
  /\ \A v \in 1 .. Len(itemViews) : itemViews'[v] = itemViews[v]
  /\ \A i \in 1 .. Len(f) :
       itemViews'[Len(itemViews) + i] = AppItemView(Len(models) + i, f[i])

(* What fetch().done adds.                                                 *)
LEMMA FetchDoneIs ==
  ASSUME TypeInv, FetchDone
  PROVE  \E f : Fetched(f)
<1>1. PICK n, names :
        /\ n \in Nat /\ names \in [1 .. n -> DOMAIN listed] /\ names = SetToSeq(DOMAIN listed)
        /\ \A i, j \in 1 .. n : names[i] = names[j] => i = j
        /\ \A x \in DOMAIN listed : \E i \in 1 .. n : names[i] = x
  <2>1. IsFiniteSet(DOMAIN listed)
    BY DEF TypeInv
  <2>2. /\ Cardinality(DOMAIN listed) \in Nat
        /\ SetToSeq(DOMAIN listed) \in [1 .. Cardinality(DOMAIN listed) -> DOMAIN listed]
        /\ \A i, j \in 1 .. Cardinality(DOMAIN listed) :
             SetToSeq(DOMAIN listed)[i] = SetToSeq(DOMAIN listed)[j] => i = j
        /\ \A x \in DOMAIN listed : \E i \in 1 .. Cardinality(DOMAIN listed) :
             SetToSeq(DOMAIN listed)[i] = x
    BY <2>1, NamesOf
  <2> QED
    BY <2>2, Zenon
<1>2. DOMAIN names = 1 .. n
  BY <1>1
<1>3. PICK f : f = [i \in 1 .. n |-> [id |-> names[i], instances |-> listed[names[i]]]]
  OBVIOUS
<1>4. /\ models' = models \o f
      /\ collection' = (Len(models) + 1) .. (Len(models) + Len(f))
      /\ itemViews' = itemViews \o [i \in 1 .. n |-> AppItemView(Len(models) + i, f[i])]
  BY <1>1, <1>2, <1>3 DEF FetchDone
<1>5. f \in [1 .. n -> App]
  <2>1. \A i \in 1 .. n : names[i] \in Ids /\ listed[names[i]] \in Nat
    BY <1>1 DEF TypeInv
  <2> QED
    BY <1>3, <2>1 DEF App
<1>6. f \in Seq(App) /\ Len(f) = n
  BY <1>1, <1>5, FunctionIsSeq
<1>7. PICK g : g = [i \in 1 .. n |-> AppItemView(Len(models) + i, f[i])]
  OBVIOUS
<1>8. Len(models) \in Nat /\ models \in Seq(App) /\ itemViews \in Seq(ViewType)
  BY DEF TypeInv
<1>9. g \in [1 .. n -> ViewType]
  BY <1>5, <1>7, <1>8 DEF AppItemView, ViewType, App
<1>10. g \in Seq(ViewType) /\ Len(g) = n
  BY <1>1, <1>9, FunctionIsSeq
<1>11. /\ models' \in Seq(App) /\ Len(models') = Len(models) + Len(f)
       /\ \A m \in 1 .. Len(models) : models'[m] = models[m]
       /\ \A i \in 1 .. Len(f) : models'[Len(models) + i] = f[i]
  <2>1. models \o f \in Seq(App) /\ Len(models \o f) = Len(models) + Len(f)
    BY <1>6, <1>8, ConcatProperties
  <2>2. \A i \in 1 .. Len(models) + Len(f) :
          (models \o f)[i] = IF i <= Len(models) THEN models[i] ELSE f[i - Len(models)]
    BY <1>6, <1>8, ConcatProperties
  <2> QED
    BY <1>4, <1>6, <1>8, <2>1, <2>2
<1>12. /\ itemViews' \in Seq(ViewType) /\ Len(itemViews') = Len(itemViews) + Len(f)
       /\ \A v \in 1 .. Len(itemViews) : itemViews'[v] = itemViews[v]
       /\ \A i \in 1 .. Len(f) :
            itemViews'[Len(itemViews) + i] = AppItemView(Len(models) + i, f[i])
  <2>0. Len(itemViews) \in Nat
    BY <1>8
  <2>1. itemViews \o g \in Seq(ViewType) /\ Len(itemViews \o g) = Len(itemViews) + n
    BY <1>8, <1>10, ConcatProperties
  <2>2. \A i \in 1 .. Len(itemViews) + Len(g) :
          (itemViews \o g)[i] = IF i <= Len(itemViews) THEN itemViews[i] ELSE g[i - Len(itemViews)]
    BY <1>8, <1>10, ConcatProperties
  <2>3. \A i \in 1 .. n : (itemViews \o g)[Len(itemViews) + i] = g[i]
    BY <1>10, <2>0, <2>2
  <2>4. \A v \in 1 .. Len(itemViews) : (itemViews \o g)[v] = itemViews[v]
    BY <1>10, <2>0, <2>2
  <2> QED
    BY <1>4, <1>6, <1>7, <2>1, <2>3, <2>4
<1>13. /\ \A i \in 1 .. n : f[i].id = names[i] /\ f[i].instances = listed[names[i]]
  BY <1>3
<1>14. /\ \A i \in 1 .. Len(f) : f[i].id \in DOMAIN listed /\ f[i].instances = listed[f[i].id]
       /\ \A i, j \in 1 .. Len(f) : f[i].id = f[j].id => i = j
       /\ \A x \in DOMAIN listed : \E i \in 1 .. Len(f) : f[i].id = x
  <2>1. \A i \in 1 .. n : names[i] \in DOMAIN listed
    BY <1>1
  <2>2. \A i \in 1 .. n : f[i].id \in DOMAIN listed /\ f[i].instances = listed[f[i].id]
    BY <1>13, <2>1
  <2>3. \A i, j \in 1 .. n : f[i].id = f[j].id => i = j
    BY <1>1, <1>13
  <2>4. \A x \in DOMAIN listed : \E i \in 1 .. n : f[i].id = x
    BY <1>1, <1>13
  <2> QED
    BY <1>6, <2>2, <2>3, <2>4
<1> QED
  BY <1>4, <1>6, <1>11, <1>12, <1>14 DEF Fetched

(* The models and the views, as functions                                  *)
LEMMA PageTypes ==
  ASSUME TypeInv
  PROVE  /\ Len(models) \in Nat /\ models \in [1 .. Len(models) -> App]
         /\ Len(itemViews) \in Nat /\ itemViews \in [1 .. Len(itemViews) -> ViewType]
         /\ Views = 1 .. Len(itemViews)
BY LenProperties DEF TypeInv, Views

(* Views drawn again are the same views                                    *)
LEMMA Redrawn ==
  ASSUME TypeInv, NEW f \in [Views -> ViewType], itemViews' = f
  PROVE  itemViews' \in Seq(ViewType) /\ Len(itemViews') = Len(itemViews) /\ Views' = Views
<1>1. Views = 1 .. Len(itemViews) /\ Len(itemViews) \in Nat
  BY PageTypes
<1>2. f \in Seq(ViewType) /\ Len(f) = Len(itemViews)
  BY <1>1, FunctionIsSeq
<1>3. DOMAIN f = Views
  OBVIOUS
<1> QED
  BY <1>2, <1>3 DEF Views

(* A model that is set renders its views again.                            *)
LEMMA RerenderIs ==
  ASSUME TypeInv, NEW m, NEW n \in Nat, rerender(m, n)
  PROVE  /\ itemViews' \in Seq(ViewType) /\ Len(itemViews') = Len(itemViews) /\ Views' = Views
         /\ \A v \in Views : /\ itemViews'[v].model = itemViews[v].model
                             /\ itemViews'[v].inList = itemViews[v].inList
                             /\ itemViews'[v].hidden = itemViews[v].hidden
                             /\ itemViews'[v].instances =
                                  IF itemViews[v].model = m THEN n ELSE itemViews[v].instances
<1>1. \A v \in Views : itemViews[v] \in ViewType
  BY PageTypes
<1>2. PICK f : f = [v \in Views |-> IF itemViews[v].model = m
                                    THEN [itemViews[v] EXCEPT !.instances = n] ELSE itemViews[v]]
  OBVIOUS
<1>3. f \in [Views -> ViewType]
  BY <1>1, <1>2 DEF ViewType
<1>4. itemViews' = f
  BY <1>2 DEF rerender
<1>5. itemViews' \in Seq(ViewType) /\ Len(itemViews') = Len(itemViews) /\ Views' = Views
  BY <1>3, <1>4, Redrawn
<1>6. \A v \in Views : itemViews'[v] = IF itemViews[v].model = m
                         THEN [itemViews[v] EXCEPT !.instances = n] ELSE itemViews[v]
  BY <1>2, <1>4
<1> QED
  BY <1>1, <1>5, <1>6 DEF ViewType

(* A request sent is the latest                                            *)
LEMMA SyncIs ==
  ASSUME TypeInv, NEW kind \in {"start", "scale", "stop"}, NEW m \in Nat, NEW app \in App,
         sync(kind, m, app)
  PROVE  /\ sent' = sent + 1 /\ sent' \in Nat /\ requests' \subseteq RequestType
         /\ requests' = requests \cup
              {[n |-> sent + 1, kind |-> kind, model |-> m, app |-> app, status |-> "sent"]}
BY DEF TypeInv, sync, RequestType

(* The model that scale changes, and its views                             *)
LEMMA ScaleIs ==
  ASSUME TypeInv, ViewsInv, NEW v \in Views, NEW n \in Scales \cup {0}, ScaleClicked(v, n)
  PROVE  LET m == itemViews[v].model IN
         /\ n \in Nat /\ m \in 1 .. Len(models) /\ models[m] \in App
         /\ models' \in Seq(App) /\ Len(models') = Len(models)
         /\ \A k \in 1 .. Len(models) :
              models'[k] = IF k = m THEN [id |-> models[m].id, instances |-> n] ELSE models[k]
         /\ rerender(m, n) /\ sync("scale", m, models'[m]) /\ models'[m] \in App
<1>1. PICK m : m = itemViews[v].model
  OBVIOUS
<1>2. m \in 1 .. Len(models) /\ n \in Nat /\ models \in Seq(App) /\ models \in [1 .. Len(models) -> App]
  BY <1>1, PageTypes DEF ViewsInv, TypeInv
<1>3. models' = [models EXCEPT ![m].instances = n]
  BY <1>1 DEF ScaleClicked, scale
<1>4. models[m] \in App /\ [models[m] EXCEPT !.instances = n] = [id |-> models[m].id, instances |-> n]
  BY <1>2 DEF App
<1>5. [id |-> models[m].id, instances |-> n] \in App
  BY <1>2, <1>4 DEF App
<1>6. models' = [models EXCEPT ![m] = [id |-> models[m].id, instances |-> n]]
  BY <1>2, <1>3, <1>4
<1>7. /\ models' \in Seq(App) /\ Len(models') = Len(models)
      /\ \A k \in 1 .. Len(models) :
           models'[k] = IF k = m THEN [id |-> models[m].id, instances |-> n] ELSE models[k]
  BY <1>2, <1>5, <1>6, ExceptSeq
<1>8. models'[m] = [id |-> models[m].id, instances |-> n]
  BY <1>2, <1>7
<1> QED
  BY <1>1, <1>2, <1>4, <1>5, <1>7, <1>8 DEF ScaleClicked, scale

(* The views after a destroy                                               *)
LEMMA DestroyIs ==
  ASSUME TypeInv, ViewsInv, NEW v \in Views, DestroyClicked(v)
  PROVE  LET m == itemViews[v].model IN
         /\ m \in 1 .. Len(models) /\ models[m] \in App /\ itemViews[v].inList
         /\ itemViews' \in Seq(ViewType) /\ Views' = Views
         /\ \A w \in Views : /\ itemViews'[w].model = itemViews[w].model
                             /\ (itemViews'[w].inList <=> itemViews[w].inList /\ w # v)
                             /\ itemViews'[w].hidden = itemViews[w].hidden
                             /\ itemViews'[w].instances = itemViews[w].instances
         /\ sync("stop", m, models[m]) /\ collection' = collection \ {m}
         /\ UNCHANGED models
<1>1. PICK m : m = itemViews[v].model
  OBVIOUS
<1>2. m \in 1 .. Len(models) /\ models \in [1 .. Len(models) -> App] /\ itemViews \in [Views -> ViewType]
  BY <1>1, PageTypes DEF ViewsInv
<1>3. itemViews' = [itemViews EXCEPT ![v].inList = FALSE]
  BY DEF DestroyClicked, removed
<1>4. itemViews' \in [Views -> ViewType]
  BY <1>2, <1>3 DEF ViewType
<1>5. itemViews' \in Seq(ViewType) /\ Views' = Views
  BY <1>4, Redrawn
<1>6. \A w \in Views : itemViews[w] \in ViewType
  BY <1>2
<1>7. \A w \in Views : itemViews'[w] = IF w = v THEN [itemViews[v] EXCEPT !.inList = FALSE] ELSE itemViews[w]
  BY <1>2, <1>3
<1>8. \A w \in Views : /\ itemViews'[w].model = itemViews[w].model
                       /\ (itemViews'[w].inList <=> itemViews[w].inList /\ w # v)
                       /\ itemViews'[w].hidden = itemViews[w].hidden
                       /\ itemViews'[w].instances = itemViews[w].instances
  <2>1. ASSUME NEW w \in Views, w # v PROVE itemViews'[w] = itemViews[w]
    BY <1>7, <2>1
  <2>2. /\ itemViews'[v].model = itemViews[v].model /\ itemViews'[v].hidden = itemViews[v].hidden
        /\ itemViews'[v].instances = itemViews[v].instances /\ ~itemViews'[v].inList
    BY <1>6, <1>7 DEF ViewType
  <2> QED
    BY <2>1, <2>2
<1> QED
  BY <1>1, <1>2, <1>5, <1>8 DEF DestroyClicked, Clickable

(* The collection has an app of that name                                  *)
Named(i) == \E k \in collection : models[k].id = i

(* What a new app adds                                                     *)
LEMMA SaveIs ==
  ASSUME TypeInv, NEW i \in Ids, save([id |-> i, instances |-> 1])
  PROVE  LET m == Len(models) + 1
             app == [id |-> i, instances |-> 1] IN
         /\ app \in App /\ m \in Nat /\ models' \in Seq(App) /\ Len(models') = m /\ models'[m] = app
         /\ \A k \in 1 .. Len(models) : models'[k] = models[k]
         /\ sync("start", m, app)
         /\ Named(i) => UNCHANGED << collection, itemViews >> /\ "duplicate" \in excuses'
         /\ ~Named(i) =>
              /\ collection' = collection \cup {m} /\ itemViews' \in Seq(ViewType)
              /\ Len(itemViews') = Len(itemViews) + 1
              /\ \A v \in Views : itemViews'[v] = itemViews[v]
              /\ itemViews'[Len(itemViews) + 1] = AppItemView(m, app)
              /\ UNCHANGED excuses
<1>1. PICK m, app : m = Len(models) + 1 /\ app = [id |-> i, instances |-> 1]
  OBVIOUS
<1>2. app \in App /\ app.id = i /\ models \in Seq(App) /\ itemViews \in Seq(ViewType) /\ m \in Nat
  BY <1>1, PageTypes DEF App, TypeInv
<1>3. save(app)
  BY <1>1
<1>4. /\ models' = Append(models, app) /\ sync("start", m, app)
      /\ Named(i) => UNCHANGED << collection, itemViews >> /\ "duplicate" \in excuses'
      /\ ~Named(i) => /\ collection' = collection \cup {m}
                      /\ itemViews' = Append(itemViews, AppItemView(m, app))
                      /\ UNCHANGED excuses
  BY <1>1, <1>2, <1>3 DEF save, NewModel, Named
<1>5. /\ models' \in Seq(App) /\ Len(models') = m /\ models'[m] = app
      /\ \A k \in 1 .. Len(models) : models'[k] = models[k]
  BY <1>1, <1>2, <1>4, AppendProperties
<1>6. AppItemView(m, app) \in ViewType
  BY <1>2 DEF AppItemView, ViewType, App
<1>7. ~Named(i) => /\ itemViews' \in Seq(ViewType) /\ Len(itemViews') = Len(itemViews) + 1
                   /\ \A v \in Views : itemViews'[v] = itemViews[v]
                   /\ itemViews'[Len(itemViews) + 1] = AppItemView(m, app)
  <2>1. PICK w : w = AppItemView(m, app)
    OBVIOUS
  <2>2. /\ Append(itemViews, w) \in Seq(ViewType) /\ Len(Append(itemViews, w)) = Len(itemViews) + 1
        /\ \A v \in 1 .. Len(itemViews) : Append(itemViews, w)[v] = itemViews[v]
        /\ Append(itemViews, w)[Len(itemViews) + 1] = w
    BY <1>2, <1>6, <2>1, AppendProperties
  <2> QED
    BY <1>4, <2>1, <2>2, PageTypes
<1> QED
  BY <1>1, <1>2, <1>4, <1>5, <1>7

(* The answer to a start                                                   *)
LEMMA AnswerIs ==
  ASSUME TypeInv, SentInv, NEW r \in requests, Answer(r), r.kind = "start"
  PROVE  /\ r.model \in 1 .. Len(models) /\ r.app \in App /\ r.app.id = models[r.model].id
         /\ models' \in Seq(App) /\ Len(models') = Len(models)
         /\ \A k \in 1 .. Len(models) : models'[k] = IF k = r.model THEN r.app ELSE models[k]
         /\ rerender(r.model, r.app.instances) /\ r.app.instances \in Nat
         /\ excuses' = {} => UNCHANGED << models, excuses >>
<1>1. /\ r.model \in 1 .. Len(models) /\ r.app \in App /\ r.app.id = models[r.model].id
      /\ r.app.instances \in Nat /\ models \in Seq(App)
  BY DEF SentInv, TypeInv, RequestType, App
<1>2. /\ models' = [models EXCEPT ![r.model] = r.app] /\ rerender(r.model, r.app.instances)
      /\ excuses' = excuses \cup (IF models[r.model] # r.app THEN {"overtaken"} ELSE {})
  BY DEF Answer
<1>3. /\ models' \in Seq(App) /\ Len(models') = Len(models)
      /\ \A k \in 1 .. Len(models) : models'[k] = IF k = r.model THEN r.app ELSE models[k]
  BY <1>1, <1>2, ExceptSeq
<1>4. ASSUME excuses' = {} PROVE UNCHANGED << models, excuses >>
  <2>1. models[r.model] = r.app /\ excuses = {}
    BY <1>2, <1>4
  <2>2. models \in [1 .. Len(models) -> App]
    BY PageTypes
  <2> QED
    BY <1>1, <1>2, <1>4, <2>1, <2>2
<1> QED
  BY <1>1, <1>2, <1>3, <1>4

(* The filter hides and shows                                              *)
LEMMA KeyTimeoutIs ==
  ASSUME TypeInv, KeyTimeout
  PROVE  /\ itemViews' \in Seq(ViewType) /\ Views' = Views
         /\ \A v \in Views : /\ itemViews'[v].model = itemViews[v].model
                             /\ (itemViews'[v].inList <=> itemViews[v].inList)
                             /\ itemViews'[v].instances = itemViews[v].instances
                             /\ v \notin lis => itemViews'[v] = itemViews[v]
                             /\ v \in lis => (itemViews'[v].hidden <=> filtered(v))
<1>1. \A v \in Views : itemViews[v] \in ViewType
  BY PageTypes
<1>2. PICK f : f = [v \in Views |-> IF v \in lis THEN [itemViews[v] EXCEPT !.hidden = filtered(v)]
                                    ELSE itemViews[v]]
  OBVIOUS
<1>3. itemViews' = f
  BY <1>2 DEF KeyTimeout
<1>4. \A v \in Views : filtered(v) \in BOOLEAN
  BY DEF filtered
<1>5. f \in [Views -> ViewType]
  BY <1>1, <1>2, <1>4 DEF ViewType
<1>6. itemViews' \in Seq(ViewType) /\ Views' = Views
  BY <1>3, <1>5, Redrawn
<1>7. ASSUME NEW v \in Views
      PROVE  itemViews'[v] = IF v \in lis THEN [itemViews[v] EXCEPT !.hidden = filtered(v)]
                             ELSE itemViews[v]
  BY <1>2, <1>3
<1>8. ASSUME NEW v \in Views
      PROVE  /\ itemViews'[v].model = itemViews[v].model
             /\ (itemViews'[v].inList <=> itemViews[v].inList)
             /\ itemViews'[v].instances = itemViews[v].instances
             /\ v \notin lis => itemViews'[v] = itemViews[v]
             /\ v \in lis => (itemViews'[v].hidden <=> filtered(v))
  <2>1. CASE v \in lis
    <3>1. PICK b \in BOOLEAN : b = filtered(v)
      BY <1>4
    <3>2. itemViews'[v] = [itemViews[v] EXCEPT !.hidden = b]
      BY <1>7, <2>1, <3>1
    <3>3. /\ itemViews'[v].model = itemViews[v].model
          /\ itemViews'[v].inList = itemViews[v].inList
          /\ itemViews'[v].instances = itemViews[v].instances
          /\ itemViews'[v].hidden = b
      BY <1>1, <3>2 DEF ViewType
    <3> QED
      BY <2>1, <3>1, <3>3, Zenon
  <2>2. CASE v \notin lis
    BY <1>7, <2>2
  <2> QED
    BY <2>1, <2>2
<1> QED
  BY <1>6, <1>8

(* The steps that leave the apps and their views alone                     *)
Aside ==
  \/ addNew \/ dismiss \/ ServerLists \/ FetchFails
  \/ \E r \in requests : ServerHandles(r) \/ (Answer(r) /\ r.kind # "start") \/ RequestFails(r)
  \/ \E text \in Texts : Key(text)

\* Those steps touch neither the collection nor its views.
LEMMA AsideKeeps == Aside => UNCHANGED << models, collection, itemViews >>
BY DEF Aside, addNew, dismiss, ServerLists, FetchFails, ServerHandles, Answer, RequestFails, Key,
       listVars

(* The server runs names                                                   *)
LEMMA ServeTypes ==
  ASSUME TypeInv, NEW r \in requests
  PROVE  /\ Serve(r) \in [DOMAIN Serve(r) -> Nat] /\ DOMAIN Serve(r) \subseteq Ids
         /\ IsFiniteSet(DOMAIN Serve(r))
<1>1. /\ server \in [DOMAIN server -> Nat] /\ DOMAIN server \subseteq Ids /\ IsFiniteSet(DOMAIN server)
      /\ r.kind \in {"start", "scale", "stop"} /\ r.app.id \in Ids /\ r.app.instances \in Nat
  BY DEF TypeInv, RequestType, App
<1>2. IsFiniteSet(DOMAIN server \ {r.app.id}) /\ IsFiniteSet(DOMAIN server \cup {r.app.id})
  <2>1. PICK i : i = r.app.id
    OBVIOUS
  <2>2. IsFiniteSet(DOMAIN server \ {i})
    BY <1>1, FS_RemoveElement
  <2>3. IsFiniteSet(DOMAIN server \cup {i})
    BY <1>1, FS_AddElement
  <2> QED
    BY <2>1, <2>2, <2>3
<1>3. CASE r.kind = "stop"
  BY <1>1, <1>2, <1>3 DEF Serve
<1>4. CASE r.kind = "start"
  BY <1>1, <1>2, <1>4 DEF Serve
<1>5. CASE r.kind = "scale"
  BY <1>1, <1>2, <1>5 DEF Serve
<1> QED
  BY <1>1, <1>3, <1>4, <1>5

(* Every step keeps the types.                                             *)
LEMMA TypeStep ==
  ASSUME TypeInv, ViewsInv, SentInv, [MarathonNext]_marathonVars
  PROVE  TypeInv'
<1>1. CASE UNCHANGED marathonVars
  BY <1>1 DEF marathonVars, listVars, serverVars, TypeInv
<1>2. ASSUME NEW v \in Views, NEW n \in Scales \cup {0}, ScaleClicked(v, n) PROVE TypeInv'
  <2>1. PICK m : m = itemViews[v].model
    OBVIOUS
  <2>2. /\ n \in Nat /\ m \in 1 .. Len(models) /\ models' \in Seq(App) /\ Len(models') = Len(models)
        /\ rerender(m, n) /\ sync("scale", m, models'[m]) /\ models'[m] \in App
    BY <1>2, <2>1, ScaleIs
  <2>3. itemViews' \in Seq(ViewType)
    BY <2>2, RerenderIs
  <2>4. sent' \in Nat /\ requests' \subseteq RequestType
    BY <2>2, SyncIs, PageTypes
  <2> QED
    BY <1>2, <2>2, <2>3, <2>4 DEF ScaleClicked, TypeInv
<1>3. ASSUME NEW v \in Views, DestroyClicked(v) PROVE TypeInv'
  <2>1. PICK m : m = itemViews[v].model
    OBVIOUS
  <2>2. /\ m \in 1 .. Len(models) /\ models[m] \in App /\ itemViews' \in Seq(ViewType)
        /\ sync("stop", m, models[m]) /\ collection' = collection \ {m} /\ UNCHANGED models
    BY <1>3, <2>1, DestroyIs
  <2>3. sent' \in Nat /\ requests' \subseteq RequestType
    BY <2>2, SyncIs, PageTypes
  <2> QED
    BY <1>3, <2>2, <2>3 DEF DestroyClicked, TypeInv
<1>4. ASSUME NEW i \in Ids, save([id |-> i, instances |-> 1]) PROVE TypeInv'
  <2>1. PICK m, app : m = Len(models) + 1 /\ app = [id |-> i, instances |-> 1]
    OBVIOUS
  <2>2. /\ app \in App /\ m \in Nat /\ models' \in Seq(App) /\ Len(models') = m
        /\ sync("start", m, app)
        /\ itemViews' = itemViews \/ itemViews' \in Seq(ViewType)
        /\ collection' \subseteq collection \cup {m}
    BY <1>4, <2>1, SaveIs
  <2>3. sent' \in Nat /\ requests' \subseteq RequestType
    BY <2>2, SyncIs
  <2>4. collection' \subseteq 1 .. Len(models')
    BY <2>1, <2>2, PageTypes DEF TypeInv
  <2> QED
    BY <1>4, <2>2, <2>3, <2>4 DEF save, TypeInv
<1>5. CASE Aside
  <2>1. ASSUME NEW r \in requests, ServerHandles(r) PROVE TypeInv'
    <3>1. requests' \subseteq RequestType
      BY <2>1 DEF ServerHandles, TypeInv, RequestType
    <3> QED
      BY <2>1, <3>1, ServeTypes DEF ServerHandles, TypeInv, listVars
  <2>2. ASSUME NEW r \in requests, (Answer(r) /\ r.kind # "start") \/ RequestFails(r) PROVE TypeInv'
    BY <2>2 DEF Answer, RequestFails, listVars, TypeInv
  <2>3. CASE addNew \/ dismiss \/ ServerLists \/ FetchFails
    BY <2>3 DEF addNew, dismiss, ServerLists, FetchFails, listVars, serverVars, TypeInv
  <2>4. ASSUME NEW text \in Texts, Key(text) PROVE TypeInv'
    BY <2>4 DEF Key, listVars, serverVars, TypeInv
  <2> QED
    BY <1>5, <2>1, <2>2, <2>3, <2>4 DEF Aside
<1>6. ASSUME NEW r \in requests, Answer(r), r.kind = "start" PROVE TypeInv'
  <2>1. /\ models' \in Seq(App) /\ Len(models') = Len(models)
        /\ rerender(r.model, r.app.instances) /\ r.app.instances \in Nat
    BY <1>6, AnswerIs
  <2>2. itemViews' \in Seq(ViewType)
    BY <2>1, RerenderIs
  <2> QED
    BY <1>6, <2>1, <2>2 DEF Answer, TypeInv
<1>7. CASE FetchDone
  <2>1. PICK f : Fetched(f)
    BY <1>7, FetchDoneIs
  <2>2. Len(f) \in Nat /\ Len(models) \in Nat
    BY <2>1, PageTypes, LenProperties DEF Fetched
  <2>3. collection' \subseteq 1 .. Len(models')
    BY <2>1, <2>2 DEF Fetched
  <2> QED
    BY <1>7, <2>1, <2>3 DEF FetchDone, Fetched, TypeInv
<1>8. CASE KeyTimeout
  BY <1>8, KeyTimeoutIs DEF KeyTimeout, TypeInv, serverVars
<1> QED
  BY <1>1, <1>2, <1>3, <1>4, <1>5, <1>6, <1>7, <1>8 DEF MarathonNext, Aside

(* The steps, by what they do to the page                                  *)
StepKinds ==
  \/ UNCHANGED marathonVars
  \/ \E v \in Views : DestroyClicked(v) \/ \E n \in Scales \cup {0} : ScaleClicked(v, n)
  \/ \E i \in Ids : save([id |-> i, instances |-> 1])
  \/ \E r \in requests : Answer(r) /\ r.kind = "start"
  \/ Aside \/ FetchDone \/ KeyTimeout

(* The kinds cover every step.                                             *)
LEMMA StepIs == [MarathonNext]_marathonVars => StepKinds
BY DEF MarathonNext, Aside, StepKinds

(* Every step keeps one view for every model of the collection             *)
LEMMA ViewsStep ==
  ASSUME TypeInv, ViewsInv, SentInv, TypeInv', [MarathonNext]_marathonVars
  PROVE  ViewsInv'
<1>0. /\ Len(models) \in Nat /\ Len(itemViews) \in Nat /\ Views = 1 .. Len(itemViews)
      /\ collection \subseteq 1 .. Len(models)
  BY PageTypes DEF TypeInv
<1>01. Views' = 1 .. Len(itemViews')
  BY LenProperties DEF TypeInv, Views
<1>1. CASE UNCHANGED marathonVars
  BY <1>1 DEF marathonVars, listVars, serverVars, ViewsInv, Views
<1>2. ASSUME NEW v \in Views, NEW n \in Scales \cup {0}, ScaleClicked(v, n) PROVE ViewsInv'
  <2>1. PICK m : m = itemViews[v].model
    OBVIOUS
  <2>2. /\ n \in Nat /\ m \in 1 .. Len(models) /\ Len(models') = Len(models)
        /\ \A k \in 1 .. Len(models) :
             models'[k] = IF k = m THEN [id |-> models[m].id, instances |-> n] ELSE models[k]
        /\ rerender(m, n)
    BY <1>2, <2>1, ScaleIs
  <2>3. /\ Views' = Views
        /\ \A w \in Views : /\ itemViews'[w].model = itemViews[w].model
                            /\ itemViews'[w].inList = itemViews[w].inList
                            /\ itemViews'[w].instances =
                                 IF itemViews[w].model = m THEN n ELSE itemViews[w].instances
    BY <2>2, RerenderIs
  <2>4. UNCHANGED << collection, excuses >>
    BY <1>2 DEF ScaleClicked
  <2>5. \A k \in 1 .. Len(models) : models'[k].instances = IF k = m THEN n ELSE models[k].instances
    BY <2>2
  <2>6. \A w \in Views' : itemViews'[w].model \in 1 .. Len(models')
    BY <2>2, <2>3 DEF ViewsInv
  <2>7. \A w, x \in Views' : itemViews'[w].model = itemViews'[x].model => w = x
    BY <2>3 DEF ViewsInv
  <2>8. \A k \in collection' : \E w \in Views' : itemViews'[w].model = k /\ itemViews'[w].inList
    BY <2>3, <2>4 DEF ViewsInv
  <2>9. ASSUME NEW w \in Views', itemViews'[w].inList
        PROVE  /\ itemViews'[w].instances = models'[itemViews'[w].model].instances
               /\ itemViews'[w].model \in collection' \/ "early" \in excuses'
    <3>1. itemViews[w].model \in 1 .. Len(models) /\ itemViews[w].inList
      BY <2>3, <2>9 DEF ViewsInv
    <3> QED
      BY <2>3, <2>4, <2>5, <2>9, <3>1 DEF ViewsInv
  <2> QED
    BY <2>6, <2>7, <2>8, <2>9 DEF ViewsInv
<1>3. ASSUME NEW v \in Views, DestroyClicked(v) PROVE ViewsInv'
  <2>1. PICK m : m = itemViews[v].model
    OBVIOUS
  <2>2. /\ Views' = Views /\ collection' = collection \ {m} /\ UNCHANGED << models, excuses >>
        /\ \A w \in Views : /\ itemViews'[w].model = itemViews[w].model
                            /\ (itemViews'[w].inList <=> itemViews[w].inList /\ w # v)
                            /\ itemViews'[w].instances = itemViews[w].instances
    BY <1>3, <2>1, DestroyIs DEF DestroyClicked
  <2> QED
    BY <2>1, <2>2 DEF ViewsInv
<1>4. ASSUME NEW i \in Ids, save([id |-> i, instances |-> 1]) PROVE ViewsInv'
  <2>1. PICK m, app : m = Len(models) + 1 /\ app = [id |-> i, instances |-> 1]
    OBVIOUS
  <2>2. /\ m \in Nat /\ Len(models') = m /\ models'[m] = app
        /\ \A k \in 1 .. Len(models) : models'[k] = models[k]
    BY <1>4, <2>1, SaveIs
  <2>3. excuses \subseteq excuses'
    BY <1>4 DEF save
  <2>4. CASE Named(i)
    <3>1. UNCHANGED << collection, itemViews >>
      BY <1>4, <2>4, SaveIs
    <3> QED
      BY <1>0, <2>1, <2>2, <2>3, <3>1 DEF ViewsInv, Views
  <2>5. CASE ~Named(i)
    <3>1. /\ collection' = collection \cup {m} /\ Len(itemViews') = Len(itemViews) + 1
          /\ \A v \in Views : itemViews'[v] = itemViews[v]
          /\ itemViews'[Len(itemViews) + 1] = AppItemView(m, app) /\ UNCHANGED excuses
      BY <1>4, <2>1, <2>5, SaveIs
    <3>2. Views' = Views \cup {Len(itemViews) + 1}
      BY <1>0, <1>01, <3>1
    <3>3. PICK w : w = Len(itemViews) + 1
      OBVIOUS
    <3>4. itemViews'[w].model = m /\ itemViews'[w].instances = app.instances /\ itemViews'[w].inList
      BY <3>1, <3>3 DEF AppItemView
    <3>5. \A x \in Views : itemViews[x].model \in 1 .. Len(models) /\ itemViews[x].model # m
      BY <1>0, <2>1 DEF ViewsInv
    <3>6. \A x \in Views' : itemViews'[x].model \in 1 .. Len(models')
      BY <1>0, <2>1, <2>2, <3>1, <3>2, <3>3, <3>4, <3>5
    <3>7. \A x, y \in Views' : itemViews'[x].model = itemViews'[y].model => x = y
      BY <3>1, <3>2, <3>3, <3>4, <3>5 DEF ViewsInv
    <3>8. \A k \in collection' : \E x \in Views' : itemViews'[x].model = k /\ itemViews'[x].inList
      BY <3>1, <3>2, <3>3, <3>4 DEF ViewsInv
    <3>9. ASSUME NEW x \in Views', itemViews'[x].inList
          PROVE  /\ itemViews'[x].instances = models'[itemViews'[x].model].instances
                 /\ itemViews'[x].model \in collection' \/ "early" \in excuses'
      <4>1. CASE x = w
        BY <2>2, <3>1, <3>4, <4>1
      <4>2. CASE x \in Views
        BY <2>2, <3>1, <3>5, <3>9, <4>2 DEF ViewsInv
      <4> QED
        BY <3>2, <3>3, <4>1, <4>2
    <3> QED
      BY <3>6, <3>7, <3>8, <3>9 DEF ViewsInv
  <2> QED
    BY <2>4, <2>5
<1>5. CASE Aside
  <2>1. UNCHANGED << models, collection, itemViews >>
    BY <1>5, AsideKeeps
  <2>2. excuses \subseteq excuses'
    BY <1>5 DEF Aside, addNew, dismiss, ServerLists, FetchFails, ServerHandles, Answer, RequestFails,
                Key, serverVars
  <2> QED
    BY <2>1, <2>2 DEF ViewsInv, Views
<1>6. ASSUME NEW r \in requests, Answer(r), r.kind = "start" PROVE ViewsInv'
  <2>1. /\ Len(models') = Len(models) /\ r.model \in 1 .. Len(models)
        /\ \A k \in 1 .. Len(models) : models'[k] = IF k = r.model THEN r.app ELSE models[k]
        /\ rerender(r.model, r.app.instances) /\ r.app.instances \in Nat
    BY <1>6, AnswerIs
  <2>2. /\ Views' = Views
        /\ \A w \in Views : /\ itemViews'[w].model = itemViews[w].model
                            /\ itemViews'[w].inList = itemViews[w].inList
                            /\ itemViews'[w].instances = IF itemViews[w].model = r.model
                                 THEN r.app.instances ELSE itemViews[w].instances
    BY <2>1, RerenderIs
  <2>3. UNCHANGED collection /\ excuses \subseteq excuses'
    BY <1>6 DEF Answer
  <2> QED
    BY <2>1, <2>2, <2>3 DEF ViewsInv
<1>7. CASE FetchDone
  <2>1. PICK f : Fetched(f)
    BY <1>7, FetchDoneIs
  <2>2. Len(f) \in Nat /\ Len(itemViews') = Len(itemViews) + Len(f)
    BY <2>1, LenProperties DEF Fetched
  <2>3. \A w \in Views' : \/ w \in Views
                          \/ w - Len(itemViews) \in 1 .. Len(f) /\ w = Len(itemViews) + (w - Len(itemViews))
    BY <1>0, <1>01, <2>2
  <2>4. \A i \in 1 .. Len(f) : /\ itemViews'[Len(itemViews) + i].model = Len(models) + i
                               /\ itemViews'[Len(itemViews) + i].instances = f[i].instances
                               /\ itemViews'[Len(itemViews) + i].inList
                               /\ Len(itemViews) + i \in Views'
                               /\ models'[Len(models) + i] = f[i]
    <3> TAKE i \in 1 .. Len(f)
    <3>1. itemViews'[Len(itemViews) + i] = AppItemView(Len(models) + i, f[i])
      BY <2>1 DEF Fetched
    <3>2. models'[Len(models) + i] = f[i]
      BY <2>1 DEF Fetched
    <3>3. Len(itemViews) + i \in Views'
      BY <1>0, <1>01, <2>2
    <3> QED
      BY <3>1, <3>2, <3>3 DEF AppItemView
  <2>5. \A w \in Views : itemViews'[w] = itemViews[w]
    BY <1>0, <2>1 DEF Fetched
  <2>6. /\ Len(models') = Len(models) + Len(f)
        /\ \A k \in 1 .. Len(models) : models'[k] = models[k]
        /\ collection' = (Len(models) + 1) .. (Len(models) + Len(f))
    BY <2>1 DEF Fetched
  <2>7. \A w \in Views' : itemViews'[w].model \in 1 .. Len(models')
    <3> TAKE w \in Views'
    <3>1. CASE w \in Views
      BY <1>0, <2>2, <2>5, <2>6, <3>1 DEF ViewsInv
    <3>2. CASE w \notin Views
      BY SMTT(30), <1>0, <2>2, <2>3, <2>4, <2>6, <3>2
    <3> QED
      BY <3>1, <3>2
  <2>8. ASSUME NEW w \in Views', NEW x \in Views', itemViews'[w].model = itemViews'[x].model
        PROVE  w = x
    <3>1. CASE w \in Views /\ x \in Views
      BY <2>5, <2>8, <3>1 DEF ViewsInv
    <3>2. CASE w \notin Views /\ x \notin Views
      <4>1. PICK i, j \in 1 .. Len(f) : w = Len(itemViews) + i /\ x = Len(itemViews) + j
        BY <2>3, <3>2
      <4>2. Len(models) + i = Len(models) + j
        BY <2>4, <2>8, <4>1
      <4> QED
        BY <1>0, <2>2, <4>1, <4>2
    <3>3. CASE w \in Views /\ x \notin Views
      <4>1. itemViews'[w].model \in 1 .. Len(models)
        BY <2>5, <3>3 DEF ViewsInv
      <4> QED
        BY <1>0, <2>2, <2>3, <2>4, <2>8, <3>3, <4>1
    <3>4. CASE w \notin Views /\ x \in Views
      <4>1. itemViews'[x].model \in 1 .. Len(models)
        BY <2>5, <3>4 DEF ViewsInv
      <4> QED
        BY <1>0, <2>2, <2>3, <2>4, <2>8, <3>4, <4>1
    <3> QED
      BY <3>1, <3>2, <3>3, <3>4
  <2>9. ASSUME NEW m \in collection'
        PROVE  \E w \in Views' : itemViews'[w].model = m /\ itemViews'[w].inList
    <3>1. m - Len(models) \in 1 .. Len(f) /\ m = Len(models) + (m - Len(models))
      BY SMTT(30), <1>0, <2>2, <2>6
    <3> QED
      BY <2>4, <3>1
  <2>10. ASSUME NEW w \in Views', itemViews'[w].inList
         PROVE  /\ itemViews'[w].instances = models'[itemViews'[w].model].instances
                /\ itemViews'[w].model \in collection' \/ "early" \in excuses'
    <3>1. CASE w \in Views
      <4>1. itemViews[w].model \in 1 .. Len(models) /\ itemViews[w].inList
        BY <2>5, <2>10, <3>1 DEF ViewsInv
      <4>2. models # << >>
        BY <4>1
      <4>3. "early" \in excuses'
        BY <1>7, <4>2 DEF FetchDone
      <4> QED
        BY <2>5, <2>6, <3>1, <4>1, <4>3 DEF ViewsInv
    <3>2. CASE w \notin Views
      <4>1. PICK i \in 1 .. Len(f) : w = Len(itemViews) + i
        BY <2>3, <3>2
      <4>2. itemViews'[w].model = Len(models) + i /\ itemViews'[w].instances = models'[Len(models) + i].instances
        BY <2>4, <4>1
      <4>3. Len(models) + i \in collection'
        BY <1>0, <2>2, <2>6
      <4> QED
        BY <4>2, <4>3
    <3> QED
      BY <3>1, <3>2
  <2> QED
    BY <2>7, <2>8, <2>9, <2>10 DEF ViewsInv
<1>8. CASE KeyTimeout
  <2>1. UNCHANGED << models, collection, excuses >>
    BY <1>8 DEF KeyTimeout, serverVars
  <2> QED
    BY <1>8, <2>1, KeyTimeoutIs DEF ViewsInv
<1> QED
  BY <1>1, <1>2, <1>3, <1>4, <1>5, <1>6, <1>7, <1>8 DEF MarathonNext, Aside

(* Names stay with their models                                            *)
LEMMA SameNames ==
  ASSUME TypeInv, ViewsInv, SentInv, [MarathonNext]_marathonVars
  PROVE  /\ Len(models') \in Nat /\ Len(models) <= Len(models')
         /\ \A m \in 1 .. Len(models) : models'[m].id = models[m].id
<1>1. CASE UNCHANGED marathonVars
  BY <1>1, PageTypes DEF marathonVars, listVars
<1>2. ASSUME NEW v \in Views, NEW n \in Scales \cup {0}, ScaleClicked(v, n)
      PROVE  /\ Len(models') = Len(models)
             /\ \A m \in 1 .. Len(models) : models'[m].id = models[m].id
  <2>1. PICK m : m = itemViews[v].model
    OBVIOUS
  <2>2. /\ Len(models') = Len(models)
        /\ \A k \in 1 .. Len(models) :
             models'[k] = IF k = m THEN [id |-> models[m].id, instances |-> n] ELSE models[k]
    BY <1>2, <2>1, ScaleIs
  <2> QED
    BY <2>2
<1>3. ASSUME NEW v \in Views, DestroyClicked(v) PROVE UNCHANGED models
  BY <1>3 DEF DestroyClicked
<1>4. ASSUME NEW i \in Ids, save([id |-> i, instances |-> 1])
      PROVE  /\ Len(models') = Len(models) + 1
             /\ \A m \in 1 .. Len(models) : models'[m].id = models[m].id
  BY <1>4, SaveIs
<1>5. Aside \/ KeyTimeout => UNCHANGED models
  BY AsideKeeps DEF KeyTimeout
<1>6. ASSUME NEW r \in requests, Answer(r), r.kind = "start"
      PROVE  /\ Len(models') = Len(models)
             /\ \A m \in 1 .. Len(models) : models'[m].id = models[m].id
  BY <1>6, AnswerIs
<1>7. CASE FetchDone
  <2>1. PICK f : Fetched(f)
    BY <1>7, FetchDoneIs
  <2>2. Len(f) \in Nat
    BY <2>1, LenProperties DEF Fetched
  <2>3. /\ Len(models') = Len(models) + Len(f)
        /\ \A m \in 1 .. Len(models) : models'[m] = models[m]
    BY <2>1 DEF Fetched
  <2> QED
    BY <2>2, <2>3, PageTypes
<1>8. UNCHANGED models => Len(models') = Len(models) /\ \A m \in 1 .. Len(models) : models'[m].id = models[m].id
  OBVIOUS
<1>9. StepKinds
  BY StepIs
<1>10. \/ /\ Len(models') = Len(models) \/ Len(models') = Len(models) + 1
          /\ \A m \in 1 .. Len(models) : models'[m].id = models[m].id
       \/ UNCHANGED marathonVars \/ FetchDone
  BY <1>2, <1>3, <1>4, <1>5, <1>6, <1>8, <1>9 DEF StepKinds
<1>11. CASE /\ Len(models') = Len(models) \/ Len(models') = Len(models) + 1
            /\ \A m \in 1 .. Len(models) : models'[m].id = models[m].id
  BY <1>11, PageTypes
<1> QED
  BY <1>1, <1>7, <1>10, <1>11

(* Steps that add views and take some away, and leave the filter alone     *)
Steady ==
  /\ UNCHANGED << filterVars, listRequest >> /\ Views \subseteq Views'
  /\ \A v \in Views : /\ itemViews'[v].model = itemViews[v].model
                      /\ (itemViews'[v].hidden <=> itemViews[v].hidden)
                      /\ itemViews'[v].inList => itemViews[v].inList
  /\ \A v \in Views' \ Views : ~itemViews'[v].hidden

(* As long as the filter stays, so does what it has hidden.                *)
LEMMA SteadyKeeps ==
  ASSUME TypeInv, ViewsInv, SentInv, FilterInv, [MarathonNext]_marathonVars, Steady
  PROVE  FilterInv'
<1>1. UNCHANGED << lis, inputVal, keyTimeout, typed, listRequest >>
  BY DEF Steady, filterVars
<1>2. \A v \in Views : models'[itemViews'[v].model].id = models[itemViews[v].model].id
  <2>1. \A v \in Views : itemViews[v].model \in 1 .. Len(models)
    BY DEF ViewsInv
  <2> QED
    BY <2>1, SameNames DEF Steady
<1>3. listRequest # "done" => \A v \in Views' : ~itemViews'[v].hidden
  BY DEF Steady, FilterInv
<1>4. listRequest = "done" => lis \subseteq Views' /\ \A v \in Views' \ lis : ~itemViews'[v].hidden
  BY DEF Steady, FilterInv
<1>5. ASSUME typed, ~keyTimeout, NEW v \in lis, itemViews'[v].inList
      PROVE  itemViews'[v].hidden <=> models'[itemViews'[v].model].id \notin NamesWith[inputVal]
  <2>1. v \in Views
    BY <1>5 DEF FilterInv
  <2>2. itemViews[v].inList /\ (itemViews'[v].hidden <=> itemViews[v].hidden)
    BY <1>5, <2>1 DEF Steady
  <2>3. itemViews[v].hidden <=> models[itemViews[v].model].id \notin NamesWith[inputVal]
    BY <1>5, <2>2 DEF FilterInv, FilterExact
  <2> QED
    BY <1>2, <2>1, <2>2, <2>3
<1>6. lis # None => \A v \in Views' \ lis : ~itemViews'[v].hidden
  BY <1>4 DEF FilterInv
<1> QED
  BY <1>1, <1>3, <1>4, <1>5, <1>6 DEF FilterInv, FilterExact

(* Every step keeps what the filter has hidden                             *)
LEMMA FilterStep ==
  ASSUME TypeInv, ViewsInv, SentInv, FilterInv, TypeInv', [MarathonNext]_marathonVars
  PROVE  FilterInv'
<1>0. Views = 1 .. Len(itemViews) /\ Len(itemViews) \in Nat
  BY PageTypes
<1>01. Views' = 1 .. Len(itemViews')
  BY LenProperties DEF TypeInv, Views
<1>1. CASE UNCHANGED marathonVars
  BY <1>1 DEF marathonVars, listVars, filterVars, serverVars, FilterInv, FilterExact, Views
<1>2. ASSUME NEW v \in Views, NEW n \in Scales \cup {0}, ScaleClicked(v, n) PROVE FilterInv'
  <2>1. n \in Nat /\ rerender(itemViews[v].model, n)
    BY <1>2 DEF ScaleClicked, scale
  <2>2. Steady
    BY <1>2, <2>1, RerenderIs DEF Steady, ScaleClicked
  <2> QED
    BY <2>2, SteadyKeeps
<1>3. ASSUME NEW v \in Views, DestroyClicked(v) PROVE FilterInv'
  <2>1. Steady
    BY <1>3, DestroyIs DEF Steady, DestroyClicked
  <2> QED
    BY <2>1, SteadyKeeps
<1>4. ASSUME NEW i \in Ids, save([id |-> i, instances |-> 1]) PROVE FilterInv'
  <2>0. UNCHANGED << filterVars, listRequest >>
    BY <1>4 DEF save
  <2>1. CASE Named(i)
    <3>1. UNCHANGED itemViews
      BY <1>4, <2>1, SaveIs
    <3>2. Steady
      BY <2>0, <3>1 DEF Steady, Views
    <3> QED
      BY <3>2, SteadyKeeps
  <2>2. CASE ~Named(i)
    <3>1. /\ Len(itemViews') = Len(itemViews) + 1
          /\ \A v \in Views : itemViews'[v] = itemViews[v]
          /\ itemViews'[Len(itemViews) + 1] = AppItemView(Len(models) + 1, [id |-> i, instances |-> 1])
      BY <1>4, <2>2, SaveIs
    <3>2. ~itemViews'[Len(itemViews) + 1].hidden
      BY <3>1 DEF AppItemView
    <3>3. Views \subseteq Views' /\ \A v \in Views' \ Views : v = Len(itemViews) + 1
      BY <1>0, <1>01, <3>1
    <3>4. Steady
      BY <2>0, <3>1, <3>2, <3>3 DEF Steady
    <3> QED
      BY <3>4, SteadyKeeps
  <2> QED
    BY <2>1, <2>2
<1>5. CASE Aside
  <2>1. UNCHANGED << models, collection, itemViews >> /\ Views' = Views
    BY <1>5, AsideKeeps DEF Views
  <2>2. ASSUME NEW text \in Texts, Key(text) PROVE FilterInv'
    <3>1. /\ inputVal' = text /\ keyTimeout' = (lis # None) /\ typed' = (typed \/ lis # None)
          /\ UNCHANGED << lis, listRequest >>
      BY <2>2 DEF Key, serverVars
    <3>2. typed' => keyTimeout'
      BY <3>1 DEF FilterInv
    <3> QED
      BY <2>1, <3>1, <3>2 DEF FilterInv, FilterExact
  <2>3. CASE ServerLists \/ FetchFails
    <3>1. UNCHANGED filterVars /\ listRequest # "done" /\ listRequest' # "done"
      BY <2>3 DEF ServerLists, FetchFails
    <3> QED
      BY <2>1, <3>1 DEF filterVars, FilterInv, FilterExact
  <2>4. CASE UNCHANGED << filterVars, listRequest >>
    BY <2>1, <2>4 DEF filterVars, FilterInv, FilterExact
  <2>5. \/ \E text \in Texts : Key(text)
        \/ ServerLists \/ FetchFails \/ UNCHANGED << filterVars, listRequest >>
    BY <1>5 DEF Aside, addNew, dismiss, ServerHandles, Answer, RequestFails, serverVars
  <2> QED
    BY <2>2, <2>3, <2>4, <2>5
<1>6. ASSUME NEW r \in requests, Answer(r), r.kind = "start" PROVE FilterInv'
  <2>1. rerender(r.model, r.app.instances) /\ r.app.instances \in Nat
    BY <1>6, AnswerIs
  <2>2. Steady
    BY <1>6, <2>1, RerenderIs DEF Steady, Answer
  <2> QED
    BY <2>2, SteadyKeeps
<1>7. CASE FetchDone
  <2>1. PICK f : Fetched(f)
    BY <1>7, FetchDoneIs
  <2>2. Len(f) \in Nat /\ Len(itemViews') = Len(itemViews) + Len(f)
    BY <2>1, LenProperties DEF Fetched
  <2>3. \A v \in Views' : ~itemViews'[v].hidden
    <3> TAKE v \in Views'
    <3>1. CASE v \in Views
      BY <1>0, <1>7, <2>1, <3>1 DEF Fetched, FilterInv, FetchDone
    <3>2. CASE v \notin Views
      <4>1. PICK i \in 1 .. Len(f) : v = Len(itemViews) + i
        <5>1. v - Len(itemViews) \in 1 .. Len(f) /\ v = Len(itemViews) + (v - Len(itemViews))
          BY <1>0, <1>01, <2>2, <3>2
        <5> QED
          BY <5>1
      <4>2. itemViews'[v] = AppItemView(Len(models) + i, f[i])
        BY <2>1, <4>1 DEF Fetched
      <4> QED
        BY <4>2 DEF AppItemView
    <3> QED
      BY <3>1, <3>2
  <2>4. lis' \subseteq Views' /\ ~typed' /\ ~keyTimeout' /\ listRequest' = "done"
    BY <1>7 DEF FetchDone, FilterInv, Views
  <2> QED
    BY <2>3, <2>4 DEF FilterInv, FilterExact
<1>8. CASE KeyTimeout
  <2>1. /\ UNCHANGED << models, lis, inputVal, typed, listRequest >> /\ keyTimeout' = FALSE /\ keyTimeout
    BY <1>8 DEF KeyTimeout, serverVars
  <2>2. lis # None /\ listRequest = "done" /\ lis \subseteq Views
    BY <2>1 DEF FilterInv
  <2>3. \A v \in lis : itemViews'[v].hidden <=> models'[itemViews'[v].model].id \notin NamesWith[inputVal]
    BY <1>8, <2>1, <2>2, KeyTimeoutIs DEF filtered
  <2>4. Views' = Views /\ \A v \in Views \ lis : itemViews'[v] = itemViews[v]
    BY <1>8, KeyTimeoutIs
  <2> QED
    BY <2>1, <2>2, <2>3, <2>4 DEF FilterInv, FilterExact
<1> QED
  BY <1>1, <1>2, <1>3, <1>4, <1>5, <1>6, <1>7, <1>8, StepIs DEF StepKinds

(* Requests are answered or sent, and never changed                        *)
Sends(x) ==
  /\ x \in RequestType /\ x.n = sent + 1 /\ x.status = "sent"
  /\ sent' = sent + 1 /\ requests' = requests \cup {x}
Settles ==
  /\ UNCHANGED sent
  /\ \A p \in requests' : \E q \in requests : p.n = q.n /\ p.model = q.model /\ p.app = q.app
  /\ \A p, q \in requests' : p.n = q.n => p = q

(* Item.sync sends a request of its own.                                   *)
LEMMA SyncSends ==
  ASSUME TypeInv, NEW kind \in {"start", "scale", "stop"}, NEW m \in Nat, NEW app \in App,
         sync(kind, m, app)
  PROVE  \E x : Sends(x) /\ x.kind = kind /\ x.model = m /\ x.app = app
<1>1. PICK x : x = [n |-> sent + 1, kind |-> kind, model |-> m, app |-> app, status |-> "sent"]
  OBVIOUS
<1>2. sent' = sent + 1 /\ requests' = requests \cup {x} /\ requests' \subseteq RequestType
  BY <1>1, SyncIs
<1>3. x \in RequestType /\ x.n = sent + 1 /\ x.status = "sent" /\ x.kind = kind /\ x.model = m /\ x.app = app
  BY <1>1, <1>2
<1> QED
  BY <1>2, <1>3 DEF Sends

(* Handling, answering and losing a request.                               *)
LEMMA RequestSettles ==
  ASSUME TypeInv, SentInv, NEW r \in requests,
         ServerHandles(r) \/ Answer(r) \/ RequestFails(r)
  PROVE  Settles
<1>0. \A p \in requests : p \in RequestType
  BY DEF TypeInv
<1>1. CASE ServerHandles(r)
  <2>1. PICK h : h = [r EXCEPT !.status = "handled"]
    OBVIOUS
  <2>2. requests' = (requests \ {r}) \cup {h} /\ UNCHANGED sent
    BY <1>1, <2>1 DEF ServerHandles
  <2>3. h.n = r.n /\ h.model = r.model /\ h.app = r.app
    BY SMTT(30), <1>0, <2>1 DEF RequestType
  <2> QED
    BY <2>2, <2>3 DEF Settles, SentInv
<1>2. CASE Answer(r) \/ RequestFails(r)
  <2>1. requests' = requests \ {r} /\ UNCHANGED sent
    BY <1>2 DEF Answer, RequestFails
  <2> QED
    BY <2>1 DEF Settles, SentInv
<1> QED
  BY <1>1, <1>2

(* Every step keeps requests on apps that exist, and names apart           *)
LEMMA SentStep ==
  ASSUME TypeInv, ViewsInv, SentInv, TypeInv', [MarathonNext]_marathonVars
  PROVE  SentInv'
<1>0. Len(models) \in Nat /\ sent \in Nat /\ collection \subseteq 1 .. Len(models)
  BY PageTypes DEF TypeInv
<1>a. /\ Len(models') \in Nat /\ Len(models) <= Len(models')
      /\ \A m \in 1 .. Len(models) : m \in 1 .. Len(models') /\ models'[m].id = models[m].id
  BY <1>0, SameNames
<1>b. ASSUME NEW x, Sends(x), x.model \in 1 .. Len(models'), x.app.id = models'[x.model].id,
             \A m, k \in collection' : models'[m].id = models'[k].id => m = k
      PROVE  SentInv'
  <2>1. \A r \in requests' : /\ r.n \in 1 .. sent' /\ r.model \in 1 .. Len(models')
                             /\ r.app.id = models'[r.model].id
    <3>1. ASSUME NEW r \in requests
          PROVE  /\ r.n \in 1 .. sent' /\ r.model \in 1 .. Len(models')
                 /\ r.app.id = models'[r.model].id
      <4>1. r.n \in 1 .. sent /\ r.model \in 1 .. Len(models) /\ r.app.id = models[r.model].id
        BY DEF SentInv
      <4>2. sent' = sent + 1
        BY <1>b DEF Sends
      <4> QED
        BY <1>0, <1>a, <4>1, <4>2
    <3>2. x.n \in 1 .. sent'
      BY <1>0, <1>b DEF Sends
    <3> QED
      BY <1>b, <3>1, <3>2 DEF Sends
  <2>2. \A r, q \in requests' : r.n = q.n => r = q
    <3>1. \A r \in requests : r.n # x.n
      BY <1>0, <1>b DEF Sends, SentInv
    <3> QED
      BY <1>b, <3>1 DEF Sends, SentInv
  <2>3. models' # << >>
    BY <1>b
  <2> QED
    BY <1>b, <2>1, <2>2, <2>3 DEF SentInv
<1>c. ASSUME Settles, \A m, k \in collection' : models'[m].id = models'[k].id => m = k,
             models' = << >> => requests' = {} /\ server' = listed'
      PROVE  SentInv'
  <2>1. \A r \in requests' : /\ r.n \in 1 .. sent' /\ r.model \in 1 .. Len(models')
                             /\ r.app.id = models'[r.model].id
    BY <1>a, <1>c DEF Settles, SentInv
  <2> QED
    BY <1>c, <2>1 DEF Settles, SentInv
<1>d. UNCHANGED requests /\ UNCHANGED sent => Settles
  BY DEF Settles, SentInv
<1>e. collection' \subseteq collection
        => \A m, k \in collection' : models'[m].id = models'[k].id => m = k
  BY <1>0, <1>a DEF SentInv
<1>1. CASE UNCHANGED marathonVars
  BY <1>1 DEF marathonVars, listVars, serverVars, SentInv
<1>2. ASSUME NEW v \in Views, NEW n \in Scales \cup {0}, ScaleClicked(v, n) PROVE SentInv'
  <2>1. PICK m : m = itemViews[v].model
    OBVIOUS
  <2>2. /\ m \in 1 .. Len(models) /\ sync("scale", m, models'[m]) /\ models'[m] \in App
    BY <1>2, <2>1, ScaleIs
  <2>3. PICK x : Sends(x) /\ x.model = m /\ x.app = models'[m]
    BY <1>0, <2>2, SyncSends
  <2>4. collection' \subseteq collection
    BY <1>2 DEF ScaleClicked
  <2> QED
    BY <1>a, <1>b, <1>e, <2>2, <2>3, <2>4
<1>3. ASSUME NEW v \in Views, DestroyClicked(v) PROVE SentInv'
  <2>1. PICK m : m = itemViews[v].model
    OBVIOUS
  <2>2. /\ m \in 1 .. Len(models) /\ sync("stop", m, models[m]) /\ models[m] \in App
        /\ collection' \subseteq collection
    BY <1>3, <2>1, DestroyIs
  <2>3. PICK x : Sends(x) /\ x.model = m /\ x.app = models[m]
    BY <1>0, <2>2, SyncSends
  <2> QED
    BY <1>a, <1>b, <1>e, <2>2, <2>3
<1>4. ASSUME NEW i \in Ids, save([id |-> i, instances |-> 1]) PROVE SentInv'
  <2>1. PICK m, app : m = Len(models) + 1 /\ app = [id |-> i, instances |-> 1]
    OBVIOUS
  <2>2. /\ app \in App /\ m \in Nat /\ Len(models') = m /\ models'[m] = app
        /\ sync("start", m, app) /\ app.id = i
        /\ Named(i) => collection' = collection
        /\ ~Named(i) => collection' = collection \cup {m}
    BY <1>4, <2>1, SaveIs
  <2>3. PICK x : Sends(x) /\ x.model = m /\ x.app = app
    BY <2>2, SyncSends
  <2>4. \A k, j \in collection' : models'[k].id = models'[j].id => k = j
    BY <1>0, <1>a, <1>e, <2>2 DEF Named, SentInv
  <2> QED
    BY <1>0, <1>b, <2>1, <2>2, <2>3, <2>4
<1>5. CASE Aside
  <2>1. UNCHANGED << models, collection, itemViews >>
    BY <1>5, AsideKeeps
  <2>2. ASSUME NEW r \in requests, ServerHandles(r) \/ Answer(r) \/ RequestFails(r) PROVE SentInv'
    <3>1. Settles
      BY <2>2, RequestSettles
    <3>2. models # << >>
      BY DEF SentInv
    <3> QED
      BY <1>c, <1>e, <2>1, <3>1, <3>2
  <2>3. CASE ServerLists
    BY <1>c, <1>d, <1>e, <2>1, <2>3 DEF ServerLists, SentInv
  <2>4. CASE UNCHANGED << requests, sent, server, listed >>
    BY <1>c, <1>d, <1>e, <2>1, <2>4 DEF SentInv
  <2>5. \/ \E r \in requests : ServerHandles(r) \/ Answer(r) \/ RequestFails(r)
        \/ ServerLists \/ UNCHANGED << requests, sent, server, listed >>
    BY <1>5 DEF Aside, addNew, dismiss, FetchFails, Key, serverVars
  <2> QED
    BY <2>2, <2>3, <2>4, <2>5
<1>6. ASSUME NEW r \in requests, Answer(r), r.kind = "start" PROVE SentInv'
  <2>1. Settles /\ models # << >> /\ UNCHANGED collection
    BY <1>6, RequestSettles DEF SentInv, Answer
  <2>2. Len(models) # 0
    BY <2>1, EmptySeq DEF TypeInv
  <2>3. models' # << >>
    BY <1>0, <1>a, <2>2
  <2> QED
    BY <1>c, <1>e, <2>1, <2>3
<1>7. CASE FetchDone
  <2>1. PICK f : Fetched(f)
    BY <1>7, FetchDoneIs
  <2>2. Len(f) \in Nat /\ UNCHANGED << listed, requests, sent, server >>
    BY <1>7, <2>1, LenProperties DEF Fetched, FetchDone
  <2>3. ASSUME NEW m \in collection', NEW k \in collection', models'[m].id = models'[k].id PROVE m = k
    <3>1. PICK i, j \in 1 .. Len(f) : m = Len(models) + i /\ k = Len(models) + j
      <4>0. collection' = (Len(models) + 1) .. (Len(models) + Len(f))
        BY <2>1 DEF Fetched
      <4>1. /\ m - Len(models) \in 1 .. Len(f) /\ m = Len(models) + (m - Len(models))
            /\ k - Len(models) \in 1 .. Len(f) /\ k = Len(models) + (k - Len(models))
        BY <1>0, <2>2, <4>0
      <4> QED
        BY <4>1
    <3>2. f[i].id = f[j].id
      BY <2>1, <2>3, <3>1 DEF Fetched
    <3> QED
      BY <2>1, <3>1, <3>2 DEF Fetched
  <2>4. models' = << >> => models = << >>
    <3>1. models # << >> => Len(models) # 0
      BY EmptySeq DEF TypeInv
    <3> QED
      BY <1>0, <1>a, <3>1
  <2> QED
    BY <1>c, <1>d, <2>2, <2>3, <2>4 DEF SentInv
<1>8. CASE KeyTimeout
  <2>1. UNCHANGED << models, collection, requests, sent, server, listed >>
    BY <1>8 DEF KeyTimeout, serverVars
  <2> QED
    BY <1>c, <1>d, <1>e, <2>1 DEF SentInv
<1> QED
  BY <1>1, <1>2, <1>3, <1>4, <1>5, <1>6, <1>7, <1>8, StepIs DEF StepKinds

(* What a new request, the latest of its app, changes                      *)
LEMMA SendKeeps ==
  ASSUME TypeInv, SentInv, NEW x, Sends(x), UNCHANGED server
  PROVE  /\ \A i : i # x.app.id => Pending(i)' = Pending(i)
         /\ Pending(x.app.id)' = Pending(x.app.id) \cup {x}
         /\ \A i : \A n \in Nat : n <= sent + 1 /\ Present(i, n) => Present(i, n)'
         /\ \A i : (i # x.app.id \/ x.kind # "stop") /\ Present(i, sent + 1) => Present(i, sent + 1)'
         /\ \A r \in Pending(x.app.id)' : Latest(r)' => r = x
         /\ \A r \in requests : r.app.id # x.app.id => (Latest(r)' <=> Latest(r))
<1>0. sent \in Nat /\ \A r \in requests : r.n \in Nat /\ r.n <= sent
  BY DEF TypeInv, SentInv
<1>1. x.n = sent + 1 /\ x.status = "sent" /\ sent' = sent + 1 /\ requests' = requests \cup {x}
  BY DEF Sends
<1>2. \A i : i # x.app.id => Pending(i)' = Pending(i)
  BY <1>1 DEF Pending
<1>3. Pending(x.app.id)' = Pending(x.app.id) \cup {x}
  BY <1>1 DEF Pending
<1>4. \A i : Pending(i) \subseteq requests /\ Pending(i) \subseteq Pending(i)' /\ Pending(i)' \subseteq Pending(i) \cup {x}
  BY <1>1 DEF Pending
<1>5. ASSUME NEW i, NEW a, NEW n \in Nat, NEW b \in Nat, n <= b, Started(i, a, n) PROVE Started(i, a, b)'
  BY <1>0, <1>4, <1>5 DEF Started
<1>6. ASSUME NEW i, NEW n \in Nat, n <= sent + 1, Present(i, n) PROVE Present(i, n)'
  <2>1. ASSUME NEW q \in Pending(i)', q.n < n, q.kind = "stop" PROVE Started(i, q.n, n)'
    <3>1. q \in Pending(i)
      BY <1>0, <1>1, <1>4, <1>6, <2>1
    <3> QED
      BY <1>5, <1>6, <2>1, <3>1 DEF Present
  <2>2. i \notin DOMAIN server' => Started(i, 0, n)'
    BY <1>5, <1>6 DEF Present
  <2> QED
    BY <2>1, <2>2 DEF Present
<1>7. ASSUME NEW i, i # x.app.id \/ x.kind # "stop", Present(i, sent + 1) PROVE Present(i, sent + 1)'
  <2>0. sent + 1 \in Nat /\ sent' + 1 \in Nat /\ sent + 1 <= sent' + 1
    BY <1>0, <1>1
  <2>1. ASSUME NEW q \in Pending(i)', q.kind = "stop" PROVE Started(i, q.n, sent + 1)'
    <3>1. q \in Pending(i)
      BY <1>2, <1>4, <1>7, <2>1
    <3>2. q.n < sent + 1
      BY <1>0, <1>4, <3>1
    <3> QED
      BY <1>5, <1>7, <2>0, <2>1, <3>1, <3>2 DEF Present
  <2>2. i \notin DOMAIN server' => Started(i, 0, sent + 1)'
    BY <1>5, <1>7, <2>0 DEF Present
  <2> QED
    BY <2>1, <2>2 DEF Present
<1>8. ASSUME NEW r \in Pending(x.app.id)', Latest(r)' PROVE r = x
  <2>1. r.app.id = x.app.id
    BY <1>8 DEF Pending
  <2>2. x.n <= r.n
    BY <1>3, <1>8, <2>1 DEF Latest
  <2> QED
    BY <1>0, <1>1, <1>4, <2>2
<1>9. \A r \in requests : r.app.id # x.app.id => (Latest(r)' <=> Latest(r))
  BY <1>2 DEF Latest
<1> QED
  BY <1>2, <1>3, <1>6, <1>7, <1>8, <1>9

(* What page and server agree on about the other apps                      *)
LEMMA OthersAgree ==
  ASSUME TypeInv, SentInv, NEW x, Sends(x), UNCHANGED server
  PROVE  /\ \A m \in collection : /\ models[m].id # x.app.id /\ models'[m] = models[m] /\ Has(m)
                                  => Has(m)'
         /\ \A i : i # x.app.id /\ Lacks(i) => Lacks(i)'
<1>1. \A i : i # x.app.id => /\ Pending(i)' = Pending(i)
                             /\ Present(i, sent + 1) => Present(i, sent + 1)'
  BY SendKeeps
<1>2. ASSUME NEW i, i # x.app.id, NEW r \in Pending(i) PROVE Latest(r)' <=> Latest(r)
  <2>1. r \in requests /\ r.app.id = i
    BY DEF Pending
  <2> QED
    BY <1>2, <2>1, SendKeeps
<1>3. ASSUME NEW m \in collection, models[m].id # x.app.id, models'[m] = models[m], Has(m)
      PROVE  Has(m)'
  <2>1. PICK i : i = models[m].id
    OBVIOUS
  <2>2. Pending(i)' = Pending(i) /\ Present(i, sent + 1)' /\ \A r \in Pending(i) : Latest(r)' <=> Latest(r)
    BY <1>1, <1>2, <1>3, <2>1 DEF Has
  <2> QED
    BY <1>3, <2>1, <2>2 DEF Has
<1>4. ASSUME NEW i, i # x.app.id, Lacks(i) PROVE Lacks(i)'
  <2>1. Pending(i)' = Pending(i) /\ \A r \in Pending(i) : Latest(r)' <=> Latest(r)
    BY <1>1, <1>2, <1>4
  <2> QED
    BY <1>4, <2>1 DEF Lacks
<1> QED
  BY <1>3, <1>4

(* The apps a step is not about                                            *)
LEMMA AgreeSame ==
  ASSUME AgreeInv, \A i : Pending(i)' = Pending(i), UNCHANGED << sent, server, collection >>,
         excuses' = {} => excuses = {} /\ UNCHANGED models,
         listRequest' = "done" => listRequest = "done"
  PROVE  AgreeInv'
<1> SUFFICES ASSUME excuses' = {} PROVE AgreeInv'
  BY DEF AgreeInv
<1>0. excuses = {} /\ UNCHANGED models
  OBVIOUS
<1>1. \A i, n : Present(i, n)' <=> Present(i, n)
  BY DEF Present, Started
<1>2. \A r : Latest(r)' <=> Latest(r)
  BY DEF Latest
<1>3. \A m \in collection : Has(m) => Has(m)'
  BY <1>0, <1>1, <1>2 DEF Has
<1>4. \A i : Lacks(i) => Lacks(i)'
  BY <1>1, <1>2 DEF Lacks
<1>5. ASSUME NEW r \in requests', r.status = "sent", r.kind = "scale" PROVE Present(r.app.id, r.n)'
  <2>1. r \in Pending(r.app.id)'
    BY <1>5 DEF Pending
  <2>2. r \in requests
    BY <2>1 DEF Pending
  <2> QED
    BY <1>0, <1>1, <1>5, <2>2 DEF AgreeInv
<1> QED
  BY <1>0, <1>3, <1>4, <1>5 DEF AgreeInv

(* The server handles the earliest request on an app                       *)
LEMMA HandleAgrees ==
  ASSUME TypeInv, SentInv, AgreeInv, NEW r \in requests, ServerHandles(r)
  PROVE  AgreeInv'
<1> SUFFICES ASSUME excuses' = {} PROVE AgreeInv'
  BY DEF AgreeInv
<1>0. /\ excuses = {} /\ Earlier(r) = {} /\ UNCHANGED << models, collection, sent, listRequest >>
      /\ server' = Serve(r) /\ r.status = "sent"
      /\ requests' = (requests \ {r}) \cup {[r EXCEPT !.status = "handled"]}
  BY DEF ServerHandles, listVars
<1>1. /\ \A q \in requests : q \in RequestType /\ q.n \in Nat
      /\ \A q \in requests : q.n = r.n => q = r
  BY DEF TypeInv, RequestType, SentInv
<1>2. PICK i : i = r.app.id
  OBVIOUS
<1>3. [r EXCEPT !.status = "handled"].status = "handled"
  BY <1>1 DEF RequestType
<1>4. /\ Pending(i)' = Pending(i) \ {r} /\ r \in Pending(i)
      /\ \A j : j # i => Pending(j)' = Pending(j)
  BY <1>0, <1>2, <1>3 DEF Pending
<1>5. \A q \in Pending(i) : q \in requests /\ q.app.id = i /\ (q # r => r.n < q.n)
  BY <1>0, <1>1, <1>2 DEF Pending, Earlier
<1>6. /\ \A j : j # i => (j \in DOMAIN server' <=> j \in DOMAIN server)
      /\ \A j \in DOMAIN server : j # i => server'[j] = server[j]
      /\ r.kind = "stop" => i \notin DOMAIN server'
      /\ r.kind = "start" => i \in DOMAIN server' /\ server'[i] = r.app.instances
      /\ r.kind = "scale" => /\ i \in DOMAIN server' <=> i \in DOMAIN server
                             /\ i \in DOMAIN server => server'[i] = r.app.instances
  <2>1. r.kind \in {"start", "scale", "stop"}
    BY <1>1 DEF RequestType
  <2> QED
    BY <1>0, <1>2, <2>1 DEF Serve
<1>7. \A j, n : j # i => (Present(j, n)' <=> Present(j, n))
  BY <1>4, <1>6 DEF Present, Started
<1>8. ASSUME NEW n \in Nat, r.n < n, Present(i, n) PROVE Present(i, n)'
  <2>1. \A q \in Pending(i)' : q.n < n /\ q.kind = "stop" => Started(i, q.n, n)'
    <3> TAKE q \in Pending(i)'
    <3> HAVE q.n < n /\ q.kind = "stop"
    <3>1. q \in Pending(i) /\ q # r /\ r.n < q.n /\ q.n \in Nat
      BY <1>1, <1>4, <1>5
    <3>2. PICK s \in Pending(i) : q.n < s.n /\ s.n < n /\ s.kind = "start"
      BY <1>8, <3>1 DEF Present, Started
    <3>3. s # r
      BY <1>1, <3>1, <3>2
    <3> QED
      BY <1>4, <3>2, <3>3 DEF Started
  <2>2. ASSUME i \notin DOMAIN server' PROVE Started(i, 0, n)'
    <3>1. CASE r.kind = "stop"
      <4>1. PICK s \in Pending(i) : r.n < s.n /\ s.n < n /\ s.kind = "start"
        BY <1>4, <1>8, <3>1 DEF Present, Started
      <4>2. s # r /\ 0 < s.n
        BY <1>1, <1>5, <4>1
      <4> QED
        BY <1>4, <4>1, <4>2 DEF Started
    <3>2. CASE r.kind = "scale"
      <4>1. PICK s \in Pending(i) : 0 < s.n /\ s.n < n /\ s.kind = "start"
        BY <1>6, <1>8, <2>2, <3>2 DEF Present, Started
      <4> QED
        BY <1>4, <3>2, <4>1 DEF Started
    <3> QED
      BY <1>1, <1>6, <2>2, <3>1, <3>2 DEF RequestType
  <2> QED
    BY <2>1, <2>2 DEF Present
<1>9. \A q \in Pending(i)' : Latest(q)' => Latest(q)
  <2> TAKE q \in Pending(i)'
  <2>1. q \in Pending(i) /\ q.app.id = i /\ r.n < q.n /\ q.n \in Nat /\ r.n \in Nat
    BY <1>1, <1>4, <1>5
  <2> QED
    BY <1>4, <2>1 DEF Latest
<1>10. \A q \in requests : q.app.id # i => (Latest(q)' <=> Latest(q))
  BY <1>4 DEF Latest
<1>11. Pending(i)' = {} => Latest(r)
  BY <1>1, <1>2, <1>4 DEF Latest
<1>12. r.kind = "scale" => i \in DOMAIN server
  <2> SUFFICES ASSUME r.kind = "scale", i \notin DOMAIN server PROVE FALSE
    OBVIOUS
  <2>1. PICK s \in Pending(i) : s.n < r.n
    BY <1>0, <1>2 DEF AgreeInv, Present, Started
  <2> QED
    BY <1>1, <1>5, <2>1
<1>13. sent + 1 \in Nat /\ r.n < sent + 1
  BY DEF TypeInv, SentInv
<1>14. ASSUME NEW m \in collection PROVE Has(m)'
  <2>0. Has(m)
    BY <1>0 DEF AgreeInv
  <2>1. CASE models[m].id = i
    <3>1. Present(i, sent + 1)'
      BY <1>0, <1>8, <1>13, <2>0, <2>1 DEF Has
    <3>2. Pending(i)' = {} => i \in DOMAIN server' /\ server'[i] = models'[m].instances
      BY <1>0, <1>1, <1>4, <1>6, <1>11, <1>12, <2>0, <2>1 DEF Has, RequestType
    <3>3. \A q \in Pending(i)' : Latest(q)' => q.kind # "stop" /\ q.app.instances = models'[m].instances
      BY <1>0, <1>4, <1>9, <2>0, <2>1 DEF Has
    <3> QED
      BY <1>0, <2>1, <3>1, <3>2, <3>3 DEF Has
  <2>2. CASE models[m].id # i
    <3>1. PICK j : j = models[m].id
      OBVIOUS
    <3>2. Present(j, sent + 1)' /\ Pending(j)' = Pending(j)
      BY <1>0, <1>4, <1>7, <2>0, <2>2, <3>1 DEF Has
    <3>3. \A q \in Pending(j) : Latest(q)' <=> Latest(q)
      BY <1>10, <2>2, <3>1 DEF Pending
    <3> QED
      BY <1>0, <1>6, <2>0, <2>2, <3>1, <3>2, <3>3 DEF Has
  <2> QED
    BY <2>1, <2>2
<1>15. ASSUME NEW j \in Ids, Lacks(j) PROVE Lacks(j)'
  <2>1. CASE j = i
    BY <1>4, <1>6, <1>9, <1>11, <1>15, <2>1 DEF Lacks
  <2>2. CASE j # i
    <3>1. \A q \in Pending(j) : Latest(q)' <=> Latest(q)
      BY <1>10, <2>2 DEF Pending
    <3> QED
      BY <1>4, <1>6, <1>15, <2>2, <3>1 DEF Lacks
  <2> QED
    BY <2>1, <2>2
<1>16. ASSUME NEW q \in requests', q.status = "sent", q.kind = "scale" PROVE Present(q.app.id, q.n)'
  <2>1. q \in requests /\ q # r
    BY <1>0, <1>3, <1>16
  <2>2. Present(q.app.id, q.n) /\ q.n \in Nat
    BY <1>0, <1>1, <1>16, <2>1 DEF AgreeInv
  <2>3. q.app.id = i => r.n < q.n
    BY <1>5, <1>16, <2>1 DEF Pending
  <2> QED
    BY <1>7, <1>8, <2>2, <2>3
<1> QED
  BY <1>0, <1>14, <1>15, <1>16 DEF AgreeInv

(* Every step keeps page and server on the way to agree                    *)
LEMMA AgreeStep ==
  ASSUME TypeInv, ViewsInv, SentInv, AgreeInv, [MarathonNext]_marathonVars
  PROVE  AgreeInv'
<1>0. /\ Len(models) \in Nat /\ collection \subseteq 1 .. Len(models) /\ sent \in Nat
      /\ \A m, k \in collection : models[m].id = models[k].id => m = k
  BY PageTypes DEF TypeInv, SentInv
<1>a. ASSUME NEW x, Sends(x), UNCHANGED server, excuses = {} PROVE
        /\ \A r \in requests : r.status = "sent" /\ r.kind = "scale" => Present(r.app.id, r.n)'
        /\ x \in Pending(x.app.id)' /\ requests' = requests \cup {x}
  <2>1. \A r \in requests : r.n \in Nat /\ r.n <= sent + 1
    BY <1>0 DEF SentInv
  <2>2. \A i : \A n \in Nat : n <= sent + 1 /\ Present(i, n) => Present(i, n)'
    BY <1>a, SendKeeps
  <2> QED
    BY <1>a, <2>1, <2>2, SendKeeps DEF AgreeInv, Sends
<1>b. ASSUME NEW v \in Views, itemViews[v].inList, excuses = {} PROVE itemViews[v].model \in collection
  BY <1>b DEF ViewsInv
<1>1. CASE UNCHANGED marathonVars
  BY <1>1 DEF marathonVars, listVars, serverVars, AgreeInv, Has, Lacks, Present, Started, Pending,
              Latest
<1>2. ASSUME NEW v \in Views, NEW n \in Scales \cup {0}, ScaleClicked(v, n) PROVE AgreeInv'
  <2> SUFFICES ASSUME excuses' = {} PROVE AgreeInv'
    BY DEF AgreeInv
  <2>0. excuses = {} /\ UNCHANGED << collection, server, listRequest >> /\ itemViews[v].inList
    BY <1>2 DEF ScaleClicked, Clickable
  <2>1. PICK m : m = itemViews[v].model
    OBVIOUS
  <2>2. /\ m \in 1 .. Len(models) /\ sync("scale", m, models'[m]) /\ models'[m] \in App
        /\ \A k \in 1 .. Len(models) :
             models'[k] = IF k = m THEN [id |-> models[m].id, instances |-> n] ELSE models[k]
    BY <1>2, <2>1, ScaleIs
  <2>3. PICK x : Sends(x) /\ x.kind = "scale" /\ x.model = m /\ x.app = models'[m]
    BY <1>0, <2>2, SyncSends
  <2>4. PICK i : i = models[m].id
    OBVIOUS
  <2>5. /\ m \in collection /\ x.app.id = i /\ models'[m].id = i /\ x.app.instances = models'[m].instances
    BY <1>b, <2>0, <2>1, <2>2, <2>3, <2>4
  <2>6. \A k \in collection : k # m => models[k].id # i /\ models'[k] = models[k]
    BY <1>0, <2>2, <2>4, <2>5
  <2>7. \A k \in collection : models'[k].id = models[k].id
    BY <2>4, <2>5, <2>6
  <2>8. Has(m)'
    <3>1. Present(i, sent + 1)
      BY <2>0, <2>4, <2>5 DEF AgreeInv, Has
    <3>2. Present(i, sent + 1)'
      BY <2>0, <2>3, <3>1, SendKeeps
    <3>3. \A r \in Pending(i)' : Latest(r)' => r = x
      BY <2>0, <2>3, <2>5, SendKeeps
    <3>4. x \in Pending(i)'
      BY <1>a, <2>0, <2>3, <2>5
    <3> QED
      BY <2>3, <2>5, <3>2, <3>3, <3>4 DEF Has
  <2>9. \A k \in collection' : Has(k)'
    BY <2>0, <2>3, <2>5, <2>6, <2>8, OthersAgree DEF AgreeInv
  <2>10. ASSUME listRequest' = "done", NEW j \in Ids, \A k \in collection' : models'[k].id # j
         PROVE  Lacks(j)'
    BY <2>0, <2>3, <2>5, <2>7, <2>10, OthersAgree DEF AgreeInv
  <2>11. Present(x.app.id, x.n)'
    <3>1. Present(i, sent + 1) /\ x.n = sent + 1 /\ sent + 1 \in Nat
      BY <1>0, <2>0, <2>3, <2>4, <2>5 DEF AgreeInv, Has, Sends
    <3>2. PICK z \in Nat : z = sent + 1
      BY <3>1
    <3>3. Present(i, z)'
      BY <2>0, <2>3, <3>1, <3>2, SendKeeps
    <3> QED
      BY <2>5, <3>1, <3>2, <3>3
  <2> QED
    BY <1>a, <2>0, <2>3, <2>9, <2>10, <2>11 DEF AgreeInv
<1>3. ASSUME NEW v \in Views, DestroyClicked(v) PROVE AgreeInv'
  <2> SUFFICES ASSUME excuses' = {} PROVE AgreeInv'
    BY DEF AgreeInv
  <2>0. excuses = {} /\ UNCHANGED << models, server, listRequest >>
    BY <1>3 DEF DestroyClicked
  <2>1. PICK m : m = itemViews[v].model
    OBVIOUS
  <2>2. /\ m \in 1 .. Len(models) /\ models[m] \in App /\ sync("stop", m, models[m])
        /\ collection' = collection \ {m} /\ itemViews[v].inList
    BY <1>3, <2>1, DestroyIs
  <2>3. PICK x : Sends(x) /\ x.kind = "stop" /\ x.model = m /\ x.app = models[m]
    BY <1>0, <2>2, SyncSends
  <2>4. PICK i : i = models[m].id
    OBVIOUS
  <2>5. m \in collection /\ x.app.id = i
    BY <1>b, <2>0, <2>1, <2>2, <2>3, <2>4
  <2>6. \A k \in collection' : k \in collection /\ models[k].id # i /\ models'[k] = models[k]
    BY <1>0, <2>0, <2>2, <2>4, <2>5
  <2>7. \A k \in collection' : Has(k)'
    BY <2>0, <2>3, <2>5, <2>6, OthersAgree DEF AgreeInv
  <2>8. ASSUME listRequest' = "done", NEW j \in Ids, \A k \in collection' : models'[k].id # j
        PROVE  Lacks(j)'
    <3>1. CASE j = i
      <4>1. x \in Pending(i)' /\ \A r \in Pending(i)' : Latest(r)' => r = x
        BY <1>a, <2>0, <2>3, <2>5, SendKeeps
      <4> QED
        BY <2>3, <3>1, <4>1 DEF Lacks
    <3>2. CASE j # i
      <4>1. \A k \in collection : models[k].id # j
        BY <2>0, <2>2, <2>4, <2>8, <3>2
      <4>2. Lacks(j)
        BY <2>0, <2>8, <4>1 DEF AgreeInv
      <4> QED
        BY <2>0, <2>3, <2>5, <3>2, <4>2, OthersAgree
    <3> QED
      BY <3>1, <3>2
  <2> QED
    BY <1>a, <2>0, <2>3, <2>7, <2>8 DEF AgreeInv
<1>4. ASSUME NEW i \in Ids, save([id |-> i, instances |-> 1]) PROVE AgreeInv'
  <2> SUFFICES ASSUME excuses' = {} PROVE AgreeInv'
    BY DEF AgreeInv
  <2>1. PICK m, app : m = Len(models) + 1 /\ app = [id |-> i, instances |-> 1]
    OBVIOUS
  <2>2. ~Named(i)
    BY <1>4, SaveIs
  <2>3. /\ app \in App /\ m \in Nat /\ models'[m] = app /\ sync("start", m, app) /\ app.id = i
        /\ \A k \in 1 .. Len(models) : models'[k] = models[k]
        /\ collection' = collection \cup {m} /\ excuses = {}
    BY <1>4, <2>1, <2>2, SaveIs
  <2>4. PICK x : Sends(x) /\ x.kind = "start" /\ x.model = m /\ x.app = app
    BY <2>3, SyncSends
  <2>5. UNCHANGED << server, listRequest >>
    BY <1>4 DEF save
  <2>6. \A k \in collection : models[k].id # i /\ models'[k] = models[k]
    BY <1>0, <2>2, <2>3 DEF Named
  <2>7. x.app.id = i /\ x.app.instances = models'[m].instances /\ models'[m].id = i
    BY <2>3, <2>4
  <2>8. Has(m)'
    <3>1. x \in Pending(i)' /\ \A r \in Pending(i)' : Latest(r)' => r = x
      BY <1>a, <2>3, <2>4, <2>5, <2>7, SendKeeps
    <3>2. Pending(i)' = Pending(i) \cup {x} /\ x.n = sent + 1 /\ sent' = sent + 1
      BY <2>4, <2>5, <2>7, SendKeeps DEF Sends
    <3>3. \A q \in Pending(i) : q.n \in Nat /\ q.n <= sent
      BY <1>0 DEF Pending, SentInv
    <3>4. Started(i, 0, sent + 1)'
      BY <1>0, <2>4, <3>1, <3>2 DEF Started
    <3>5. \A q \in Pending(i)' : q.kind = "stop" => Started(i, q.n, sent + 1)'
      BY <1>0, <2>4, <3>1, <3>2, <3>3 DEF Started
    <3>6. Present(i, sent + 1)'
      BY <3>4, <3>5 DEF Present
    <3> QED
      BY <2>4, <2>7, <3>1, <3>6 DEF Has
  <2>9. \A k \in collection' : Has(k)'
    BY <2>3, <2>4, <2>5, <2>6, <2>7, <2>8, OthersAgree DEF AgreeInv
  <2>10. ASSUME listRequest' = "done", NEW j \in Ids, \A k \in collection' : models'[k].id # j
         PROVE  Lacks(j)'
    <3>1. j # i /\ \A k \in collection : models[k].id # j
      BY <2>3, <2>6, <2>7, <2>10
    <3>2. Lacks(j)
      BY <2>3, <2>5, <2>10, <3>1 DEF AgreeInv
    <3> QED
      BY <2>4, <2>5, <2>7, <3>1, <3>2, OthersAgree
  <2> QED
    BY <1>a, <2>3, <2>4, <2>5, <2>9, <2>10 DEF AgreeInv
<1>5. ASSUME NEW r \in requests, ServerHandles(r) PROVE AgreeInv'
  BY <1>5, HandleAgrees
<1>6. ASSUME NEW r \in requests, Answer(r) PROVE AgreeInv'
  <2>1. \A i : Pending(i)' = Pending(i)
    BY <1>6 DEF Answer, Pending
  <2>2. excuses' = {} => excuses = {} /\ UNCHANGED models
    BY <1>6, AnswerIs DEF Answer
  <2>3. UNCHANGED << sent, server, collection, listRequest >>
    BY <1>6 DEF Answer
  <2> QED
    BY <2>1, <2>2, <2>3, AgreeSame
<1>7. ASSUME NEW r \in requests, RequestFails(r) PROVE AgreeInv'
  BY <1>7 DEF RequestFails, AgreeInv
<1>8. CASE FetchDone
  <2> SUFFICES ASSUME excuses' = {} PROVE AgreeInv'
    BY DEF AgreeInv
  <2>1. models = << >> /\ UNCHANGED << requests, server, sent >>
    BY <1>8 DEF FetchDone
  <2>2. requests' = {} /\ server' = listed /\ Len(models) = 0
    BY <2>1 DEF SentInv
  <2>3. PICK f : Fetched(f)
    BY <1>8, FetchDoneIs
  <2>4. Len(f) \in Nat
    BY <2>3, LenProperties DEF Fetched
  <2>5. /\ collection' = 1 .. Len(f) /\ \A i \in 1 .. Len(f) : models'[i] = f[i]
    BY <2>2, <2>3, <2>4 DEF Fetched
  <2>6. \A i : Pending(i)' = {}
    BY <2>2 DEF Pending
  <2>7. \A m \in collection' : models'[m].id \in DOMAIN server' /\ server'[models'[m].id] = models'[m].instances
    BY <2>2, <2>3, <2>5 DEF Fetched
  <2>8. \A m \in collection' : Has(m)'
    BY <2>6, <2>7 DEF Has, Present
  <2>9. \A i : (\A m \in collection' : models'[m].id # i) => Lacks(i)'
    BY <2>2, <2>3, <2>5, <2>6 DEF Fetched, Lacks
  <2> QED
    BY <2>2, <2>8, <2>9 DEF AgreeInv
<1>9. CASE addNew \/ dismiss \/ ServerLists \/ FetchFails \/ KeyTimeout \/ \E text \in Texts : Key(text)
  <2>1. UNCHANGED << models, collection, requests, sent, server, excuses >>
    BY <1>9 DEF addNew, dismiss, ServerLists, FetchFails, KeyTimeout, Key, listVars, serverVars
  <2>2. listRequest' = "done" => listRequest = "done"
    BY <1>9 DEF addNew, dismiss, ServerLists, FetchFails, KeyTimeout, Key, serverVars
  <2>3. \A i : Pending(i)' = Pending(i)
    BY <2>1 DEF Pending
  <2> QED
    BY <2>1, <2>2, <2>3, AgreeSame
<1> QED
  BY <1>1, <1>2, <1>3, <1>4, <1>5, <1>6, <1>7, <1>8, <1>9, StepIs DEF StepKinds, Aside

(* What the run checks follows                                             *)
LEMMA ShownFollows ==
  ASSUME TypeInv, ViewsInv, FilterInv, SentInv, AgreeInv
  PROVE  MarathonShown
<1>0. /\ Views = 1 .. Len(itemViews) /\ models \in [1 .. Len(models) -> App]
      /\ collection \subseteq 1 .. Len(models)
  BY PageTypes DEF TypeInv
<1>1. MarathonTypeOK
  BY <1>0 DEF MarathonTypeOK, ViewsInv, FilterInv, App
<1>2. ListShowsApps
  <2>1. ASSUME NEW m \in collection PROVE Cardinality(InList(m)) = 1
    <3>1. PICK v \in Views : itemViews[v].model = m /\ itemViews[v].inList
      BY DEF ViewsInv
    <3>2. InList(m) = {v}
      BY <3>1 DEF InList, ViewsInv
    <3> QED
      BY <3>2, FS_Singleton
  <2> QED
    BY <2>1 DEF ListShowsApps, ViewsInv
<1>3. PageAgreesWithServer
  <2> SUFFICES ASSUME requests = {}, excuses = {}
               PROVE  /\ \A m \in collection :
                           models[m].id \in DOMAIN server /\ server[models[m].id] = models[m].instances
                      /\ listRequest = "done" => DOMAIN server = {models[m].id : m \in collection}
    BY DEF PageAgreesWithServer
  <2>1. \A i : Pending(i) = {}
    BY DEF Pending
  <2>2. \A m \in collection :
          models[m].id \in DOMAIN server /\ server[models[m].id] = models[m].instances
    BY <2>1 DEF AgreeInv, Has
  <2>3. listRequest = "done" => \A i \in DOMAIN server : \E m \in collection : models[m].id = i
    BY <2>1 DEF AgreeInv, Lacks, TypeInv
  <2> QED
    BY <2>2, <2>3
<1>4. FilterExact
  BY DEF FilterInv
<1> QED
  BY <1>1, <1>2, <1>3, <1>4 DEF MarathonShown

(* What the page shows is what its collection has, what the filter asks    *)
(* for and, once every request is answered and nothing has happened that   *)
(* the page does not cope with, what the server runs (marathon.js: create, *)
(* scale, destroy, fetch, the filter), for any names, texts and numbers of *)
(* instances and any number of requests and keys.                          *)
THEOREM PageShowsApps == MarathonSpec => []MarathonShown
<1> DEFINE I == TypeInv /\ ViewsInv /\ FilterInv /\ SentInv /\ AgreeInv
<1>1. MarathonInit => I
  BY MarathonStart
<1>2. I /\ [MarathonNext]_marathonVars => I'
  BY TypeStep, ViewsStep, FilterStep, SentStep, AgreeStep
<1>3. I => MarathonShown
  BY ShownFollows
<1> QED
  BY <1>1, <1>2, <1>3, PTL DEF MarathonSpec
=============================================================================
