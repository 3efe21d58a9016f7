-------------------------- MODULE RequireJsProofs ---------------------------
(***************************************************************************)
(* Proofs about RequireJs, for any modules, names, dependencies, cycles,   *)
(* shims, packages, paths, scripts and order of events.                    *)
(*                                                                         *)
(* TypeInv has the types.  They need to know what is in the queues of      *)
(* define (QueueInv), that a registered Module is found by its id          *)
(* (RegInv), and that init is called at once (InitFrames).  CallsInv says  *)
(* what the calls of anonymous Modules are made for.  From there on a step *)
(* of the loader is described by what it does to the Modules, the registry *)
(* and the calls (the predicates Did...), and the further invariants are   *)
(* proved from these descriptions alone:                                   *)
(*                                                                         *)
(*  - FlagInv: a call of define is made for a module that is being         *)
(*    defined, and only one for each;                                      *)
(*  - LoadInv: a module that has not moved to a fallback has one Module    *)
(*    and one script, first as a script of the page, then as the call      *)
(*    that its load or error event makes (Token);                          *)
(*  - WaitInv: waitCount is the number of modules that wait (Awaited).     *)
(*                                                                         *)
(* WaitInv needs LoadInv: an initialized Module that is not defined has to *)
(* be registered, or it would be counted once more when it is defined; but *)
(* removeWaiting unregisters the Module of a module that moves.  LoadInv   *)
(* says that this Module has not been initialized.  A second fallback      *)
(* breaks that, as the script of a place given up may come late.           *)
(***************************************************************************)
EXTENDS RequireJs, FiniteSetTheorems, FunctionTheorems, SequenceTheorems, WellFoundedInduction, TLAPS

(* The calls under way                                                     *)
IsSeq(s) == \E S : s \in Seq(S)
Frames == {stack[j] : j \in DOMAIN stack}

(* In the place of the call on top there are n others                      *)
Shifted(n) ==
  /\ IsSeq(stack') /\ Len(stack') = Len(stack) - 1 + n
  /\ \A j \in DOMAIN stack' : j > n => j - n + 1 \in DOMAIN stack /\ stack'[j] = stack[j - n + 1]

(* A set of numbers has a least element. *)
LEMMA LeastOf ==
  ASSUME NEW S, S \subseteq Nat, S # {}
  PROVE  \E x \in S : \A y \in S : x <= y
<1> DEFINE R == OpToRel(<, Nat)
<1>1. IsWellFoundedOn(R, Nat)
  BY NatLessThanWellFounded
<1>2. \A x, y \in Nat : << x, y >> \in R <=> x < y
  BY DEF OpToRel
<1> HIDE DEF R
<1>3. \E x \in S : \A y \in S : ~(<< y, x >> \in R)
  BY <1>1, WFMin
<1>4. PICK x \in S : \A y \in S : ~(<< y, x >> \in R)
  BY <1>3
<1>5. \A y \in S : x <= y
  <2> SUFFICES ASSUME NEW y \in S PROVE x <= y
    OBVIOUS
  <2>1. x \in Nat /\ y \in Nat /\ ~(y < x)
    BY <1>2, <1>4
  <2> QED
    BY <2>1
<1> QED
  BY <1>5

(* Head and Tail of a sequence, by position. *)
LEMMA HeadTailFacts ==
  ASSUME NEW S, NEW s \in Seq(S), s # << >>
  PROVE  /\ Head(s) = s[1] /\ Head(s) \in S /\ Tail(s) \in Seq(S) /\ Len(Tail(s)) = Len(s) - 1
         /\ Len(s) \in Nat \ {0} /\ \A j \in DOMAIN Tail(s) : Tail(s)[j] = s[j + 1]
OBVIOUS

(* A sequence that goes on by one element. *)
LEMMA JoinedOne ==
  ASSUME NEW S, NEW s \in Seq(S), NEW u \in Seq(S), NEW g \in S, Len(u) = Len(s) + 1,
         \A j \in 1..Len(s) : s[j] = u[j], u[Len(u)] = g
  PROVE  s \o << g >> = u
<1> DEFINE t == << g >>
<1>1. t \in Seq(S) /\ Len(t) = 1 /\ t[1] = g
  OBVIOUS
<1> HIDE DEF t
<1>2. s \o t \in Seq(S) /\ Len(s \o t) = Len(s) + 1
  <2>1. Len(s \o t) = Len(s) + Len(t)
    BY <1>1, ConcatProperties
  <2> QED
    BY <1>1, <2>1
<1>3. ASSUME NEW j \in 1..Len(u) PROVE (s \o t)[j] = u[j]
  <2>0. j \in 1..(Len(s) + Len(t)) /\ Len(s) \in Nat /\ (j <= Len(s) => j \in 1..Len(s))
    BY <1>1
  <2>1. (s \o t)[j] = IF j <= Len(s) THEN s[j] ELSE t[j - Len(s)]
    BY <1>1, <2>0, ConcatProperties
  <2>2. ~(j <= Len(s)) => j = Len(u) /\ j - Len(s) = 1
    BY <2>0
  <2> QED
    BY <1>1, <2>0, <2>1, <2>2
<1>4. s \o t = u
  BY <1>2, <1>3, SeqEqual
<1> QED
  BY <1>4 DEF t

(* The calls that a handler makes come before those under way. *)
LEMMA Joined1 ==
  ASSUME NEW f, NEW g
  PROVE  << f >> \o << g >> = << f, g >>
<1> DEFINE S == {f, g}
           s == << f >>
           u == << f, g >>
<1>1. s \in Seq(S) /\ u \in Seq(S) /\ g \in S /\ Len(s) = 1 /\ Len(u) = 2 /\ s[1] = u[1] /\ u[2] = g
  OBVIOUS
<1> HIDE DEF S, s, u
<1>3. (\A j \in 1..Len(s) : s[j] = u[j]) /\ Len(u) = Len(s) + 1 /\ u[Len(u)] = g
  BY <1>1
<1>2. s \o << g >> = u
  BY <1>1, <1>3, JoinedOne, ZenonT(20)
<1> QED
  BY <1>2 DEF s, u

LEMMA Joined2 ==
  ASSUME NEW f, NEW g, NEW e
  PROVE  << f, g >> \o << e >> = << f, g, e >>
<1> DEFINE S == {f, g, e}
           s == << f, g >>
           u == << f, g, e >>
<1>1. s \in Seq(S) /\ u \in Seq(S) /\ e \in S /\ Len(s) = 2 /\ Len(u) = 3 /\ s[1] = u[1] /\ s[2] = u[2] /\ u[3] = e
  OBVIOUS
<1> HIDE DEF S, s, u
<1>3. (\A j \in 1..Len(s) : s[j] = u[j]) /\ Len(u) = Len(s) + 1 /\ u[Len(u)] = e
  BY <1>1
<1>2. s \o << e >> = u
  BY <1>1, <1>3, JoinedOne, ZenonT(20)
<1> QED
  BY <1>2 DEF s, u

LEMMA Joined0 ==
  ASSUME NEW e
  PROVE  << >> \o << e >> = << e >> /\ << e >> \o << >> = << e >>
<1> DEFINE s == << e >>
<1> s \in Seq({e})
  OBVIOUS
<1> HIDE DEF s
<1> s \o << >> = s /\ << >> \o s = s
  BY ConcatEmptySeq
<1> QED
  BY DEF s

(* What the calls under way are made of. *)
LEMMA SeqFrom ==
  ASSUME NEW s, IsSeq(s)
  PROVE  s \in Seq({s[j] : j \in DOMAIN s}) /\ Len(s) \in Nat /\ DOMAIN s = 1..Len(s)
<1> PICK S : s \in Seq(S)
  BY DEF IsSeq
<1> QED
  OBVIOUS

LEMMA ShiftedAt ==
  ASSUME NEW n, Shifted(n)
  PROVE  Len(stack') \in Nat /\ DOMAIN stack' = 1..Len(stack')
<1> PICK S : stack' \in Seq(S)
  BY DEF Shifted, IsSeq
<1> QED
  OBVIOUS

LEMMA Pushed ==
  ASSUME IsSeq(stack), stack # << >>, NEW T, NEW fs \in Seq(T), Calls(fs)
  PROVE  Shifted(Len(fs)) /\ \A j \in 1..Len(fs) : j \in DOMAIN stack' /\ stack'[j] = fs[j]
<1>1. PICK S : stack \in Seq(S)
  BY DEF IsSeq
<1>2. Tail(stack) \in Seq(S) /\ Len(Tail(stack)) = Len(stack) - 1 /\ Len(stack) > 0
  BY <1>1
<1>3. \A j \in 1..Len(Tail(stack)) : Tail(stack)[j] = stack[j + 1]
  BY <1>1
<1>4. fs \in Seq(S \cup T) /\ Tail(stack) \in Seq(S \cup T)
  BY <1>2
<1>5. stack' \in Seq(S \cup T) /\ Len(stack') = Len(fs) + Len(Tail(stack))
  BY <1>4 DEF Calls
<1>6. \A j \in 1..Len(stack') : stack'[j] = IF j <= Len(fs) THEN fs[j] ELSE Tail(stack)[j - Len(fs)]
  BY <1>4, <1>5 DEF Calls
<1>7. ASSUME NEW j \in DOMAIN stack', j > Len(fs)
      PROVE  j - Len(fs) + 1 \in DOMAIN stack /\ stack'[j] = stack[j - Len(fs) + 1]
  <2>1. j \in 1..Len(stack') /\ j - Len(fs) \in 1..Len(Tail(stack))
    BY <1>5, <1>2, <1>7
  <2> QED
    BY <2>1, <1>1, <1>2, <1>3, <1>6, <1>7
<1>8. \A j \in 1..Len(fs) : j \in DOMAIN stack' /\ stack'[j] = fs[j]
  BY <1>5, <1>6, <1>2
<1> QED
  BY <1>1, <1>2, <1>5, <1>7, <1>8 DEF Shifted, IsSeq

(* A handler that makes no, one, two or three calls. *)
LEMMA Push0 ==
  ASSUME IsSeq(stack), stack # << >>, Calls(<< >>) \/ Return
  PROVE  Shifted(0)
<1>1. Calls(<< >>)
  <2>1. PICK S : stack \in Seq(S)
    BY DEF IsSeq
  <2>2. Tail(stack) \in Seq(S)
    BY <2>1
  <2>3. << >> \o Tail(stack) = Tail(stack)
    BY <2>2, ConcatEmptySeq
  <2> QED
    BY <2>3 DEF Calls, Return
<1> DEFINE fs == << >>
<1>2. fs \in Seq({}) /\ Len(fs) = 0 /\ Calls(fs)
  BY <1>1
<1> HIDE DEF fs
<1> QED
  BY <1>2, Pushed

LEMMA Push1 ==
  ASSUME IsSeq(stack), stack # << >>, NEW f, Calls(<< f >>)
  PROVE  Shifted(1) /\ 1 \in DOMAIN stack' /\ stack'[1] = f
<1> DEFINE fs == << f >>
<1> fs \in Seq({f}) /\ Len(fs) = 1 /\ fs[1] = f
  OBVIOUS
<1>1. Calls(fs)
  OBVIOUS
<1> HIDE DEF fs
<1> QED
  BY <1>1, Pushed, SMTT(20)

LEMMA Push2 ==
  ASSUME IsSeq(stack), stack # << >>, NEW f, NEW g, Calls(<< f, g >>)
  PROVE  Shifted(2) /\ {1, 2} \subseteq DOMAIN stack' /\ stack'[1] = f /\ stack'[2] = g
<1> DEFINE fs == << f, g >>
<1> fs \in Seq({f, g}) /\ Len(fs) = 2 /\ fs[1] = f /\ fs[2] = g
  OBVIOUS
<1>1. Calls(fs)
  OBVIOUS
<1> HIDE DEF fs
<1> QED
  BY <1>1, Pushed, SMTT(20)

LEMMA Push3 ==
  ASSUME IsSeq(stack), stack # << >>, NEW f, NEW g, NEW e, Calls(<< f, g, e >>)
  PROVE  /\ Shifted(3) /\ {1, 2, 3} \subseteq DOMAIN stack'
         /\ stack'[1] = f /\ stack'[2] = g /\ stack'[3] = e
<1> DEFINE fs == << f, g, e >>
<1> fs \in Seq({f, g, e}) /\ Len(fs) = 3 /\ fs[1] = f /\ fs[2] = g /\ fs[3] = e
  OBVIOUS
<1>1. Calls(fs)
  OBVIOUS
<1> HIDE DEF fs
<1>2. Shifted(3) /\ \A j \in 1..3 : j \in DOMAIN stack' /\ stack'[j] = fs[j]
  BY <1>1, Pushed
<1> QED
  BY <1>2

(* What the fields of a call and of a Module hold when there are n Modules *)
Errs(n)  == ({"user"} \X Requires) \cup ({"emit"} \X (1..n))
Backs(n) == ({"user"} \X Requires) \cup ({"load"} \X (1..n))
Hears(n) == (1..n) \X Nat
AllPlaces == UNION {Places(i) : i \in Ids}
Flags == {"inited", "enabled", "waitPushed", "enabling", "fetched", "error", "defining",
          "defined", "emitted", "complete"}
Mod(n) ==
  [id : Ids \cup {<< >>}, base : Ids \cup {NONE}, url : AllPlaces \cup {<< >>},
   is : SUBSET Flags, deps : Seq(Ids \cup handlers), depCount : Int, depMatched : SUBSET Nat,
   onDefined : Seq(Hears(n)), onError : Seq(Errs(n)),
   errback : Errs(n) \cup {NONE}, callback : Backs(n) \cup {NONE}]

Good(f, n) ==
  /\ f.op \in {"check", "define"} => f \in [op : {f.op}, h : 1..n, silent : BOOLEAN]
  /\ f.op \in {"enable", "execCb", "notify", "force"} => f \in [op : {f.op}, h : 1..n]
  /\ f.op \in {"wire", "forceDep", "forced"} => f \in [op : {f.op}, h : 1..n, i : Nat \ {0}]
  /\ f.op \in {"emit", "emitError"} => f \in [op : {f.op}, h : 1..n, k : Nat \ {0}]
  /\ f.op = "init" => f \in [op : {"init"}, h : 1..n, deps : Seq(Names), enabled : BOOLEAN,
                             callback : Backs(n) \cup {NONE}, errback : Errs(n) \cup {NONE}]
  /\ f.op = "require" =>
       /\ f \in [op : {"require"}, deps : Seq(Names), base : Ids \cup {NONE},
                 callback : Backs(n) \cup {NONE}, errback : Errs(n) \cup {NONE}]
       /\ IdsIn(f.deps, f.base) \subseteq Ids
  /\ f.op = "onError" => f \in [op : {"onError"}, ids : Seq(Names), notified : BOOLEAN]
  /\ f.op \in {"complete", "completed"} => f \in [op : {f.op}, id : Ids, found : BOOLEAN]
  /\ f.op = "scriptError" => f \in [op : {"scriptError"}, id : Ids]
  /\ f.op = "scan" => f \in [op : {"scan"}, hs : Seq(1..n), expired : BOOLEAN, noLoads : Seq(Names),
                             stillLoading : BOOLEAN, needCycleCheck : BOOLEAN, fallback : BOOLEAN]
  /\ f.op = "cycles" => f \in [op : {"cycles"}, k : Nat \ {0}, ary : Seq(1..n)]
  /\ f.op = "checkEach" => f \in [op : {"checkEach"}, hs : Seq(1..n), always : BOOLEAN]

ModsOk == mods \in Seq(Mod(Len(mods)))
StackOk == IsSeq(stack) /\ \A f \in Frames : Good(f, Len(mods))
Heard(n) == [defined : Seq(Hears(n)), error : Seq(Errs(n))]
NamesOk ==
  /\ defined \subseteq Ids /\ paths \in MovedPaths /\ DOMAIN undefEvents \subseteq Ids
  /\ \A i \in DOMAIN undefEvents : undefEvents[i] \in Heard(Len(mods))
WaitOk == waitAry \in Seq(Handles) /\ waitCount \in Int
Script == [id : Ids, url : AllPlaces, executed : BOOLEAN]
PageOk ==
  /\ {inCheckLoaded, timer, expired, useInteractive} \subseteq BOOLEAN /\ issued \in Nat
  /\ scripts \subseteq Script
  /\ \A s \in scripts : s.url \in Places(s.id) /\ (s.executed => s.url \in DOMAIN Site)
  /\ traced \in Seq(Handles)
SeenOk ==
  /\ runs \in [Ids -> Nat] /\ called \in [Requires -> Nat] /\ errors \in [Requires -> 0..2]
  /\ failed \subseteq Ids
(* The call of define that the script of i makes                           *)
EntryOf(i) == [name |-> IF Kind[i] = "named" THEN i ELSE NONE, deps |-> DepNames[i]]
Sourced == {i \in Ids : Kind[i] # "plain"}
NamedEntries == {[name |-> i, deps |-> DepNames[i]] : i \in Sourced}
(* In IE 6-8 every entry has its name.  Elsewhere a script and its load    *)
(* event come together, so the one entry in the queue is the script's      *)
QueueInv ==
  /\ useInteractive => globalDefQueue = << >> /\ defQueue \in Seq(NamedEntries)
  /\ ~useInteractive =>
       /\ defQueue = << >>
       /\ \A s \in scripts : s.executed => stack = << >>
       /\ \A s, t \in scripts : s.executed /\ t.executed => s = t
       /\ globalDefQueue # << >> => \E i \in Sourced :
            /\ globalDefQueue = << EntryOf(i) >>
            /\ \/ \E s \in scripts : s.executed /\ s.id = i
               \/ stack = << [op |-> "complete", id |-> i, found |-> FALSE] >>
RegInv ==
  /\ registry \in Seq(Handles)
  /\ \A j, k \in DOMAIN registry :
       mods[registry[j]].id = mods[registry[k]].id /\ isDefine(registry[j]) => j = k
  /\ \A j, k \in DOMAIN registry : registry[j] = registry[k] => j = k
  /\ \A h \in Handles : isDefine(h) => mods[h].url \in Places(mods[h].id) /\ mods[h].base = mods[h].id
(* A call of init is made at once                                          *)
InitFrames ==
  \A j \in DOMAIN stack : stack[j].op = "init" =>
    /\ j = 1 /\ Registered(stack[1].h)
    /\ IdsIn(stack[1].deps, mods[stack[1].h].base) \subseteq Ids
TypeInv ==
  ModsOk /\ StackOk /\ NamesOk /\ WaitOk /\ PageOk /\ SeenOk /\ QueueInv /\ RegInv /\ InitFrames

Kept == \A g \in Handles :
  g \in DOMAIN mods' /\ mods'[g].id = mods[g].id /\ mods'[g].base = mods[g].base /\ mods'[g].url = mods[g].url

-----------------------------------------------------------------------------
(* Array.splice takes one element out and keeps the others, in order. *)
LEMMA CutFacts ==
  ASSUME NEW S, NEW s \in Seq(S), NEW k \in DOMAIN s
  PROVE  /\ Cut(s, k, k) \in Seq(S) /\ Len(Cut(s, k, k)) = Len(s) - 1
         /\ \A j \in DOMAIN Cut(s, k, k) : Cut(s, k, k)[j] = IF j < k THEN s[j] ELSE s[j + 1]
<1> DEFINE a == SubSeq(s, 1, k - 1)
           b == SubSeq(s, k + 1, Len(s))
<1>0. k \in 1..Len(s) /\ Len(s) \in Nat
  OBVIOUS
<1>1. a \in Seq(S) /\ Len(a) = k - 1 /\ \A j \in 1..(k - 1) : a[j] = s[j]
  BY <1>0
<1>2. b \in Seq(S) /\ Len(b) = Len(s) - k /\ \A j \in 1..(Len(s) - k) : b[j] = s[j + k]
  BY <1>0
<1>3. Cut(s, k, k) = a \o b
  BY DEF Cut
<1> HIDE DEF a, b
<1>4. a \o b \in Seq(S) /\ Len(a \o b) = Len(s) - 1
  BY <1>0, <1>1, <1>2
<1>5. \A j \in 1..(Len(s) - 1) : (a \o b)[j] = IF j < k THEN a[j] ELSE b[j - k + 1]
  <2>1. \A j \in 1..(Len(a) + Len(b)) : (a \o b)[j] = IF j <= Len(a) THEN a[j] ELSE b[j - Len(a)]
    BY <1>1, <1>2, ConcatProperties
  <2>2. \A j \in 1..(Len(s) - 1) : j - (k - 1) = j - k + 1 /\ (j <= k - 1 <=> j < k)
    BY <1>0
  <2>3. Len(a) = k - 1 /\ Len(a) + Len(b) = Len(s) - 1
    BY <1>0, <1>1, <1>2
  <2>4. \A j \in 1..(Len(s) - 1) : (a \o b)[j] = IF j <= k - 1 THEN a[j] ELSE b[j - (k - 1)]
    BY <2>1, <2>3
  <2> QED
    BY <2>2, <2>4
<1>6. ASSUME NEW j \in 1..(Len(s) - 1) PROVE (a \o b)[j] = IF j < k THEN s[j] ELSE s[j + 1]
  <2>1. CASE j < k
    BY <2>1, <1>0, <1>1, <1>5
  <2>2. CASE ~(j < k)
    <3>1. j - k + 1 \in 1..(Len(s) - k) /\ j - k + 1 + k = j + 1
      BY <2>2, <1>0
    <3> QED
      BY <2>2, <3>1, <1>2, <1>5
  <2> QED
    BY <2>1, <2>2
<1>7. DOMAIN (a \o b) = 1..(Len(s) - 1)
  BY <1>4
<1> QED
  BY <1>3, <1>4, <1>6, <1>7

(* What is typed stays typed when there are more Modules. *)
LEMMA MoreMods ==
  ASSUME NEW n \in Nat, NEW m \in Nat, n <= m
  PROVE  /\ 1..n \subseteq 1..m /\ Errs(n) \subseteq Errs(m) /\ Backs(n) \subseteq Backs(m)
         /\ Hears(n) \subseteq Hears(m) /\ Heard(n) \subseteq Heard(m) /\ Mod(n) \subseteq Mod(m)
<1>1. 1..n \subseteq 1..m
  OBVIOUS
<1>2. Errs(n) \subseteq Errs(m) /\ Backs(n) \subseteq Backs(m) /\ Hears(n) \subseteq Hears(m)
  BY <1>1 DEF Errs, Backs, Hears
<1>3. Seq(Hears(n)) \subseteq Seq(Hears(m)) /\ Seq(Errs(n)) \subseteq Seq(Errs(m))
  BY <1>2
<1>4. Heard(n) \subseteq Heard(m)
  BY <1>3 DEF Heard
<1>5. Mod(n) \subseteq Mod(m)
  BY <1>2, <1>3 DEF Mod
<1> QED
  BY <1>1, <1>2, <1>4, <1>5

LEMMA MoreGood ==
  ASSUME NEW n \in Nat, NEW m \in Nat, n <= m, NEW f, Good(f, n)
  PROVE  Good(f, m)
<1>1. 1..n \subseteq 1..m /\ Errs(n) \subseteq Errs(m) /\ Backs(n) \subseteq Backs(m)
  BY MoreMods
<1>2. Seq(1..n) \subseteq Seq(1..m)
  BY <1>1
<1> QED
  BY <1>1, <1>2 DEF Good

(* The calls stay typed when the one on top is replaced. *)
LEMMA StackGoes ==
  ASSUME StackOk, ModsOk, ModsOk', Len(mods) <= Len(mods'), NEW k \in Nat, Shifted(k),
         \A j \in 1..k : j \in DOMAIN stack' => Good(stack'[j], Len(mods'))
  PROVE  StackOk'
<1>1. Len(mods) \in Nat /\ Len(mods') \in Nat
  BY DEF ModsOk
<1>2. ASSUME NEW j \in DOMAIN stack' PROVE Good(stack'[j], Len(mods'))
  <2>1. j \in Nat \ {0}
    BY ShiftedAt
  <2>2. CASE j > k
    BY <1>1, <2>2, MoreGood DEF Shifted, StackOk, Frames
  <2>3. CASE j <= k
    BY <2>1, <2>3
  <2> QED
    BY <2>1, <2>2, <2>3
<1> QED
  BY <1>2 DEF StackOk, Frames, Shifted

(* A step that leaves the queues of define and executes no script. *)
LEMMA QueueKept ==
  ASSUME QueueInv, stack # << >>, Head(stack).op # "complete", UNCHANGED << queues, useInteractive >>,
         \A s \in scripts' : s.executed => s \in scripts
  PROVE  QueueInv' /\ (~useInteractive => globalDefQueue = << >> /\ \A s \in scripts' : ~s.executed)
<1>1. ASSUME ~useInteractive PROVE globalDefQueue = << >> /\ \A s \in scripts' : ~s.executed
  <2>1. \A i : stack = << [op |-> "complete", id |-> i, found |-> FALSE] >> => FALSE
    OBVIOUS
  <2>2. \A s \in scripts : ~s.executed
    BY <1>1 DEF QueueInv
  <2>3. globalDefQueue = << >>
    BY <1>1, <2>1, <2>2 DEF QueueInv
  <2> QED
    BY <2>2, <2>3
<1> QED
  BY <1>1 DEF QueueInv, queues

(* A step that calls init for nobody. *)
LEMMA InitKept ==
  ASSUME InitFrames, NEW k \in Nat, Shifted(k), \A j \in 1..k : j \in DOMAIN stack' => stack'[j].op # "init"
  PROVE  InitFrames'
<1>1. \A j \in DOMAIN stack' : j \in Nat \ {0}
  BY ShiftedAt
<1>2. ASSUME NEW j \in DOMAIN stack' PROVE stack'[j].op # "init"
  <2>1. CASE j > k
    <3>1. j - k + 1 \in DOMAIN stack /\ stack'[j] = stack[j - k + 1] /\ j - k + 1 # 1
      BY <2>1, <1>1 DEF Shifted
    <3> QED
      BY <3>1 DEF InitFrames
  <2> QED
    BY <2>1, <1>1
<1> QED
  BY <1>2 DEF InitFrames

(* A step that registers nobody. *)
LEMMA RegKept ==
  ASSUME RegInv, UNCHANGED registry, Kept, ModsOk, ModsOk', Len(mods') = Len(mods)
  PROVE  RegInv'
<1>1. Handles' = Handles
  BY DEF Handles
<1>2. \A j \in DOMAIN registry : registry[j] \in Handles
  BY DEF RegInv
<1>3. \A g \in Handles : mods'[g].id = mods[g].id /\ mods'[g].url = mods[g].url /\ mods'[g].base = mods[g].base
  BY DEF Kept
<1> QED
  BY <1>1, <1>2, <1>3 DEF RegInv, isDefine

(* A Module is a position of mods. *)
LEMMA HandleFacts ==
  ASSUME ModsOk
  PROVE  /\ Len(mods) \in Nat /\ Handles = DOMAIN mods /\ DOMAIN mods = 1..Len(mods)
         /\ \A h \in Handles : mods[h] \in Mod(Len(mods))
BY DEF ModsOk, Handles

LEMMA ModFields ==
  ASSUME NEW n, NEW m \in Mod(n)
  PROVE  /\ m = [id |-> m.id, base |-> m.base, url |-> m.url, is |-> m.is, deps |-> m.deps,
                 depCount |-> m.depCount, depMatched |-> m.depMatched, onDefined |-> m.onDefined,
                 onError |-> m.onError, errback |-> m.errback, callback |-> m.callback]
         /\ m.id \in Ids \cup {<< >>} /\ m.base \in Ids \cup {NONE} /\ m.url \in AllPlaces \cup {<< >>}
         /\ m.is \subseteq Flags /\ m.deps \in Seq(Ids \cup handlers) /\ m.depCount \in Int
         /\ m.depMatched \subseteq Nat /\ m.onDefined \in Seq(Hears(n)) /\ m.onError \in Seq(Errs(n))
         /\ m.errback \in Errs(n) \cup {NONE} /\ m.callback \in Backs(n) \cup {NONE}
BY DEF Mod

(* The call on top is typed. *)
LEMMA TopGood ==
  ASSUME StackOk, stack # << >>
  PROVE  /\ Top = stack[1] /\ 1 \in DOMAIN stack /\ Top \in Frames /\ Good(Top, Len(mods))
         /\ Len(stack) \in Nat \ {0} /\ DOMAIN stack = 1..Len(stack)
<1>1. PICK S : stack \in Seq(S)
  BY DEF StackOk, IsSeq
<1>2. Len(stack) \in Nat \ {0} /\ DOMAIN stack = 1..Len(stack) /\ Head(stack) = stack[1]
  BY <1>1
<1> QED
  BY <1>2 DEF Top, StackOk, Frames

(* removeScript's shift() of a path leaves a place that the page names. *)
LEMMA MovedOn ==
  ASSUME NEW q \in MovedPaths, NEW p \in DOMAIN q, Len(q[p]) > 1
  PROVE  [q EXCEPT ![p] = Tail(@)] \in MovedPaths
<1>1. p \in DOMAIN Paths /\ q[p] \in Rests(p)
  BY DEF MovedPaths
<1>2. PICK k \in 1..Len(Paths[p]) : q[p] = SubSeq(Paths[p], k, Len(Paths[p]))
  BY <1>1 DEF Rests
<1> DEFINE s == Paths[p]
<1>3. s \in Seq(Names)
  BY <1>1, RequireAssumption
<1> HIDE DEF s
<1>4. k \in Nat \ {0} /\ k <= Len(s) /\ Len(s) \in Nat
  BY <1>2, <1>3 DEF s
<1>5. Len(SubSeq(s, k, Len(s))) = Len(s) - k + 1
  BY <1>3, <1>4
<1>6. k < Len(s)
  BY <1>2, <1>4, <1>5 DEF s
<1>7. Tail(SubSeq(s, k, Len(s))) = SubSeq(s, k + 1, Len(s))
  <2> DEFINE a == SubSeq(s, k, Len(s))
             b == SubSeq(s, k + 1, Len(s))
  <2>1. a \in Seq(Names) /\ \A j \in 1..Len(a) : a[j] = s[j + k - 1]
    BY <1>3, <1>4, <1>5
  <2>2. b \in Seq(Names) /\ Len(b) = Len(s) - k /\ \A j \in 1..Len(b) : b[j] = s[j + k]
    BY <1>3, <1>4, <1>6
  <2>3. Len(a) = Len(s) - k + 1
    BY <1>5
  <2> HIDE DEF a, b
  <2>4. Tail(a) \in Seq(Names) /\ Len(Tail(a)) = Len(s) - k /\ \A j \in 1..Len(Tail(a)) : Tail(a)[j] = a[j + 1]
    BY <2>1, <2>3, <1>4, <1>6
  <2>5. ASSUME NEW j \in 1..Len(b) PROVE Tail(a)[j] = b[j]
    <3>1. j \in 1..Len(Tail(a)) /\ j + 1 \in 1..Len(a) /\ (j + 1) + k - 1 = j + k
      BY <2>2, <2>3, <2>4, <1>4, <1>6
    <3>2. a[j + 1] = s[(j + 1) + k - 1]
      BY <2>1, <3>1
    <3> QED
      BY <2>2, <2>4, <3>1, <3>2
  <2>6. Tail(a) = b
    BY <2>2, <2>4, <2>5, SeqEqual
  <2> QED
    BY <2>6 DEF a, b
<1>8. Tail(q[p]) \in Rests(p)
  <2>1. k + 1 \in 1..Len(Paths[p])
    BY <1>4, <1>6 DEF s
  <2>2. Tail(q[p]) = SubSeq(Paths[p], k + 1, Len(Paths[p]))
    BY <1>2, <1>7 DEF s
  <2> QED
    BY <2>1, <2>2 DEF Rests
<1> QED
  BY <1>1, <1>8 DEF MovedPaths

(* nameToUrl gives a place of the module. *)
LEMMA UrlPlaced ==
  ASSUME NamesOk, NEW id \in Ids
  PROVE  nameToUrl(id, paths) \in Places(id) /\ nameToUrl(id, paths) \in AllPlaces
BY DEF NamesOk, Places, AllPlaces

(* registry[id] is the registered Module of that id, if there is one. *)
LEMMA LookupFacts ==
  ASSUME ModsOk, RegInv, NEW id
  PROVE  /\ Lookup(id) # 0 => Lookup(id) \in Handles /\ Registered(Lookup(id)) /\ mods[Lookup(id)].id = id
         /\ Lookup(id) = 0 => \A k \in DOMAIN registry : mods[registry[k]].id # id
<1> DEFINE hs == {registry[k] : k \in DOMAIN registry}
<1>1. hs \subseteq Handles /\ 0 \notin Handles
  BY DEF RegInv, Handles
<1>2. \A h \in hs : Registered(h)
  BY DEF Registered
<1>3. Lookup(id) = IF \E h \in hs : mods[h].id = id THEN CHOOSE h \in hs : mods[h].id = id ELSE 0
  BY DEF Lookup
<1> HIDE DEF hs
<1>4. CASE \E h \in hs : mods[h].id = id
  BY <1>1, <1>2, <1>3, <1>4
<1>5. CASE ~\E h \in hs : mods[h].id = id
  BY <1>1, <1>2, <1>3, <1>5 DEF hs
<1> QED
  BY <1>4, <1>5

(* cleanRegistry deletes one Module and keeps the others. *)
LEMMA UnregisterFacts ==
  ASSUME RegInv, NEW h
  PROVE  /\ Unregister(h) \in Seq(Handles)
         /\ \A j \in DOMAIN Unregister(h) :
              Unregister(h)[j] # h /\ \E k \in DOMAIN registry : Unregister(h)[j] = registry[k]
         /\ \A k \in DOMAIN registry : registry[k] # h =>
              \E j \in DOMAIN Unregister(h) : Unregister(h)[j] = registry[k]
         /\ \A i, j \in DOMAIN Unregister(h) : Unregister(h)[i] = Unregister(h)[j] => i = j
<1>0. registry \in Seq(Handles) /\ \A j, k \in DOMAIN registry : registry[j] = registry[k] => j = k
  BY DEF RegInv
<1>1. CASE ~Registered(h)
  BY <1>0, <1>1 DEF Unregister, Registered
<1>2. CASE Registered(h)
  <2> DEFINE k == CHOOSE j \in DOMAIN registry : registry[j] = h
  <2>1. k \in DOMAIN registry /\ registry[k] = h
    BY <1>2 DEF Registered
  <2>2. Unregister(h) = Cut(registry, k, k)
    BY <1>2 DEF Unregister
  <2> HIDE DEF k
  <2> DEFINE c == Cut(registry, k, k)
  <2>3. c \in Seq(Handles) /\ Len(c) = Len(registry) - 1
        /\ \A j \in DOMAIN c : c[j] = IF j < k THEN registry[j] ELSE registry[j + 1]
    BY <1>0, <2>1, CutFacts
  <2> HIDE DEF c
  <2>4. DOMAIN c = 1..(Len(registry) - 1) /\ DOMAIN registry = 1..Len(registry) /\ Len(registry) \in Nat
    BY <1>0, <2>3
  <2>5. \A j \in DOMAIN c : c[j] # h /\ \E l \in DOMAIN registry : c[j] = registry[l]
    BY <1>0, <2>1, <2>3, <2>4
  <2>6. ASSUME NEW l \in DOMAIN registry, registry[l] # h PROVE \E j \in DOMAIN c : c[j] = registry[l]
    <3>1. CASE l < k
      BY <3>1, <2>1, <2>3, <2>4, <2>6
    <3>2. CASE ~(l < k)
      <4>1. l - 1 \in DOMAIN c /\ ~(l - 1 < k) /\ l - 1 + 1 = l
        BY <3>2, <2>1, <2>4, <2>6
      <4> QED
        BY <4>1, <2>3
    <3> QED
      BY <3>1, <3>2
  <2>7. \A i, j \in DOMAIN c : c[i] = c[j] => i = j
    <3> SUFFICES ASSUME NEW i \in DOMAIN c, NEW j \in DOMAIN c, c[i] = c[j] PROVE i = j
      OBVIOUS
    <3>0. i \in Nat /\ j \in Nat /\ k \in Nat
      BY <2>1, <2>4
    <3>1. CASE i < k /\ j < k
      BY <3>1, <1>0, <2>3, <2>4, <3>0
    <3>2. CASE i < k /\ ~(j < k)
      BY <3>2, <1>0, <2>3, <2>4, <3>0
    <3>3. CASE ~(i < k) /\ j < k
      BY <3>3, <1>0, <2>3, <2>4, <3>0
    <3>4. CASE ~(i < k) /\ ~(j < k)
      BY <3>4, <1>0, <2>3, <2>4, <3>0, SMTT(20)
    <3> QED
      BY <3>1, <3>2, <3>3, <3>4
  <2> QED
    BY <2>2, <2>3, <2>5, <2>6, <2>7 DEF c
<1> QED
  BY <1>1, <1>2

LEMMA RegUnregistered ==
  ASSUME ModsOk, ModsOk', RegInv, NEW h, registry' = Unregister(h), Kept, Len(mods') = Len(mods)
  PROVE  RegInv'
<1>0. Handles' = Handles
  BY DEF Handles
<1>1. registry' \in Seq(Handles) /\ \A j \in DOMAIN registry' : \E k \in DOMAIN registry : registry'[j] = registry[k]
  BY UnregisterFacts
<1>2. \A i, j \in DOMAIN registry' : registry'[i] = registry'[j] => i = j
  BY UnregisterFacts
<1>3. \A g \in Handles : mods'[g].id = mods[g].id /\ mods'[g].url = mods[g].url /\ mods'[g].base = mods[g].base
  BY DEF Kept
<1>4. ASSUME NEW i \in DOMAIN registry', NEW j \in DOMAIN registry',
             mods'[registry'[i]].id = mods'[registry'[j]].id, mods'[registry'[i]].id # << >>
      PROVE  i = j
  <2>1. PICK k \in DOMAIN registry : registry'[i] = registry[k]
    BY <1>1
  <2>2. PICK l \in DOMAIN registry : registry'[j] = registry[l]
    BY <1>1
  <2>3. registry[k] \in Handles /\ registry[l] \in Handles
    BY DEF RegInv
  <2>4. mods[registry[k]].id = mods[registry[l]].id /\ isDefine(registry[k])
    BY <1>3, <1>4, <2>1, <2>2, <2>3 DEF isDefine
  <2>5. k = l
    BY <2>4 DEF RegInv
  <2> QED
    BY <1>2, <2>1, <2>2, <2>5
<1>5. \A g \in Handles : mods'[g].id # << >> =>
        mods'[g].url \in Places(mods'[g].id) /\ mods'[g].base = mods'[g].id
  BY <1>3 DEF RegInv, isDefine
<1> QED
  BY <1>0, <1>1, <1>2, <1>4, <1>5 DEF RegInv, isDefine

(* A step that changes one Module, not its name nor its place. *)
LEMMA ModChanged ==
  ASSUME ModsOk, NEW h \in Handles, NEW m \in Mod(Len(mods)), mods' = [mods EXCEPT ![h] = m],
         m.id = mods[h].id, m.base = mods[h].base, m.url = mods[h].url
  PROVE  ModsOk' /\ Len(mods') = Len(mods) /\ Kept /\ mods'[h] = m /\ \A g \in Handles : g # h => mods'[g] = mods[g]
<1>1. mods \in Seq(Mod(Len(mods))) /\ Handles = DOMAIN mods
  BY DEF ModsOk, Handles
<1>2. mods' \in Seq(Mod(Len(mods))) /\ Len(mods') = Len(mods) /\ DOMAIN mods' = DOMAIN mods
  BY <1>1
<1> QED
  BY <1>1, <1>2 DEF ModsOk, Kept

LEMMA FlagsChanged ==
  ASSUME ModsOk, NEW h \in Handles, NEW F \in SUBSET Flags, mods' = [mods EXCEPT ![h].is = F]
  PROVE  /\ ModsOk' /\ Len(mods') = Len(mods) /\ Kept
         /\ mods'[h] = [mods[h] EXCEPT !.is = F] /\ \A g \in Handles : g # h => mods'[g] = mods[g]
<1> DEFINE m == [mods[h] EXCEPT !.is = F]
<1>1. mods[h] \in Mod(Len(mods))
  BY HandleFacts
<1>2. m \in Mod(Len(mods)) /\ m.id = mods[h].id /\ m.base = mods[h].base /\ m.url = mods[h].url
  BY <1>1 DEF Mod
<1>3. mods' = [mods EXCEPT ![h] = m]
  OBVIOUS
<1> HIDE DEF m
<1>4. ModsOk' /\ Len(mods') = Len(mods) /\ Kept /\ mods'[h] = m /\ \A g \in Handles : g # h => mods'[g] = mods[g]
  BY <1>2, <1>3, ModChanged
<1> QED
  BY <1>4 DEF m

DepDefined(n, m, i, e) ==
  /\ e \in Mod(n) /\ e.id = m.id /\ e.base = m.base /\ e.url = m.url /\ e.is = m.is
  /\ e.deps = m.deps /\ e.onDefined = m.onDefined /\ e.onError = m.onError
  /\ e.callback = m.callback /\ e.errback = m.errback /\ e.depMatched = m.depMatched \cup {i}
  /\ e.depCount = IF i \in m.depMatched THEN m.depCount ELSE m.depCount - 1

(* Module.defineDep counts a dependency down when it comes for the first time only. *)
LEMMA DefineDepOk ==
  ASSUME NEW n, NEW m \in Mod(n), NEW i \in Nat
  PROVE  DepDefined(n, m, i, defineDep(m, i))
<1>1. CASE i \in m.depMatched
  <2>1. defineDep(m, i) = m
    BY <1>1 DEF defineDep
  <2>2. m.depMatched = m.depMatched \cup {i}
    BY <1>1
  <2> QED
    BY <2>1, <2>2, <1>1 DEF DepDefined
<1>2. CASE i \notin m.depMatched
  <2>1. defineDep(m, i) = [m EXCEPT !.depMatched = @ \cup {i}, !.depCount = @ - 1]
    BY <1>2 DEF defineDep
  <2>2. m.depMatched \cup {i} \in SUBSET Nat /\ m.depCount - 1 \in Int
    BY DEF Mod
  <2> DEFINE M == m.depMatched \cup {i}
             c == m.depCount - 1
  <2>4. defineDep(m, i) = [m EXCEPT !.depMatched = M, !.depCount = c]
    BY <2>1
  <2>5. M \in SUBSET Nat /\ c \in Int
    BY <2>2
  <2> HIDE DEF M, c
  <2>6. /\ defineDep(m, i) \in Mod(n) /\ defineDep(m, i).id = m.id /\ defineDep(m, i).base = m.base
        /\ defineDep(m, i).url = m.url /\ defineDep(m, i).is = m.is /\ defineDep(m, i).deps = m.deps
        /\ defineDep(m, i).onDefined = m.onDefined /\ defineDep(m, i).onError = m.onError
        /\ defineDep(m, i).callback = m.callback /\ defineDep(m, i).errback = m.errback
        /\ defineDep(m, i).depMatched = M /\ defineDep(m, i).depCount = c
    BY <2>4, <2>5 DEF Mod
  <2> QED
    BY <2>6, <1>2 DEF M, c, DepDefined
<1> QED
  BY <1>1, <1>2

-----------------------------------------------------------------------------
(* A step of the call on top that leaves the Modules where they are       *)
LEMMA TypeStep ==
  ASSUME TypeInv, stack # << >>, Head(stack).op # "complete", NEW k \in Nat, Shifted(k),
         \A j \in 1..k : j \in DOMAIN stack' => Good(stack'[j], Len(mods')) /\ stack'[j].op # "init",
         ModsOk', Len(mods) <= Len(mods'), RegInv', NamesOk', WaitOk', PageOk', SeenOk',
         UNCHANGED << queues, useInteractive >>, \A s \in scripts' : s.executed => s \in scripts
  PROVE  TypeInv'
<1>1. StackOk'
  BY StackGoes DEF TypeInv
<1>2. QueueInv'
  BY QueueKept DEF TypeInv
<1>3. InitFrames'
  BY InitKept DEF TypeInv
<1> QED
  BY <1>1, <1>2, <1>3 DEF TypeInv

(* A handler that makes calls and changes no name, queue, script or timer. *)
LEMMA TypeCalm ==
  ASSUME TypeInv, stack # << >>, Head(stack).op # "complete", NEW k \in Nat, Shifted(k),
         \A j \in 1..k : j \in DOMAIN stack' => Good(stack'[j], Len(mods)) /\ stack'[j].op # "init",
         ModsOk', Len(mods') = Len(mods), Kept, SeenOk',
         UNCHANGED << registry, names, queues, wait, sweep, page, cycle >>
  PROVE  TypeInv'
<1>0. Handles' = Handles
  BY DEF Handles
<1>1. RegInv'
  BY RegKept DEF TypeInv
<1>2. NamesOk' /\ WaitOk' /\ PageOk'
  BY <1>0 DEF TypeInv, NamesOk, WaitOk, PageOk, names, wait, sweep, page, cycle
<1>3. UNCHANGED << queues, useInteractive, scripts >> /\ Len(mods) <= Len(mods')
  BY HandleFacts DEF page, TypeInv
<1> QED
  BY <1>1, <1>2, <1>3, TypeStep

(* An exception ends all calls under way and nothing else. *)
LEMMA TypeThrow ==
  ASSUME TypeInv, stack # << >>, Head(stack).op # "complete" \/ Len(stack) > 1, stack' = << >>,
         ModsOk', Len(mods') = Len(mods), Kept, SeenOk',
         UNCHANGED << registry, names, wait, sweep, page, cycle >>,
         UNCHANGED queues \/ (useInteractive /\ globalDefQueue' = << >> /\ defQueue' \in Seq(NamedEntries))
  PROVE  TypeInv'
<1>0. Handles' = Handles
  BY DEF Handles
<1>1. RegInv'
  BY RegKept DEF TypeInv
<1>2. NamesOk' /\ WaitOk' /\ PageOk'
  BY <1>0 DEF TypeInv, NamesOk, WaitOk, PageOk, names, wait, sweep, page, cycle
<1>3. StackOk' /\ InitFrames'
  BY DEF StackOk, InitFrames, Frames, IsSeq
<1>4. \A i : stack # << [op |-> "complete", id |-> i, found |-> FALSE] >>
  <2>1. PICK S : stack \in Seq(S)
    BY DEF TypeInv, StackOk, IsSeq
  <2> SUFFICES ASSUME NEW i, stack = << [op |-> "complete", id |-> i, found |-> FALSE] >> PROVE FALSE
    OBVIOUS
  <2>2. Len(stack) = 1 /\ Head(stack).op = "complete"
    OBVIOUS
  <2> QED
    BY <2>1, <2>2
<1>5. QueueInv'
  BY <1>4 DEF QueueInv, TypeInv, queues, page
<1> QED
  BY <1>1, <1>2, <1>3, <1>5 DEF TypeInv

Keys == {"init", "enable", "wire", "execCb", "define", "emit", "require", "complete", "completed",
         "scriptError"}
(* A call that does not matter here                                        *)
Mild(f) == f.op \notin Keys /\ (f.op \in {"forceDep", "forced"} => isDefine(f.h))
ForceOk == \A f \in Frames : f.op \in {"forceDep", "forced"} => isDefine(f.h)
SameMods ==
  /\ Len(mods') = Len(mods)
  /\ \A h \in Handles :
       /\ h \in DOMAIN mods' /\ mods'[h].id = mods[h].id /\ mods'[h].base = mods[h].base
       /\ mods'[h].url = mods[h].url
       /\ mods'[h].deps = mods[h].deps /\ mods'[h].depCount = mods[h].depCount
       /\ mods'[h].depMatched = mods[h].depMatched /\ mods'[h].onDefined = mods[h].onDefined
       /\ mods'[h].errback = mods[h].errback /\ mods'[h].callback = mods[h].callback
       /\ \A f \in Flags : f # "error" => (f \in mods'[h].is <=> f \in mods[h].is)
QuietStack ==
  \/ \A j \in DOMAIN stack' : Mild(stack'[j])
  \/ UNCHANGED stack
  \/ /\ stack # << >> /\ Head(stack).op # "execCb"
     /\ \E k \in Nat : Shifted(k) /\ \A j \in 1..k : j \in DOMAIN stack' => Mild(stack'[j])
(* A step that neither defines nor forgets anything                        *)
Quiet ==
  /\ SameMods /\ QuietStack
  /\ UNCHANGED << registry, names, queues, wait, useInteractive, scripts, issued, runs, called >>
(* A call that is followed by calls that do not matter here                *)
Calm(k) ==
  /\ stack # << >> /\ Head(stack).op \notin {"complete", "execCb"}
  /\ Shifted(k)
  /\ \A j \in 1..k : j \in DOMAIN stack' => Good(stack'[j], Len(mods)) /\ Mild(stack'[j])

LEMMA SameSelf == ASSUME ModsOk, UNCHANGED mods PROVE SameMods /\ ModsOk' /\ Kept
BY HandleFacts DEF SameMods, ModsOk, Kept

LEMMA CalmStep ==
  ASSUME TypeInv, NEW k \in Nat, Calm(k), ModsOk', SameMods, SeenOk',
         UNCHANGED << registry, names, queues, wait, sweep, page, cycle, runs, called >>
  PROVE  TypeInv' /\ Quiet
<1>1. Kept /\ Len(mods') = Len(mods)
  BY DEF SameMods, Kept
<1>2. \A j \in 1..k : j \in DOMAIN stack' => Good(stack'[j], Len(mods)) /\ stack'[j].op # "init"
  BY DEF Calm, Keys, Mild
<1>3. TypeInv'
  BY <1>1, <1>2, TypeCalm DEF Calm
<1>4. QuietStack
  BY DEF Calm, QuietStack
<1> QED
  BY <1>3, <1>4 DEF Quiet, page

(* The same when the objects, the requires and the failures are kept      *)
LEMMA CalmSame ==
  ASSUME TypeInv, NEW k \in Nat, Calm(k), UNCHANGED << mods, registry, names, queues, wait, page, seen >>,
         inCheckLoaded' \in BOOLEAN, timer' \in BOOLEAN, traced' \in Seq(Handles)
  PROVE  TypeInv' /\ Quiet
<1>0. SameMods /\ ModsOk' /\ Kept
  BY SameSelf DEF TypeInv
<1>1. Handles' = Handles /\ Len(mods') = Len(mods) /\ Len(mods) <= Len(mods')
  BY HandleFacts DEF Handles, TypeInv
<1>2. \A j \in 1..k : j \in DOMAIN stack' => Good(stack'[j], Len(mods')) /\ stack'[j].op # "init"
  BY <1>1 DEF Calm, Keys, Mild
<1>3. NamesOk' /\ WaitOk' /\ SeenOk'
  BY <1>1 DEF TypeInv, NamesOk, WaitOk, SeenOk, names, wait, seen
<1>4. PageOk'
  BY <1>1 DEF TypeInv, PageOk, page
<1>5. RegInv'
  BY <1>0, <1>1, RegKept DEF TypeInv
<1>6. UNCHANGED << queues, useInteractive, scripts, issued, runs, called >>
  BY DEF page, seen
<1>7. TypeInv'
  BY <1>0, <1>1, <1>2, <1>3, <1>4, <1>5, <1>6, TypeStep DEF Calm
<1>8. QuietStack
  BY DEF Calm, QuietStack
<1> QED
  BY <1>0, <1>6, <1>7, <1>8 DEF Quiet

LEMMA QuietThrow ==
  ASSUME TypeInv, stack # << >>, Head(stack).op # "complete" \/ Len(stack) > 1, stack' = << >>,
         UNCHANGED << mods, registry, names, queues, wait, sweep, page, cycle, seen >>
  PROVE  TypeInv' /\ Quiet
<1>0. SameMods /\ ModsOk' /\ Kept
  BY SameSelf DEF TypeInv
<1>1. SeenOk' /\ Len(mods') = Len(mods)
  BY DEF TypeInv, SeenOk, seen
<1>2. TypeInv'
  BY <1>0, <1>1, TypeThrow
<1>3. QuietStack
  BY DEF QuietStack
<1> QED
  BY <1>0, <1>2, <1>3 DEF Quiet, page, seen

LEMMA Calm0 ==
  ASSUME TypeInv, stack # << >>, Head(stack).op \notin {"complete", "execCb"}, Return \/ Calls(<< >>)
  PROVE  Calm(0)
BY Push0 DEF TypeInv, StackOk, Calm

LEMMA Calm1 ==
  ASSUME TypeInv, stack # << >>, Head(stack).op \notin {"complete", "execCb"}, NEW f, Calls(<< f >>),
         Good(f, Len(mods)), Mild(f)
  PROVE  Calm(1)
<1>1. Shifted(1) /\ stack'[1] = f
  BY Push1 DEF TypeInv, StackOk
<1> QED
  BY <1>1 DEF Calm

LEMMA Calm2 ==
  ASSUME TypeInv, stack # << >>, Head(stack).op \notin {"complete", "execCb"}, NEW f, NEW g, Calls(<< f, g >>),
         Good(f, Len(mods)), Good(g, Len(mods)), Mild(f), Mild(g)
  PROVE  Calm(2)
<1>1. Shifted(2) /\ stack'[1] = f /\ stack'[2] = g
  BY Push2 DEF TypeInv, StackOk
<1>2. \A j \in 1..2 : j = 1 \/ j = 2
  OBVIOUS
<1> QED
  BY <1>1, <1>2 DEF Calm

LEMMA Calm3 ==
  ASSUME TypeInv, stack # << >>, Head(stack).op \notin {"complete", "execCb"}, NEW f, NEW g, NEW e,
         Calls(<< f, g, e >>), Good(f, Len(mods)), Good(g, Len(mods)), Good(e, Len(mods)),
         Mild(f), Mild(g), Mild(e)
  PROVE  Calm(3)
<1>1. Shifted(3) /\ stack'[1] = f /\ stack'[2] = g /\ stack'[3] = e
  BY Push3 DEF TypeInv, StackOk
<1>2. \A j \in 1..3 : j = 1 \/ j = 2 \/ j = 3
  OBVIOUS
<1> QED
  BY <1>1, <1>2 DEF Calm

-----------------------------------------------------------------------------
(* The calls that change neither Modules nor the registry, one lemma each: they keep the
   types, and to every other invariant they are Quiet. *)
LEMMA QOverflow == ASSUME TypeInv, Overflow PROVE TypeInv' /\ Quiet
<1>1. Len(stack) > 1
  BY TopGood, RequireAssumption DEF Overflow, TypeInv
<1> QED
  BY <1>1, QuietThrow DEF Overflow, Throw

LEMMA QCheckSkip == ASSUME TypeInv, CheckSkip PROVE TypeInv' /\ Quiet
<1>1. Calm(0)
  BY Calm0 DEF CheckSkip, Calling
<1> QED
  BY <1>1, CalmSame DEF CheckSkip, sweep, cycle, TypeInv, PageOk

LEMMA QCheckError == ASSUME TypeInv, CheckError PROVE TypeInv' /\ Quiet
<1> DEFINE f == [op |-> "emitError", h |-> Top.h, k |-> 1]
<1>1. Good(f, Len(mods)) /\ Mild(f)
  BY TopGood DEF Good, Keys, Mild, TypeInv, CheckError, Calling, Top
<1> HIDE DEF f
<1>2. Calls(<< f >>)
  BY DEF f, CheckError
<1>3. Calm(1)
  BY <1>1, <1>2, Calm1 DEF CheckError, Calling
<1> QED
  BY <1>3, CalmSame DEF CheckError, sweep, cycle, TypeInv, PageOk

LEMMA QStartSweep == ASSUME TypeInv, StartSweep PROVE TypeInv' /\ Quiet
<1> DEFINE f == [op |-> "scan", hs |-> registry, expired |-> expired,
                         noLoads |-> << >>, stillLoading |-> FALSE,
                         needCycleCheck |-> TRUE, fallback |-> FALSE]
<1>1. Good(f, Len(mods)) /\ Mild(f)
  BY DEF Good, Keys, Mild, TypeInv, RegInv, Handles, PageOk
<1> HIDE DEF f
<1>2. CASE inCheckLoaded
  <2>1. Calm(0)
    BY <1>2, Calm0 DEF StartSweep, Calling
  <2> QED
    BY <1>2, <2>1, CalmSame DEF StartSweep, sweep, cycle, TypeInv, PageOk
<1>3. CASE ~inCheckLoaded
  <2>1. Calls(<< f >>)
    BY <1>3 DEF f, StartSweep
  <2>2. Calm(1)
    BY <1>1, <2>1, Calm1 DEF StartSweep, Calling
  <2> QED
    BY <1>3, <2>2, CalmSame DEF StartSweep, sweep, cycle, TypeInv, PageOk
<1> QED
  BY <1>2, <1>3

LEMMA QScanTimeout == ASSUME TypeInv, ScanTimeout PROVE TypeInv' /\ Quiet
<1> DEFINE f == onError(Top.noLoads)
<1>1. Good(f, Len(mods)) /\ Mild(f)
  BY TopGood DEF Good, Keys, Mild, TypeInv, ScanTimeout, Calling, Top, onError
<1> HIDE DEF f
<1>2. Calls(<< f >>)
  BY DEF f, ScanTimeout
<1>3. Calm(1)
  BY <1>1, <1>2, Calm1 DEF ScanTimeout, Calling
<1> QED
  BY <1>3, CalmSame DEF ScanTimeout, sweep, cycle, TypeInv, PageOk

LEMMA QScanEnd == ASSUME TypeInv, ScanEnd PROVE TypeInv' /\ Quiet
<1> DEFINE f == [op |-> "cycles", k |-> 1, ary |-> waitAry]
           g == [op |-> "checkAll"]
           e == [op |-> "sweepEnd", again |-> (~Top.expired \/ Top.fallback) /\ Top.stillLoading]
<1>1. Good(f, Len(mods)) /\ Mild(f)
  BY DEF Good, Keys, Mild, TypeInv, WaitOk, Handles
<1>2. Good(g, Len(mods)) /\ Mild(g)
  BY DEF Good, Keys, Mild
<1>3. Good(e, Len(mods)) /\ Mild(e)
  BY DEF Good, Keys, Mild
<1>4. Calls(<< f, g, e >>) \/ Calls(<< e >>)
  <2> HIDE DEF e, f, g
  <2>1. Calls((IF Top.needCycleCheck THEN << f, g >> ELSE << >>) \o << e >>)
    BY DEF ScanEnd, AfterScan, e, f, g
  <2>2. << f, g >> \o << e >> = << f, g, e >> /\ << >> \o << e >> = << e >>
    BY Joined0, Joined2
  <2> QED
    BY <2>1, <2>2
<1> HIDE DEF e, f, g
<1>5. Calm(3) \/ Calm(1)
  BY <1>1, <1>2, <1>3, <1>4, Calm1, Calm3 DEF ScanEnd, Calling
<1> QED
  BY <1>5, CalmSame DEF ScanEnd, sweep, cycle, TypeInv, PageOk

LEMMA QSweepEnd == ASSUME TypeInv, SweepEnd PROVE TypeInv' /\ Quiet
<1>1. Calm(0)
  BY Calm0 DEF SweepEnd, Calling
<1>2. timer' \in BOOLEAN /\ inCheckLoaded' \in BOOLEAN
  BY DEF SweepEnd
<1> QED
  BY <1>1, <1>2, CalmSame DEF SweepEnd, cycle, TypeInv, PageOk

LEMMA QCheckTraced == ASSUME TypeInv, CheckTraced PROVE TypeInv' /\ Quiet
<1> DEFINE f == [op |-> "checkEach", hs |-> traced, always |-> TRUE]
<1>1. Good(f, Len(mods)) /\ Mild(f)
  BY DEF Good, Keys, Mild, TypeInv, PageOk, Handles
<1> HIDE DEF f
<1>2. Calls(<< f >>)
  BY DEF f, CheckTraced, Checks
<1>3. Calm(1)
  BY <1>1, <1>2, Calm1 DEF CheckTraced, Calling
<1> QED
  BY <1>3, CalmSame DEF CheckTraced, sweep, cycle, TypeInv, PageOk

LEMMA QCheckAll == ASSUME TypeInv, CheckAll PROVE TypeInv' /\ Quiet
<1> DEFINE f == [op |-> "checkEach", hs |-> registry, always |-> FALSE]
<1>1. Good(f, Len(mods)) /\ Mild(f)
  BY DEF Good, Keys, Mild, TypeInv, RegInv, Handles
<1> HIDE DEF f
<1>2. Calls(<< f >>)
  BY DEF f, CheckAll, Checks
<1>3. Calm(1)
  BY <1>1, <1>2, Calm1 DEF CheckAll, Calling
<1> QED
  BY <1>3, CalmSame DEF CheckAll, sweep, cycle, TypeInv, PageOk

LEMMA QCheckEach == ASSUME TypeInv, CheckEach PROVE TypeInv' /\ Quiet
<1>0. Top.op = "checkEach" /\ Top.hs \in Seq(1..Len(mods)) /\ Top.always \in BOOLEAN
  BY TopGood DEF TypeInv, CheckEach, Calling, Top, Good
<1> DEFINE h == Head(Top.hs)
           f == check(h, FALSE)
           g == [op |-> "checkEach", hs |-> Tail(Top.hs), always |-> Top.always]
<1>1. CASE Top.hs = << >>
  <2>1. Calm(0)
    BY <1>1, Calm0 DEF CheckEach, Calling
  <2> QED
    BY <2>1, CalmSame DEF CheckEach, sweep, cycle, TypeInv, PageOk
<1>2. CASE Top.hs # << >>
  <2>0. h \in 1..Len(mods) /\ Tail(Top.hs) \in Seq(1..Len(mods))
    BY <1>0, <1>2, HeadTailFacts
  <2>1. Good(f, Len(mods)) /\ Mild(f)
    BY <2>0 DEF Good, Keys, Mild, check
  <2>2. Good(g, Len(mods)) /\ Mild(g)
    BY <1>0, <2>0 DEF Good, Keys, Mild
  <2> HIDE DEF f, g
  <2>3. Calls((IF Top.always \/ Registered(h) THEN << f >> ELSE << >>) \o << g >>)
    BY <1>2 DEF CheckEach, Checks, f, g
  <2>4. << f >> \o << g >> = << f, g >> /\ << >> \o << g >> = << g >>
    BY Joined0, Joined1
  <2>5. Calls(<< f, g >>) \/ Calls(<< g >>)
    BY <2>3, <2>4
  <2>6. Calm(2) \/ Calm(1)
    BY <2>1, <2>2, <2>5, Calm1, Calm2 DEF CheckEach, Calling
  <2> QED
    BY <2>6, CalmSame DEF CheckEach, sweep, cycle, TypeInv, PageOk
<1> QED
  BY <1>1, <1>2

LEMMA QBreakCycles == ASSUME TypeInv, BreakCycles PROVE TypeInv' /\ Quiet
<1>0. Top.op = "cycles" /\ Top.ary \in Seq(1..Len(mods)) /\ Top.k \in Nat \ {0}
  BY TopGood DEF TypeInv, BreakCycles, Calling, Top, Good
<1> DEFINE ary == IF IsPrefixOf(Top.ary, waitAry) THEN waitAry ELSE Top.ary
           ks  == {k \in Top.k..Len(ary) :
                   ~Is(ary[k], "defined") /\ cycleOn(ary[k]) \in Handles}
           k   == CHOOSE j \in ks : \A l \in ks : j <= l
           f == [op |-> "force", h |-> cycleOn(ary[k])]
           g == [op |-> "checkTraced"]
           e == [op |-> "cycles", k |-> k + 1, ary |-> ary]
<1>1. ary \in Seq(1..Len(mods))
  BY <1>0 DEF TypeInv, WaitOk, Handles
<1>2. CASE ks = {}
  <2>1. Return /\ UNCHANGED cycle
    BY <1>2 DEF BreakCycles
  <2>2. Calm(0)
    BY <2>1, Calm0 DEF BreakCycles, Calling
  <2> QED
    BY <2>1, <2>2, CalmSame DEF BreakCycles, sweep, cycle, TypeInv, PageOk
<1>3. CASE ks # {}
  <2>1. traced' = << >> /\ Calls(<< f, g, e >>)
    BY <1>3 DEF BreakCycles
  <2>2. k \in ks
    <3>1. ks \subseteq Nat
      BY <1>0, <1>1
    <3>2. \E j \in ks : \A l \in ks : j <= l
      <4> HIDE DEF ks
      <4> QED
        BY <3>1, <1>3, LeastOf
    <3> QED
      BY <3>2
  <2>3. cycleOn(ary[k]) \in Handles /\ k \in Nat
    BY <2>2, <1>0, <1>1
  <2> HIDE DEF ary, ks, k
  <2>4. Good(f, Len(mods)) /\ Mild(f)
    BY <2>3 DEF Good, Keys, Mild, Handles
  <2>5. Good(g, Len(mods)) /\ Mild(g)
    BY DEF Good, Keys, Mild
  <2>6. Good(e, Len(mods)) /\ Mild(e)
    BY <1>1, <2>3 DEF Good, Keys, Mild
  <2> HIDE DEF f, g, e
  <2>7. Calm(3)
    BY <2>1, <2>4, <2>5, <2>6, Calm3 DEF BreakCycles, Calling
  <2>8. traced' \in Seq(Handles)
    BY <2>1
  <2> QED
    BY <2>7, <2>8, CalmSame DEF BreakCycles, sweep, TypeInv, PageOk
<1> QED
  BY <1>2, <1>3

LEMMA QForceExec == ASSUME TypeInv, ForceExec PROVE TypeInv' /\ Quiet
<1>0. Top.op = "force" /\ Top.h \in 1..Len(mods)
  BY TopGood DEF TypeInv, ForceExec, Calling, Top, Good
<1> DEFINE f == [op |-> "forceDep", h |-> Top.h, i |-> 1]
<1>1. Good(f, Len(mods)) /\ (isDefine(Top.h) => Mild(f))
  BY <1>0 DEF Good, Keys, Mild
<1>2. \/ Return /\ UNCHANGED traced
      \/ traced' = Append(traced, Top.h) /\ Calls(<< f >>) /\ isDefine(Top.h)
  BY DEF ForceExec
<1> HIDE DEF f
<1>3. CASE Return /\ UNCHANGED traced
  <2>1. Calm(0)
    BY <1>3, Calm0 DEF ForceExec, Calling
  <2> QED
    BY <1>3, <2>1, CalmSame DEF ForceExec, sweep, TypeInv, PageOk
<1>4. CASE traced' = Append(traced, Top.h) /\ Calls(<< f >>) /\ isDefine(Top.h)
  <2>1. Calm(1)
    BY <1>1, <1>4, Calm1 DEF ForceExec, Calling
  <2>2. traced' \in Seq(Handles)
    BY <1>0, <1>4 DEF TypeInv, PageOk, Handles
  <2> QED
    BY <2>1, <2>2, CalmSame DEF ForceExec, sweep, TypeInv, PageOk
<1> QED
  BY <1>2, <1>3, <1>4

LEMMA QForceDep == ASSUME TypeInv, ForceOk, ForceDep PROVE TypeInv' /\ Quiet
<1>0. Top \in [op : {"forceDep"}, h : 1..Len(mods), i : Nat \ {0}] /\ isDefine(Top.h)
  BY TopGood DEF TypeInv, ForceDep, Calling, Top, Good, ForceOk
<1> DEFINE c == check(Top.h, TRUE)
           next == [Top EXCEPT !.i = @ + 1]
           d == Lookup(mods[Top.h].deps[Top.i])
           f == [op |-> "force", h |-> d]
           g == [op |-> "forced", h |-> Top.h, i |-> Top.i]
<1>1. Good(c, Len(mods)) /\ Mild(c)
  BY <1>0 DEF Good, Keys, Mild, check
<1>2. next \in [op : {"forceDep"}, h : 1..Len(mods), i : Nat \ {0}] /\ isDefine(next.h)
  BY <1>0
<1>3. Good(next, Len(mods)) /\ Mild(next)
  <2> HIDE DEF next
  <2> QED
    BY <1>2 DEF Good, Keys, Mild
<1>4. Good(g, Len(mods)) /\ Mild(g)
  BY <1>0 DEF Good, Keys, Mild
<1>5. d = 0 \/ (Good(f, Len(mods)) /\ Mild(f))
  <2>1. d # 0 => d \in 1..Len(mods)
    BY LookupFacts DEF TypeInv, Handles
  <2> HIDE DEF d
  <2> QED
    BY <2>1 DEF Good, Keys, Mild
<1>6. Calls(<< c >>) \/ Calls(<< next >>) \/ (d # 0 /\ Calls(<< f, g >>))
  <2>1. CASE Top.i > Len(mods[Top.h].deps)
    BY <2>1 DEF ForceDep
  <2>2. CASE ~(Top.i > Len(mods[Top.h].deps)) /\ d = 0
    <3>1. Top.i <= Len(mods[Top.h].deps)
      BY <1>0, <2>2, HandleFacts, ModFields DEF TypeInv, Handles
    <3> QED
      BY <2>2, <3>1 DEF ForceDep
  <2>3. CASE ~(Top.i > Len(mods[Top.h].deps)) /\ d # 0
    BY <2>3 DEF ForceDep
  <2> QED
    BY <2>1, <2>2, <2>3
<1> HIDE DEF c, next, f, g, d
<1>7. Calm(1) \/ Calm(2)
  BY <1>1, <1>3, <1>4, <1>5, <1>6, Calm1, Calm2 DEF ForceDep, Calling
<1> QED
  BY <1>7, CalmSame DEF ForceDep, sweep, TypeInv, PageOk

ScanFallback ==
  Scan /\ Registered(Head(Top.hs)) /\ Is(Head(Top.hs), "enabled") /\ ~Is(Head(Top.hs), "inited")
  /\ Top.expired /\ HasPathFallback(mods[Head(Top.hs)].id)

(* The scan of checkLoaded changes nothing, or moves a module to its next place. *)
LEMMA QScan ==
  ASSUME TypeInv, Scan
  PROVE  \/ TypeInv' /\ Quiet
         \/ LET h == Head(Top.hs)
            IN  /\ h \in Handles /\ Registered(h) /\ Is(h, "enabled") /\ ~Is(h, "inited")
                /\ HasPathFallback(mods[h].id)
                /\ Fallback(mods[h].id, << [Top EXCEPT !.hs = Tail(@), !.fallback = TRUE,
                                                       !.stillLoading = TRUE] >>)
<1>0. Top \in [op : {"scan"}, hs : Seq(1..Len(mods)), expired : BOOLEAN, noLoads : Seq(Names),
           stillLoading : BOOLEAN, needCycleCheck : BOOLEAN, fallback : BOOLEAN]
  BY TopGood DEF TypeInv, Scan, Calling, Top, Good
<1> DEFINE h == Head(Top.hs)
           rest == [Top EXCEPT !.hs = Tail(@)]
           a == [rest EXCEPT !.noLoads = Append(@, mods[h].id)]
           b == [rest EXCEPT !.stillLoading = TRUE, !.needCycleCheck = FALSE]
           awaited == /\ Registered(h) /\ Is(h, "enabled")
                      /\ ~Is(h, "error") /\ ~Is(h, "inited")
           aw == awaited /\ Top.expired
           bw == awaited /\ ~Top.expired /\ Is(h, "fetched")
<1>1. Top.hs # << >>
  BY DEF Scan
<1>2. h \in 1..Len(mods) /\ Tail(Top.hs) \in Seq(1..Len(mods))
  BY <1>0, <1>1, HeadTailFacts
<1>2a. rest \in [op : {"scan"}, hs : Seq(1..Len(mods)), expired : BOOLEAN, noLoads : Seq(Names),
           stillLoading : BOOLEAN, needCycleCheck : BOOLEAN, fallback : BOOLEAN]
  BY <1>0, <1>2
<1>3. Good(rest, Len(mods)) /\ Mild(rest)
  <2> HIDE DEF rest
  <2> QED
    BY <1>2a DEF Good, Keys, Mild
<1>3a. mods[h].id \in Names
  <2>1. mods[h] \in Mod(Len(mods))
    BY <1>2, HandleFacts DEF Handles, TypeInv
  <2>2. mods[h].id \in Ids \cup {<< >>}
    BY <2>1, ModFields
  <2> QED
    <3>1. << >> \in Seq(STRING)
      OBVIOUS
    <3> QED
      BY <2>2, <3>1, RequireAssumption DEF Names
<1>4. Good(a, Len(mods)) /\ Mild(a)
  <2>1. Append(rest.noLoads, mods[h].id) \in Seq(Names)
    <3> HIDE DEF rest
    <3> QED
      BY <1>2a, <1>3a
  <2>2. a \in [op : {"scan"}, hs : Seq(1..Len(mods)), expired : BOOLEAN, noLoads : Seq(Names),
           stillLoading : BOOLEAN, needCycleCheck : BOOLEAN, fallback : BOOLEAN]
    <3> HIDE DEF rest, h
    <3> QED
      BY <1>2a, <2>1
  <2> HIDE DEF a
  <2> QED
    BY <2>2 DEF Good, Keys, Mild
<1>5. Good(b, Len(mods)) /\ Mild(b)
  <2>1. b \in [op : {"scan"}, hs : Seq(1..Len(mods)), expired : BOOLEAN, noLoads : Seq(Names),
           stillLoading : BOOLEAN, needCycleCheck : BOOLEAN, fallback : BOOLEAN]
    <3> HIDE DEF rest
    <3> QED
      BY <1>2a
  <2> HIDE DEF b
  <2> QED
    BY <2>1 DEF Good, Keys, Mild
<1>6. CASE awaited /\ Top.expired /\ HasPathFallback(mods[h].id)
  <2>1. Fallback(mods[h].id, << [rest EXCEPT !.fallback = TRUE, !.stillLoading = TRUE] >>)
    BY <1>6 DEF Scan
  <2>2. [rest EXCEPT !.fallback = TRUE, !.stillLoading = TRUE]
         = [Top EXCEPT !.hs = Tail(@), !.fallback = TRUE, !.stillLoading = TRUE]
    BY <1>0
  <2> QED
    BY <1>2, <1>6, <2>1, <2>2 DEF Handles
<1>7. CASE ~(awaited /\ Top.expired /\ HasPathFallback(mods[h].id))
  <2>1. UNCHANGED << registry, names, wait >>
    BY <1>7 DEF Scan
  <2>2. Calls(<< a >>) \/ Calls(<< b >>) \/ Calls(<< rest >>)
    <3>1. Calls(<< CASE aw -> a [] bw -> b [] OTHER -> rest >>)
      BY <1>7 DEF Scan
    <3> HIDE DEF aw, bw, a, b, rest
    <3> QED
      BY <3>1
  <2> HIDE DEF a, b, rest, awaited
  <2>3. Calm(1)
    BY <1>3, <1>4, <1>5, <2>2, Calm1 DEF Scan, Calling
  <2> QED
    BY <2>1, <2>3, CalmSame DEF Scan, sweep, cycle, TypeInv, PageOk
<1> QED
  BY <1>6, <1>7

LEMMA QScriptError ==
  ASSUME TypeInv, ScriptError
  PROVE  (TypeInv' /\ Quiet) \/ (HasPathFallback(Top.id) /\ Fallback(Top.id, << >>))
<1>0. Top.op = "scriptError" /\ Top.id \in Ids
  BY TopGood DEF TypeInv, ScriptError, Calling, Top, Good
<1>1. CASE ~HasPathFallback(Top.id)
  <2> DEFINE f == onError(<< Top.id >>)
  <2>1. Good(f, Len(mods)) /\ Mild(f)
    <3>1. << Top.id >> \in Seq(Names)
      BY <1>0, RequireAssumption
    <3> QED
      BY <3>1 DEF Good, Keys, Mild, onError
  <2>2. Calls(<< f >>) /\ UNCHANGED << registry, names, wait >>
    BY <1>1 DEF ScriptError
  <2> HIDE DEF f
  <2>3. Calm(1)
    BY <2>1, <2>2, Calm1 DEF ScriptError, Calling
  <2>4. UNCHANGED << mods, registry, names, queues, wait, page, seen >> /\ UNCHANGED << sweep, cycle >>
    BY <2>2 DEF ScriptError
  <2>5. inCheckLoaded' \in BOOLEAN /\ timer' \in BOOLEAN /\ traced' \in Seq(Handles)
    BY <2>4 DEF sweep, cycle, TypeInv, PageOk
  <2> QED
    BY <2>3, <2>4, <2>5, CalmSame
<1> QED
  BY <1>1 DEF ScriptError

LEMMA QEmitError == ASSUME TypeInv, EmitError PROVE TypeInv' /\ Quiet
<1>0. Top \in [op : {"emitError"}, h : 1..Len(mods), k : Nat \ {0}] /\ Top.h \in Handles
  BY TopGood DEF TypeInv, EmitError, Calling, Top, Good, Handles
<1> DEFINE h == Top.h
           l == mods[h].onError[Top.k]
           next == [Top EXCEPT !.k = @ + 1]
           f == [op |-> "emitError", h |-> l[2], k |-> 1]
<1>1. mods[h] \in Mod(Len(mods)) /\ mods[h].onError \in Seq(Errs(Len(mods)))
  BY <1>0, HandleFacts, ModFields DEF TypeInv
<1>2. CASE Top.k > Len(mods[h].onError)
  <2>1. mods' = [mods EXCEPT ![h].onError = << >>] /\ Return /\ UNCHANGED errors
    BY <1>2 DEF EmitError
  <2> DEFINE m == [mods[h] EXCEPT !.onError = << >>]
  <2>2. mods' = [mods EXCEPT ![h] = m]
    BY <2>1
  <2>a. << >> \in Seq(Errs(Len(mods)))
    OBVIOUS
  <2>3. m \in Mod(Len(mods)) /\ m.id = mods[h].id /\ m.base = mods[h].base /\ m.url = mods[h].url
    BY <1>1, <2>a DEF Mod
  <2>4. /\ m.is = mods[h].is /\ m.deps = mods[h].deps /\ m.depCount = mods[h].depCount
        /\ m.depMatched = mods[h].depMatched /\ m.onDefined = mods[h].onDefined
        /\ m.errback = mods[h].errback /\ m.callback = mods[h].callback
    BY <1>1 DEF Mod
  <2> HIDE DEF m
  <2>5. ModsOk' /\ Len(mods') = Len(mods) /\ Kept /\ mods'[h] = m /\ \A g \in Handles : g # h => mods'[g] = mods[g]
    BY <1>0, <2>2, <2>3, ModChanged DEF TypeInv
  <2>6. SameMods
    BY <2>3, <2>4, <2>5 DEF SameMods, Kept
  <2>7. Calm(0)
    BY <2>1, Calm0 DEF EmitError, Calling
  <2>8. SeenOk'
    BY <2>1 DEF EmitError, TypeInv, SeenOk
  <2> QED
    BY <2>5, <2>6, <2>7, <2>8, CalmStep DEF EmitError
<1>3. CASE ~(Top.k > Len(mods[h].onError))
  <2>1. UNCHANGED mods /\ Calls((IF l[1] = "emit" THEN << f >> ELSE << >>) \o << next >>)
    BY <1>3 DEF EmitError
  <2>2. errors' = IF l[1] = "user" /\ errors[l[2]] < 2 THEN [errors EXCEPT ![l[2]] = @ + 1] ELSE errors
    BY <1>3 DEF EmitError
  <2>3. l \in Errs(Len(mods))
    BY <1>0, <1>1, <1>3
  <2>4. next \in [op : {"emitError"}, h : 1..Len(mods), k : Nat \ {0}]
    BY <1>0
  <2>5. Good(next, Len(mods)) /\ Mild(next)
    <3> HIDE DEF next
    <3> QED
      BY <2>4 DEF Good, Keys, Mild
  <2>6. l[1] = "emit" => Good(f, Len(mods)) /\ Mild(f)
    <3>1. l[1] = "emit" => l[2] \in 1..Len(mods)
      <4> HIDE DEF l
      <4> QED
        BY <2>3 DEF Errs
    <3> QED
      BY <3>1 DEF Good, Keys, Mild
  <2>7. SeenOk'
    <3>1. CASE l[1] = "user" /\ errors[l[2]] < 2
      <4>1. l[2] \in Requires
        <5> HIDE DEF l
        <5> QED
          BY <2>3, <3>1 DEF Errs
      <4>2. errors[l[2]] + 1 \in 0..2
        BY <3>1, <4>1 DEF TypeInv, SeenOk
      <4>3. errors' = [errors EXCEPT ![l[2]] = errors[l[2]] + 1]
        BY <2>2, <3>1
      <4> HIDE DEF l
      <4>4. errors' \in [Requires -> 0..2]
        BY <4>1, <4>2, <4>3 DEF TypeInv, SeenOk
      <4> QED
        BY <4>4 DEF EmitError, TypeInv, SeenOk
    <3>2. CASE ~(l[1] = "user" /\ errors[l[2]] < 2)
      <4>1. errors' = errors
        BY <2>2, <3>2
      <4> QED
        BY <4>1 DEF EmitError, TypeInv, SeenOk
    <3> QED
      BY <3>1, <3>2
  <2>8. (l[1] = "emit" /\ Calls(<< f, next >>)) \/ Calls(<< next >>)
    <3> HIDE DEF l, f, next
    <3> QED
      BY <2>1, Joined0, Joined1
  <2> HIDE DEF l, f, next
  <2>9. Calm(1) \/ Calm(2)
    BY <2>5, <2>6, <2>8, Calm1, Calm2 DEF EmitError, Calling
  <2> QED
    BY <2>1, <2>7, <2>9, SameSelf, CalmStep DEF EmitError, TypeInv
<1> QED
  BY <1>2, <1>3

LEMMA QRunOnError == ASSUME TypeInv, RunOnError PROVE TypeInv' /\ Quiet
<1>0. Top \in [op : {"onError"}, ids : Seq(Names), notified : BOOLEAN]
  BY TopGood DEF TypeInv, RunOnError, Calling, Top, Good
<1>1. CASE Top.ids = << >>
  <2>1. UNCHANGED << mods, failed >> /\ (Return \/ Throw)
    BY <1>1 DEF RunOnError
  <2>2. CASE Return
    <3>1. Calm(0)
      BY <2>2, Calm0 DEF RunOnError, Calling
    <3> QED
      BY <2>1, <3>1, CalmSame DEF RunOnError, sweep, cycle, seen, TypeInv, PageOk
  <2>3. CASE Throw
    BY <2>1, <2>3, QuietThrow DEF RunOnError, Calling, Throw, seen
  <2> QED
    BY <2>1, <2>2, <2>3
<1>2. CASE Top.ids # << >>
  <2> DEFINE h == Lookup(Head(Top.ids))
             rest == [Top EXCEPT !.ids = Tail(@)]
             heard == h # 0 /\ mods[h].onError # << >>
             f == [op |-> "emitError", h |-> h, k |-> 1]
             g == [rest EXCEPT !.notified = TRUE]
  <2>1. /\ mods' = IF h = 0 THEN mods ELSE marked(h)
        /\ failed' = failed \cup ({Head(Top.ids)} \cap Ids)
        /\ Calls(IF heard THEN << f, g >> ELSE << rest >>)
    BY <1>2 DEF RunOnError
  <2>2. h # 0 => h \in Handles
    BY LookupFacts DEF TypeInv
  <2>3. Tail(Top.ids) \in Seq(Names)
    BY <1>0, <1>2, HeadTailFacts
  <2>4. rest \in [op : {"onError"}, ids : Seq(Names), notified : BOOLEAN]
    BY <1>0, <2>3
  <2>5. Good(rest, Len(mods)) /\ Mild(rest)
    <3> HIDE DEF rest
    <3> QED
      BY <2>4 DEF Good, Keys, Mild
  <2>6. Good(g, Len(mods)) /\ Mild(g)
    <3>1. g \in [op : {"onError"}, ids : Seq(Names), notified : BOOLEAN]
      <4> HIDE DEF rest
      <4> QED
        BY <2>4
    <3> HIDE DEF g
    <3> QED
      BY <3>1 DEF Good, Keys, Mild
  <2>7. h # 0 => Good(f, Len(mods)) /\ Mild(f)
    <3> HIDE DEF h
    <3> QED
      BY <2>2 DEF Good, Keys, Mild, Handles
  <2>8. ModsOk' /\ SameMods
    <3>1. CASE h = 0
      BY <2>1, <3>1, SameSelf DEF TypeInv
    <3>2. CASE h # 0
      <4>1. mods[h].is \cup {"error"} \in SUBSET Flags
        BY <2>2, <3>2, HandleFacts, ModFields DEF TypeInv, Flags
      <4>2. mods' = [mods EXCEPT ![h].is = mods[h].is \cup {"error"}]
        BY <2>1, <3>2 DEF marked
      <4> HIDE DEF h
      <4>3. /\ ModsOk' /\ Len(mods') = Len(mods) /\ Kept
            /\ mods'[h] = [mods[h] EXCEPT !.is = mods[h].is \cup {"error"}]
            /\ \A gg \in Handles : gg # h => mods'[gg] = mods[gg]
        BY <2>2, <3>2, <4>1, <4>2, FlagsChanged DEF TypeInv
      <4>4. mods[h] \in Mod(Len(mods))
        BY <2>2, <3>2, HandleFacts DEF TypeInv
      <4>5. /\ mods'[h].is = mods[h].is \cup {"error"} /\ mods'[h].deps = mods[h].deps /\ mods'[h].depCount = mods[h].depCount
            /\ mods'[h].depMatched = mods[h].depMatched /\ mods'[h].onDefined = mods[h].onDefined
            /\ mods'[h].errback = mods[h].errback /\ mods'[h].callback = mods[h].callback
        BY <4>3, <4>4 DEF Mod
      <4>6. \A gg \in Handles : \A ff \in Flags : ff # "error" => (ff \in mods'[gg].is <=> ff \in mods[gg].is)
        <5> SUFFICES ASSUME NEW gg \in Handles, NEW ff \in Flags, ff # "error"
                     PROVE  ff \in mods'[gg].is <=> ff \in mods[gg].is
          OBVIOUS
        <5>1. CASE gg = h
          BY <4>5, <5>1
        <5>2. CASE gg # h
          BY <4>3, <5>2
        <5> QED
          BY <5>1, <5>2
      <4>7. \A gg \in Handles :
               /\ mods'[gg].deps = mods[gg].deps /\ mods'[gg].depCount = mods[gg].depCount
               /\ mods'[gg].depMatched = mods[gg].depMatched /\ mods'[gg].onDefined = mods[gg].onDefined
               /\ mods'[gg].errback = mods[gg].errback /\ mods'[gg].callback = mods[gg].callback
        BY <4>3, <4>5
      <4> QED
        BY <4>3, <4>6, <4>7 DEF SameMods, Kept
    <3> QED
      BY <3>1, <3>2
  <2>9. SeenOk'
    BY <2>1 DEF RunOnError, TypeInv, SeenOk
  <2>10. (heard /\ Calls(<< f, g >>)) \/ Calls(<< rest >>)
    BY <2>1
  <2> HIDE DEF f, g, rest, h
  <2>11. Calm(1) \/ Calm(2)
    BY <2>5, <2>6, <2>7, <2>10, Calm1, Calm2 DEF RunOnError, Calling
  <2> QED
    BY <2>8, <2>9, <2>11, CalmStep DEF RunOnError
<1> QED
  BY <1>1, <1>2

LEMMA QTimerFires == ASSUME TypeInv, TimerFires PROVE TypeInv' /\ Quiet
<1>0. SameMods /\ ModsOk' /\ Kept
  BY SameSelf DEF TimerFires, TypeInv
<1>1. stack' \in Seq({checkLoaded}) /\ Len(stack') = 1 /\ stack'[1] = checkLoaded
  BY DEF TimerFires
<1>2. \A j \in DOMAIN stack' : stack'[j] = checkLoaded
  BY <1>1
<1>3. Good(checkLoaded, Len(mods)) /\ Mild(checkLoaded) /\ checkLoaded.op # "init"
  BY DEF Good, checkLoaded, Keys, Mild
<1>4. StackOk' /\ InitFrames' /\ QuietStack
  BY <1>1, <1>2, <1>3 DEF StackOk, Frames, IsSeq, InitFrames, QuietStack, TimerFires
<1>5. QueueInv'
  <2>1. stack = << >> /\ (useInteractive \/ \A s \in scripts : ~s.executed)
    BY DEF TimerFires, Idle
  <2>2. ~useInteractive => globalDefQueue = << >>
    BY <2>1 DEF TypeInv, QueueInv
  <2> QED
    BY <2>1, <2>2 DEF TypeInv, QueueInv, TimerFires, queues, page
<1>6. RegInv'
  BY <1>0, RegKept DEF TimerFires, TypeInv
<1>7. NamesOk' /\ WaitOk' /\ PageOk' /\ SeenOk'
  BY DEF TypeInv, NamesOk, WaitOk, PageOk, SeenOk, names, wait, page, cycle, seen, TimerFires, Handles
<1> QED
  BY <1>0, <1>4, <1>5, <1>6, <1>7 DEF TypeInv, Quiet, TimerFires, page, seen

LEMMA QWaitEnds == ASSUME TypeInv, WaitEnds PROVE TypeInv' /\ Quiet
<1>0. SameMods /\ ModsOk' /\ Kept
  BY SameSelf DEF WaitEnds, TypeInv
<1>1. StackOk' /\ InitFrames' /\ QuietStack
  BY DEF StackOk, Frames, InitFrames, QuietStack, WaitEnds, TypeInv, Registered
<1>2. QueueInv'
  BY DEF TypeInv, QueueInv, WaitEnds, queues
<1>6. RegInv'
  BY <1>0, RegKept DEF WaitEnds, TypeInv
<1>7. NamesOk' /\ WaitOk' /\ PageOk' /\ SeenOk'
  BY DEF TypeInv, NamesOk, WaitOk, PageOk, SeenOk, names, wait, sweep, cycle, seen, WaitEnds, Handles
<1> QED
  BY <1>0, <1>1, <1>2, <1>6, <1>7 DEF TypeInv, Quiet, WaitEnds, seen

(* The other Modules stay as they are *)
OnlyMod(h) == Len(mods') = Len(mods) /\ \A g \in Handles : g # h => mods'[g] = mods[g]

(* The constructor of Module. *)
LEMMA ReadyMod ==
  ASSUME NamesOk, ModsOk, NEW id \in Ids \cup {<< >>}, NEW base \in Ids \cup {NONE},
         NEW events \in Heard(Len(mods))
  PROVE  LET m == Module(id, base, events)
         IN  /\ m \in Mod(Len(mods)) /\ m.id = id /\ m.base = base /\ m.is = {} /\ m.deps = << >>
             /\ m.depCount = 0 /\ m.depMatched = {} /\ m.onDefined = events.defined
             /\ m.onError = events.error /\ m.errback = NONE /\ m.callback = NONE
             /\ (id # << >> => m.url \in Places(id) /\ m.url = nameToUrl(id, paths))
<1> DEFINE u == IF id = << >> THEN << >> ELSE nameToUrl(id, paths)
<1>1. u \in AllPlaces \cup {<< >>}
  BY UrlPlaced
<1>2. id # << >> => u \in Places(id) /\ u = nameToUrl(id, paths)
  BY UrlPlaced
<1>3. << >> \in Seq(Ids \cup handlers)
  OBVIOUS
<1>4. events.defined \in Seq(Hears(Len(mods))) /\ events.error \in Seq(Errs(Len(mods)))
  BY DEF Heard
<1> HIDE DEF u
<1>5. Module(id, base, events) =
        [id |-> id, base |-> base, url |-> u, is |-> {}, deps |-> << >>, depCount |-> 0,
         depMatched |-> {}, onDefined |-> events.defined, onError |-> events.error,
         errback |-> NONE, callback |-> NONE]
  BY DEF Module, u
<1> QED
  BY <1>1, <1>2, <1>3, <1>4, <1>5 DEF Mod

LEMMA EventsTyped ==
  ASSUME NamesOk, NEW id
  PROVE  EventsFor(id) \in Heard(Len(mods)) /\ NoEvents \in Heard(Len(mods))
<1>1. NoEvents \in Heard(Len(mods))
  BY DEF NoEvents, Heard
<1> QED
  BY <1>1 DEF EventsFor, NamesOk

(* A new Module comes last and leaves the others as they were. *)
LEMMA ModAdded ==
  ASSUME ModsOk, NEW m \in Mod(Len(mods)), mods' = Append(mods, m)
  PROVE  /\ ModsOk' /\ Len(mods') = Len(mods) + 1 /\ Kept /\ mods'[Len(mods) + 1] = m
         /\ Len(mods) + 1 \in Handles' /\ Handles' = Handles \cup {Len(mods) + 1}
         /\ Len(mods) + 1 \notin Handles /\ \A g \in Handles : mods'[g] = mods[g]
<1>1. Len(mods) \in Nat /\ mods \in Seq(Mod(Len(mods))) /\ DOMAIN mods = 1..Len(mods)
  BY HandleFacts DEF ModsOk
<1> DEFINE n == Len(mods)
<1> HIDE DEF n
<1>2. Mod(n) \subseteq Mod(n + 1) /\ n \in Nat
  BY <1>1, MoreMods DEF n
<1>3. mods \in Seq(Mod(n + 1)) /\ m \in Mod(n + 1) /\ Len(mods) = n
  BY <1>1, <1>2 DEF n
<1>4. mods' \in Seq(Mod(n + 1)) /\ Len(mods') = n + 1 /\ mods'[n + 1] = m
      /\ \A g \in 1..n : mods'[g] = mods[g]
  BY <1>2, <1>3
<1> QED
  BY <1>2, <1>3, <1>4 DEF ModsOk, Kept, Handles

(* A new Module is registered under a name that nobody has. *)
LEMMA RegAdded ==
  ASSUME ModsOk, ModsOk', RegInv, Kept, Len(mods') = Len(mods) + 1, NEW n, n = Len(mods) + 1,
         registry' = Append(registry, n),
         LET m == mods'[n]
         IN  m.id = << >> \/ (Lookup(m.id) = 0 /\ m.url \in Places(m.id) /\ m.base = m.id)
  PROVE  /\ RegInv' /\ Registered(n)'
         /\ \A g \in Handles : Registered(g)' <=> Registered(g)
<1> DEFINE m == mods'[n]
<1>0. /\ Handles' = Handles \cup {n} /\ n \notin Handles /\ registry \in Seq(Handles)
      /\ \A k \in DOMAIN registry : registry[k] \in Handles
  BY HandleFacts DEF Handles, RegInv
<1>1. registry' \in Seq(Handles') /\ Len(registry') = Len(registry) + 1 /\ Len(registry) \in Nat
      /\ DOMAIN registry = 1..Len(registry) /\ DOMAIN registry' = 1..(Len(registry) + 1)
      /\ registry'[Len(registry) + 1] = n /\ \A k \in DOMAIN registry : registry'[k] = registry[k]
  BY <1>0
<1> HIDE DEF m
<1>2. \A g \in Handles : mods'[g].id = mods[g].id /\ mods'[g].url = mods[g].url /\ mods'[g].base = mods[g].base
  BY DEF Kept
<1>3. \A k \in DOMAIN registry' : k = Len(registry) + 1 \/ k \in DOMAIN registry
  BY <1>1
<1>4. m.id # << >> => \A k \in DOMAIN registry : mods[registry[k]].id # m.id
  BY LookupFacts DEF m
<1>5. ASSUME NEW j \in DOMAIN registry', NEW k \in DOMAIN registry',
             mods'[registry'[j]].id = mods'[registry'[k]].id, mods'[registry'[j]].id # << >>
      PROVE  j = k
  <2>1. CASE j \in DOMAIN registry /\ k \in DOMAIN registry
    <3>1. mods[registry[j]].id = mods[registry[k]].id /\ isDefine(registry[j])
      BY <1>0, <1>1, <1>2, <1>5, <2>1 DEF isDefine
    <3> QED
      BY <2>1, <3>1 DEF RegInv
  <2>2. CASE j \in DOMAIN registry /\ k = Len(registry) + 1
    BY <1>0, <1>1, <1>2, <1>4, <1>5, <2>2 DEF m
  <2>3. CASE j = Len(registry) + 1 /\ k \in DOMAIN registry
    BY <1>0, <1>1, <1>2, <1>4, <1>5, <2>3 DEF m
  <2> QED
    BY <1>3, <2>1, <2>2, <2>3
<1>6. ASSUME NEW j \in DOMAIN registry', NEW k \in DOMAIN registry', registry'[j] = registry'[k]
      PROVE  j = k
  <2>1. CASE j \in DOMAIN registry /\ k \in DOMAIN registry
    BY <1>1, <1>6, <2>1 DEF RegInv
  <2> QED
    BY <1>0, <1>1, <1>3, <1>6, <2>1
<1>7. \A h \in Handles' : mods'[h].id # << >> => mods'[h].url \in Places(mods'[h].id) /\ mods'[h].base = mods'[h].id
  <2>1. \A h \in Handles : mods'[h].id # << >> => mods'[h].url \in Places(mods'[h].id) /\ mods'[h].base = mods'[h].id
    BY <1>2 DEF RegInv, isDefine
  <2>2. mods'[n].id # << >> => mods'[n].url \in Places(mods'[n].id) /\ mods'[n].base = mods'[n].id
    OBVIOUS
  <2> QED
    BY <1>0, <2>1, <2>2
<1>8. RegInv'
  BY <1>1, <1>5, <1>6, <1>7 DEF RegInv, isDefine
<1>9. Registered(n)' /\ \A g \in Handles : Registered(g)' <=> Registered(g)
  <2>1. Registered(n)'
    <3>1. Len(registry) + 1 \in DOMAIN registry'
      BY <1>1
    <3> QED
      BY <1>1, <3>1 DEF Registered
  <2>2. ASSUME NEW g \in Handles PROVE Registered(g)' <=> Registered(g)
    <3>1. ASSUME Registered(g) PROVE Registered(g)'
      BY <1>1, <3>1 DEF Registered
    <3>2. ASSUME Registered(g)' PROVE Registered(g)
      <4>1. PICK k \in DOMAIN registry' : registry'[k] = g
        BY <3>2 DEF Registered
      <4>2. k \in DOMAIN registry
        BY <1>0, <1>1, <1>3, <4>1
      <4> QED
        BY <1>1, <4>1, <4>2 DEF Registered
    <3> QED
      BY <3>1, <3>2
  <2> QED
    BY <2>1, <2>2
<1> QED
  BY <1>8, <1>9

(* getModule gives a registered Module of this id *)
Got(id, got) ==
  \/ /\ Lookup(id) # 0 /\ got.h = Lookup(id) /\ got.mods = mods /\ got.registry = registry
  \/ /\ Lookup(id) = 0 /\ got.h = Len(mods) + 1 /\ got.registry = Append(registry, Len(mods) + 1)
     /\ got.mods = Append(mods, Module(id, id, EventsFor(id)))

(* getModule finds the registered Module or makes one, registered and empty. *)
LEMMA GetModule == ASSUME NEW id PROVE Got(id, getModule(id))
<1> DEFINE h == Lookup(id)
           a == [h |-> h, mods |-> mods, registry |-> registry]
           b == [h |-> Len(mods) + 1,
                 mods |-> Append(mods, Module(id, id, EventsFor(id))),
                 registry |-> Append(registry, Len(mods) + 1)]
<1>1. getModule(id) = IF h # 0 THEN a ELSE b
  BY DEF getModule
<1>2. a.h = h /\ a.mods = mods /\ a.registry = registry
  OBVIOUS
<1>3. /\ b.h = Len(mods) + 1 /\ b.mods = Append(mods, Module(id, id, EventsFor(id)))
      /\ b.registry = Append(registry, Len(mods) + 1)
  OBVIOUS
<1> HIDE DEF h, a, b
<1> QED
  BY <1>1, <1>2, <1>3 DEF Got, h

(* Its state when it is new: as in a fresh Module *)
NewMod(h, id, base) ==
  LET m == mods'[h]
  IN  /\ m.id = id /\ m.base = base /\ m.is = {} /\ m.deps = << >> /\ m.depCount = 0 /\ m.depMatched = {}
      /\ m.onDefined = EventsFor(id).defined /\ m.callback = NONE /\ m.errback = NONE
      /\ m.url = nameToUrl(id, paths)
Found(id, h) ==
  /\ h \in Handles' /\ Registered(h)' /\ mods'[h].id = id /\ h # 0
  /\ \/ /\ Lookup(id) # 0 /\ h = Lookup(id) /\ h \in Handles /\ Registered(h) /\ UNCHANGED << mods, registry >>
     \/ /\ Lookup(id) = 0 /\ h = Len(mods) + 1 /\ h \notin Handles /\ Len(mods') = Len(mods) + 1
        /\ Handles' = Handles \cup {h} /\ registry' = Append(registry, h)
        /\ NewMod(h, id, id)
  /\ \A g \in Handles : mods'[g] = mods[g] /\ (Registered(g)' <=> Registered(g))

LEMMA FoundModule ==
  ASSUME TypeInv, NEW id \in Ids, NEW got, Got(id, got), mods' = got.mods, registry' = got.registry
  PROVE  /\ Found(id, got.h) /\ ModsOk' /\ RegInv' /\ Kept /\ Len(mods) <= Len(mods')
         /\ Handles \subseteq Handles' /\ got.h \in 1..Len(mods')
<1>0. ModsOk /\ RegInv /\ NamesOk /\ Len(mods) \in Nat
  BY HandleFacts DEF TypeInv
<1>1. CASE Lookup(id) # 0
  <2>1. got.h = Lookup(id) /\ UNCHANGED << mods, registry >>
    BY <1>1 DEF Got
  <2>2. got.h \in Handles /\ Registered(got.h) /\ mods[got.h].id = id
    BY <1>0, <1>1, <2>1, LookupFacts
  <2>3. Handles' = Handles /\ \A g \in Handles : Registered(g)' <=> Registered(g)
    BY <2>1 DEF Handles, Registered
  <2>4. Registered(got.h)'
    BY <2>2, <2>1 DEF Registered
  <2>5. ModsOk' /\ Kept
    BY <2>1, <1>0, SameSelf
  <2>6. RegInv'
    BY <2>1, <2>5, <1>0, RegKept
  <2> QED
    BY <1>0, <1>1, <2>1, <2>2, <2>3, <2>4, <2>5, <2>6 DEF Found, Handles
<1>2. CASE Lookup(id) = 0
  <2> DEFINE m == Module(id, id, EventsFor(id))
  <2>0. PICK h : h = Len(mods) + 1
    OBVIOUS
  <2>1. got.h = h /\ mods' = Append(mods, m) /\ registry' = Append(registry, h)
    BY <1>2, <2>0 DEF Got
  <2>2. EventsFor(id) \in Heard(Len(mods)) /\ id # << >>
    BY <1>0, EventsTyped, RequireAssumption
  <2>3. /\ m \in Mod(Len(mods)) /\ m.id = id /\ m.base = id /\ m.is = {} /\ m.deps = << >>
        /\ m.depCount = 0 /\ m.depMatched = {} /\ m.onDefined = EventsFor(id).defined
        /\ m.onError = EventsFor(id).error /\ m.errback = NONE /\ m.callback = NONE
        /\ m.url \in Places(id) /\ m.url = nameToUrl(id, paths)
    BY <1>0, <2>2, ReadyMod
  <2> HIDE DEF m
  <2>4. /\ ModsOk' /\ Len(mods') = Len(mods) + 1 /\ Kept /\ mods'[h] = m
        /\ h \in Handles' /\ Handles' = Handles \cup {h}
        /\ h \notin Handles /\ \A g \in Handles : mods'[g] = mods[g]
    BY <1>0, <2>0, <2>1, <2>3, ModAdded
  <2>5. Lookup(mods'[h].id) = 0 /\ mods'[h].url \in Places(mods'[h].id) /\ mods'[h].base = mods'[h].id
    BY <1>2, <2>3, <2>4
  <2>6. /\ RegInv' /\ Registered(h)'
        /\ \A g \in Handles : Registered(g)' <=> Registered(g)
    BY <1>0, <2>0, <2>1, <2>4, <2>5, RegAdded
  <2>7. NewMod(h, id, id)
    BY <2>3, <2>4 DEF NewMod
  <2>8. h # 0
    BY <1>0, <2>0
  <2>9. Found(id, got.h)
    <3>1. mods'[h].id = id /\ got.h = h
      BY <2>1, <2>3, <2>4
    <3>2. Len(mods') = Len(mods) + 1 /\ h = Len(mods) + 1 /\ registry' = Append(registry, h)
      BY <2>0, <2>1, <2>4
    <3> QED
      BY <1>2, <2>4, <2>6, <2>7, <2>8, <3>1, <3>2 DEF Found
  <2> QED
    BY <1>0, <2>1, <2>4, <2>0, <2>6, <2>9 DEF Handles
<1> QED
  BY <1>1, <1>2

(* makeModuleMap gives ids of the page or handlers. *)
LEMMA Normalized ==
  ASSUME NEW deps \in Seq(Names), NEW base, IdsIn(deps, base) \subseteq Ids
  PROVE  normalizeAll(deps, base) \in Seq(Ids \cup handlers)
<1> DEFINE s == normalizeAll(deps, base)
<1>1. DOMAIN s = 1..Len(deps) /\ Len(deps) \in Nat /\ DOMAIN deps = 1..Len(deps)
  BY DEF normalizeAll
<1>2. \A i \in 1..Len(deps) : s[i] \in Ids \cup handlers
  BY <1>1 DEF IdsIn
<1>3. s = [i \in 1..Len(deps) |-> s[i]]
  BY <1>1 DEF normalizeAll
<1> HIDE DEF s
<1>4. s \in [1..Len(deps) -> Ids \cup handlers]
  BY <1>2, <1>3
<1>5. s \in Seq(Ids \cup handlers)
  BY <1>1, <1>4
<1> QED
  BY <1>5 DEF s

(* A Module without its error listeners and what its error callback is    *)
SameRest(h) ==
  /\ mods'[h].id = mods[h].id /\ mods'[h].base = mods[h].base /\ mods'[h].url = mods[h].url
  /\ mods'[h].onDefined = mods[h].onDefined
SameCount(h) == mods'[h].depCount = mods[h].depCount /\ mods'[h].depMatched = mods[h].depMatched
SameCall(h) == mods'[h].deps = mods[h].deps /\ mods'[h].callback = mods[h].callback

(* What comes with the step of each operation                              *)
Inited(h) ==
  /\ h = Top.h /\ ~Is(h, "inited") /\ h \in Handles /\ Registered(h)
  /\ OnlyMod(h) /\ SameRest(h) /\ SameCount(h)
  /\ mods'[h].is = mods[h].is \cup {"inited"}
  /\ mods'[h].deps = normalizeAll(Top.deps, mods[h].base) /\ mods'[h].callback = Top.callback
  /\ Shifted(1) /\ 1 \in DOMAIN stack'
  /\ stack'[1] = IF Top.enabled \/ Is(h, "enabled") THEN enable(h) ELSE check(h, FALSE)

(* The calls that change Modules, one lemma each: they keep the types, and what they do is
   said by a short predicate, which the later invariants are proved from. *)
LEMMA TRunInit ==
  ASSUME TypeInv, RunInit
  PROVE  TypeInv' /\ (Quiet \/ \E h \in Handles : Inited(h))
<1> DEFINE n == Len(mods)
<1>0. Top \in [op : {"init"}, h : 1..n, deps : Seq(Names), enabled : BOOLEAN,
                             callback : Backs(n) \cup {NONE}, errback : Errs(n) \cup {NONE}]
  BY TopGood DEF TypeInv, RunInit, Calling, Top, Good
<1>1. stack # << >> /\ Head(stack).op = "init" /\ Top = stack[1] /\ 1 \in DOMAIN stack /\ Top.op = "init"
  BY TopGood DEF TypeInv, RunInit, Calling, Top
<1>2. PICK h : h = Top.h /\ h \in Handles
  BY <1>0 DEF Handles
<1>3. mods[h] \in Mod(n)
  BY <1>2, HandleFacts DEF TypeInv
<1>4. CASE Is(h, "inited")
  <2>1. Return /\ UNCHANGED mods
    BY <1>2, <1>4 DEF RunInit
  <2>2. Calm(0)
    BY <1>1, <2>1, Calm0
  <2> QED
    BY <2>1, <2>2, CalmSame DEF RunInit, sweep, cycle, TypeInv, PageOk
<1>5. CASE ~Is(h, "inited")
  <2> DEFINE eb == CASE Top.errback # NONE -> Top.errback
                      [] Top.errback = NONE /\ mods[h].onError # << >> -> << "emit", h >>
                      [] OTHER -> NONE
             oe == IF Top.errback = NONE THEN mods[h].onError ELSE Append(mods[h].onError, eb)
             ds == normalizeAll(Top.deps, mods[h].base)
             m == [mods[h] EXCEPT !.deps = ds, !.callback = Top.callback,
                              !.errback = eb, !.is = mods[h].is \cup {"inited"}, !.onError = oe]
             f == IF Top.enabled \/ Is(h, "enabled") THEN enable(h) ELSE check(h, FALSE)
  <2>1. mods' = [mods EXCEPT ![h] = m]
    BY <1>2, <1>5 DEF RunInit
  <2>2. Calls(<< f >>)
    <3>1. Calls(IF Top.enabled \/ Is(h, "enabled") THEN << enable(h) >> ELSE << check(h, FALSE) >>)
      BY <1>2, <1>5 DEF RunInit
    <3> QED
      BY <3>1
  <2>3. /\ mods[h].is \cup {"inited"} \in SUBSET Flags /\ mods[h].onError \in Seq(Errs(n))
        /\ mods[h].base \in Ids \cup {NONE}
    BY <1>3, ModFields DEF Flags
  <2>4. eb \in Errs(n) \cup {NONE} /\ (Top.errback # NONE => eb \in Errs(n))
    <3>1. << "emit", h >> \in Errs(n)
      BY <1>2 DEF Errs, Handles
    <3> QED
      BY <1>0, <3>1
  <2> HIDE DEF eb
  <2>5. oe \in Seq(Errs(n))
    BY <2>3, <2>4
  <2>6. ds \in Seq(Ids \cup handlers) /\ Registered(h)
    <3>1. IdsIn(Top.deps, mods[h].base) \subseteq Ids /\ Registered(h)
      BY <1>1, <1>2 DEF TypeInv, InitFrames
    <3> QED
      BY <1>0, <3>1, Normalized
  <2>7. Top.callback \in Backs(n) \cup {NONE}
    BY <1>0
  <2> HIDE DEF oe, ds
  <2>8. m \in Mod(n) /\ m.id = mods[h].id /\ m.base = mods[h].base /\ m.url = mods[h].url
    BY <1>3, <2>3, <2>4, <2>5, <2>6, <2>7 DEF Mod
  <2>9. /\ m.deps = ds /\ m.callback = Top.callback /\ m.is = mods[h].is \cup {"inited"}
        /\ m.depCount = mods[h].depCount /\ m.depMatched = mods[h].depMatched
        /\ m.onDefined = mods[h].onDefined
    BY <1>3 DEF Mod
  <2> HIDE DEF m
  <2>10. ModsOk' /\ Len(mods') = Len(mods) /\ Kept /\ mods'[h] = m /\ \A g \in Handles : g # h => mods'[g] = mods[g]
    BY <1>2, <2>1, <2>8, ModChanged DEF TypeInv
  <2>11. Good(f, n) /\ f.op # "init"
    BY <1>2 DEF Good, enable, check, Handles
  <2> HIDE DEF f
  <2>12. Shifted(1) /\ 1 \in DOMAIN stack' /\ stack'[1] = f
    BY <1>1, <2>2, Push1 DEF TypeInv, StackOk
  <2>13. \A j \in 1..1 : j \in DOMAIN stack' => Good(stack'[j], n) /\ stack'[j].op # "init"
    BY <2>11, <2>12
  <2>14. TypeInv'
    BY <1>1, <2>10, <2>12, <2>13, TypeCalm DEF RunInit, TypeInv, SeenOk, seen
  <2>15. Inited(h)
    BY <1>2, <1>5, <2>6, <2>8, <2>9, <2>10, <2>12
       DEF Inited, OnlyMod, SameRest, SameCount, f, ds
  <2> QED
    BY <1>2, <2>14, <2>15
<1> QED
  BY <1>4, <1>5

Enabled(h) ==
  /\ h = Top.h /\ h \in Handles /\ OnlyMod(h) /\ SameRest(h) /\ SameCount(h) /\ SameCall(h)
  /\ mods'[h].is = mods[h].is \cup {"enabled", "waitPushed", "enabling"}
  /\ IF Is(h, "waitPushed") THEN UNCHANGED wait
     ELSE waitAry' = Append(waitAry, h) /\ waitCount' = waitCount + 1
  /\ Shifted(1) /\ 1 \in DOMAIN stack' /\ stack'[1] = [op |-> "wire", h |-> h, i |-> 1]

NewFlags(h, F) == mods' = [mods EXCEPT ![h].is = F]
LEMMA FlagsOf ==
  ASSUME ModsOk, NEW h \in Handles, NEW F \in SUBSET Flags, NewFlags(h, F)
  PROVE  ModsOk' /\ Len(mods') = Len(mods) /\ Kept /\ OnlyMod(h) /\ SameRest(h) /\ SameCount(h)
         /\ SameCall(h) /\ mods'[h].is = F
<1>1. mods[h] \in Mod(Len(mods))
  BY HandleFacts
<1>2. /\ ModsOk' /\ Len(mods') = Len(mods) /\ Kept
         /\ mods'[h] = [mods[h] EXCEPT !.is = F] /\ \A g \in Handles : g # h => mods'[g] = mods[g]
  BY FlagsChanged DEF NewFlags
<1>3. SameRest(h) /\ SameCount(h) /\ SameCall(h) /\ mods'[h].is = F
  BY <1>1, <1>2 DEF SameRest, SameCount, SameCall, Mod
<1> QED
  BY <1>2, <1>3 DEF OnlyMod

LEMMA TRunEnable ==
  ASSUME TypeInv, RunEnable
  PROVE  TypeInv' /\ \E h \in Handles : Enabled(h)
<1> DEFINE n == Len(mods)
<1>1. stack # << >> /\ Head(stack).op = "enable" /\ Top.op = "enable" /\ Top.h \in Handles
  BY TopGood DEF TypeInv, RunEnable, Calling, Top, Good, Handles
<1>2. PICK h : h = Top.h /\ h \in Handles
  BY <1>1
<1>a. PICK F : F = mods[h].is \cup {"enabled", "waitPushed", "enabling"}
  OBVIOUS
<1> DEFINE f == [op |-> "wire", h |-> h, i |-> 1]
<1>3. F \in SUBSET Flags
  BY <1>a, <1>2, HandleFacts, ModFields DEF TypeInv, Flags
<1>4. NewFlags(h, F) /\ Calls(<< f >>)
  BY <1>a, <1>2 DEF RunEnable, NewFlags
<1>5. IF Is(h, "waitPushed") THEN UNCHANGED wait
      ELSE waitAry' = Append(waitAry, h) /\ waitCount' = waitCount + 1
  BY <1>2 DEF RunEnable
<1>6. Good(f, n) /\ f.op # "init"
  BY <1>2 DEF Good, Handles
<1> HIDE DEF f
<1>7. ModsOk' /\ Len(mods') = Len(mods) /\ Kept /\ OnlyMod(h) /\ SameRest(h) /\ SameCount(h)
      /\ SameCall(h) /\ mods'[h].is = F
  BY <1>2, <1>3, <1>4, FlagsOf DEF TypeInv
<1>8. Shifted(1) /\ 1 \in DOMAIN stack' /\ stack'[1] = f
  BY <1>1, <1>4, Push1 DEF TypeInv, StackOk
<1>9. Handles' = Handles /\ Len(mods) <= Len(mods')
  BY <1>7, HandleFacts DEF Handles, TypeInv
<1>10. WaitOk'
  BY <1>2, <1>5, <1>9 DEF TypeInv, WaitOk, wait
<1>11. RegInv' /\ NamesOk' /\ PageOk' /\ SeenOk'
  BY <1>7, <1>9, RegKept DEF RunEnable, TypeInv, NamesOk, PageOk, SeenOk, names, page, sweep, cycle, seen
<1>12. \A j \in 1..1 : j \in DOMAIN stack' => Good(stack'[j], Len(mods')) /\ stack'[j].op # "init"
  BY <1>6, <1>7, <1>8
<1>13. TypeInv'
  BY <1>1, <1>7, <1>8, <1>9, <1>10, <1>11, <1>12, TypeStep DEF RunEnable, page
<1>14. Enabled(h)
  BY <1>a, <1>2, <1>5, <1>7, <1>8 DEF Enabled, f
<1> QED
  BY <1>2, <1>13, <1>14

WiredAll(h) ==
  /\ h = Top.h /\ h \in Handles /\ Top.i > Len(mods[h].deps)
  /\ OnlyMod(h) /\ SameRest(h) /\ SameCount(h) /\ SameCall(h)
  /\ mods'[h].is = mods[h].is \ {"enabling"}
  /\ Shifted(1) /\ 1 \in DOMAIN stack' /\ stack'[1] = check(h, FALSE)

LEMMA TWireEnd ==
  ASSUME TypeInv, WireEnd
  PROVE  TypeInv' /\ \E h \in Handles : WiredAll(h)
<1> DEFINE n == Len(mods)
<1>1. stack # << >> /\ Head(stack).op = "wire" /\ Top.op = "wire" /\ Top.h \in Handles
  BY TopGood DEF TypeInv, WireEnd, Calling, Top, Good, Handles
<1>2. PICK h : h = Top.h /\ h \in Handles
  BY <1>1
<1>a. PICK F : F = mods[h].is \ {"enabling"}
  OBVIOUS
<1> DEFINE f == check(h, FALSE)
<1>3. F \in SUBSET Flags
  BY <1>a, <1>2, HandleFacts, ModFields DEF TypeInv
<1>4. NewFlags(h, F) /\ Calls(<< f >>)
  BY <1>a, <1>2 DEF WireEnd, NewFlags
<1>6. Good(f, n) /\ f.op # "init"
  BY <1>2 DEF Good, Handles, check
<1> HIDE DEF f
<1>7. ModsOk' /\ Len(mods') = Len(mods) /\ Kept /\ OnlyMod(h) /\ SameRest(h) /\ SameCount(h)
      /\ SameCall(h) /\ mods'[h].is = F
  BY <1>2, <1>3, <1>4, FlagsOf DEF TypeInv
<1>8. Shifted(1) /\ 1 \in DOMAIN stack' /\ stack'[1] = f
  BY <1>1, <1>4, Push1 DEF TypeInv, StackOk
<1>12. \A j \in 1..1 : j \in DOMAIN stack' => Good(stack'[j], n) /\ stack'[j].op # "init"
  BY <1>6, <1>8
<1>13. TypeInv'
  BY <1>1, <1>7, <1>8, <1>12, TypeCalm DEF WireEnd, TypeInv, SeenOk, seen
<1>14. WiredAll(h)
  BY <1>a, <1>2, <1>7, <1>8 DEF WiredAll, f, WireEnd
<1> QED
  BY <1>2, <1>13, <1>14

Served(h, i) ==
  /\ h = Top.h /\ i = Top.i /\ h \in Handles /\ UNCHANGED mods
  /\ i \in 1..Len(mods[h].deps) /\ mods[h].deps[i] \in handlers
  /\ defined' = (IF mods[h].deps[i] = << "exports" >> /\ isDefine(h)
                   THEN defined \cup {mods[h].id} ELSE defined)
  /\ Shifted(1) /\ 1 \in DOMAIN stack' /\ stack'[1] = WireNext(h, i)

LEMMA TWireHandler ==
  ASSUME TypeInv, WireHandler
  PROVE  TypeInv' /\ \E h \in Handles, i \in Nat : Served(h, i)
<1> DEFINE n == Len(mods)
<1>1. /\ stack # << >> /\ Head(stack).op = "wire" /\ Top.op = "wire"
      /\ Top \in [op : {"wire"}, h : 1..n, i : Nat \ {0}]
  BY TopGood DEF TypeInv, WireHandler, Calling, Top, Good
<1>2. PICK h : h = Top.h /\ h \in Handles
  BY <1>1 DEF Handles
<1>3. PICK i : i = Top.i /\ i \in Nat \ {0}
  BY <1>1
<1>4. mods[h] \in Mod(n) /\ mods[h].deps \in Seq(Ids \cup handlers) /\ mods[h].id \in Ids \cup {<< >>}
  BY <1>2, HandleFacts, ModFields DEF TypeInv
<1>5. i \in 1..Len(mods[h].deps) /\ mods[h].deps[i] \in handlers
  BY <1>2, <1>3, <1>4 DEF WireHandler
<1>6. defined' = (IF mods[h].deps[i] = << "exports" >> /\ isDefine(h)
                   THEN defined \cup {mods[h].id} ELSE defined)
  BY <1>2, <1>3 DEF WireHandler
<1> DEFINE f == WireNext(h, i)
<1>7. Good(f, n) /\ f.op # "init"
  BY <1>2, <1>3 DEF Good, WireNext, Handles
<1>8. Calls(<< f >>)
  BY <1>2, <1>3 DEF WireHandler
<1> HIDE DEF f
<1>9. Shifted(1) /\ 1 \in DOMAIN stack' /\ stack'[1] = f
  BY <1>1, <1>8, Push1 DEF TypeInv, StackOk
<1>10. defined' \subseteq Ids
  BY <1>4, <1>6 DEF TypeInv, NamesOk, isDefine
<1>11. ModsOk' /\ Kept /\ Handles' = Handles /\ Len(mods) <= Len(mods')
  BY SameSelf, HandleFacts DEF WireHandler, TypeInv, Handles
<1>12. RegInv' /\ NamesOk' /\ PageOk' /\ SeenOk' /\ WaitOk'
  BY <1>10, <1>11, RegKept DEF WireHandler, TypeInv, NamesOk, PageOk, SeenOk, WaitOk, wait, page,
     sweep, cycle, seen
<1>13. \A j \in 1..1 : j \in DOMAIN stack' => Good(stack'[j], Len(mods')) /\ stack'[j].op # "init"
  BY <1>7, <1>9 DEF WireHandler
<1>14. TypeInv'
  BY <1>1, <1>9, <1>11, <1>12, <1>13, TypeStep DEF WireHandler, page
<1>15. Served(h, i)
  BY <1>2, <1>3, <1>5, <1>6, <1>9 DEF Served, f, WireHandler
<1> QED
  BY <1>2, <1>3, <1>14, <1>15

Listened(M, h, g, l, e, R) ==
  R = [M EXCEPT ![h].depCount = @ + 1, ![g].onDefined = Append(@, l),
                ![g].onError = IF e = NONE THEN @ ELSE Append(@, e)]

HeardBy(n, M, h, g, l, R) ==
  /\ R \in Seq(Mod(n)) /\ Len(R) = n
  /\ \A x \in 1..n :
       /\ R[x].id = M[x].id /\ R[x].base = M[x].base /\ R[x].url = M[x].url
       /\ R[x].is = M[x].is /\ R[x].deps = M[x].deps /\ R[x].depMatched = M[x].depMatched
       /\ R[x].callback = M[x].callback
       /\ R[x].depCount = (IF x = h THEN M[x].depCount + 1 ELSE M[x].depCount)
       /\ R[x].onDefined = (IF x = g THEN Append(M[x].onDefined, l) ELSE M[x].onDefined)

LEMMA ListenedFacts ==
  ASSUME NEW n \in Nat, NEW M \in Seq(Mod(n)), Len(M) = n, NEW h \in 1..n, NEW g \in 1..n,
         NEW l \in Hears(n), NEW e \in Errs(n) \cup {NONE}, NEW R, Listened(M, h, g, l, e, R)
  PROVE  HeardBy(n, M, h, g, l, R)
<1> DEFINE m == [M[h] EXCEPT !.depCount = @ + 1]
           P == [M EXCEPT ![h] = m]
           oe == IF e = NONE THEN P[g].onError ELSE Append(P[g].onError, e)
           p == [P[g] EXCEPT !.onDefined = Append(@, l), !.onError = oe]
<1>1. R = [P EXCEPT ![g] = p]
  BY DEF Listened
<1>2. M[h] \in Mod(n) /\ M[h].depCount + 1 \in Int
  BY ModFields
<1>3. m \in Mod(n)
  BY <1>2 DEF Mod
<1>4. /\ m.id = M[h].id /\ m.base = M[h].base /\ m.url = M[h].url /\ m.is = M[h].is
      /\ m.deps = M[h].deps /\ m.depMatched = M[h].depMatched /\ m.callback = M[h].callback
      /\ m.onDefined = M[h].onDefined /\ m.depCount = M[h].depCount + 1
  BY <1>2 DEF Mod
<1> HIDE DEF m
<1>5. P \in Seq(Mod(n)) /\ Len(P) = n /\ P[h] = m /\ \A x \in 1..n : x # h => P[x] = M[x]
  BY <1>3
<1> HIDE DEF P
<1>6. P[g] \in Mod(n) /\ P[g].onDefined \in Seq(Hears(n)) /\ P[g].onError \in Seq(Errs(n))
  BY <1>5, ModFields
<1>7. oe \in Seq(Errs(n)) /\ Append(P[g].onDefined, l) \in Seq(Hears(n))
  BY <1>6
<1> HIDE DEF oe
<1>8. p \in Mod(n)
  BY <1>6, <1>7 DEF Mod
<1>9. /\ p.id = P[g].id /\ p.base = P[g].base /\ p.url = P[g].url /\ p.is = P[g].is
      /\ p.deps = P[g].deps /\ p.depMatched = P[g].depMatched /\ p.callback = P[g].callback
      /\ p.depCount = P[g].depCount /\ p.onDefined = Append(P[g].onDefined, l)
  BY <1>6 DEF Mod
<1> HIDE DEF p
<1>10. R \in Seq(Mod(n)) /\ Len(R) = n /\ R[g] = p /\ \A x \in 1..n : x # g => R[x] = P[x]
  BY <1>1, <1>5, <1>8
<1>11. ASSUME NEW x \in 1..n
       PROVE  /\ R[x].id = M[x].id /\ R[x].base = M[x].base /\ R[x].url = M[x].url
              /\ R[x].is = M[x].is /\ R[x].deps = M[x].deps /\ R[x].depMatched = M[x].depMatched
              /\ R[x].callback = M[x].callback
              /\ R[x].depCount = (IF x = h THEN M[x].depCount + 1 ELSE M[x].depCount)
              /\ R[x].onDefined = (IF x = g THEN Append(M[x].onDefined, l) ELSE M[x].onDefined)
  <2>1. CASE x = g /\ x = h
    BY <2>1, <1>4, <1>5, <1>9, <1>10
  <2>2. CASE x = g /\ x # h
    BY <2>2, <1>4, <1>5, <1>9, <1>10
  <2>3. CASE x # g /\ x = h
    BY <2>3, <1>4, <1>5, <1>9, <1>10
  <2>4. CASE x # g /\ x # h
    BY <2>4, <1>4, <1>5, <1>9, <1>10
  <2> QED
    BY <2>1, <2>2, <2>3, <2>4
<1> QED
  BY <1>10, <1>11 DEF HeardBy

GotFields(id, got) ==
  /\ got.mods \in Seq(Mod(Len(got.mods))) /\ got.h \in 1..Len(got.mods)
  /\ got.mods[got.h].id = id /\ \A x \in Handles : x \in 1..Len(got.mods) /\ got.mods[x] = mods[x]
  /\ \/ /\ Lookup(id) # 0 /\ got.h = Lookup(id) /\ got.h \in Handles /\ Registered(got.h)
        /\ got.mods = mods /\ got.registry = registry
     \/ /\ Lookup(id) = 0 /\ got.h = Len(mods) + 1 /\ Len(got.mods) = Len(mods) + 1
        /\ got.registry = Append(registry, Len(mods) + 1)
        /\ LET m == got.mods[got.h]
           IN  /\ m.id = id /\ m.base = id /\ m.is = {} /\ m.deps = << >> /\ m.depCount = 0
               /\ m.depMatched = {} /\ m.onDefined = EventsFor(id).defined
               /\ m.callback = NONE /\ m.errback = NONE
               /\ m.url \in Places(id) /\ m.url = nameToUrl(id, paths)

LEMMA GotFacts ==
  ASSUME TypeInv, NEW id \in Ids, NEW got, Got(id, got)
  PROVE  GotFields(id, got)
<1>0. ModsOk /\ RegInv /\ NamesOk /\ Len(mods) \in Nat /\ Handles = 1..Len(mods)
  BY HandleFacts DEF TypeInv, Handles
<1>1. CASE Lookup(id) # 0
  <2>1. got.h = Lookup(id) /\ got.mods = mods /\ got.registry = registry
    BY <1>1 DEF Got
  <2>2. got.h \in Handles /\ Registered(got.h) /\ mods[got.h].id = id
    BY <1>0, <1>1, <2>1, LookupFacts
  <2> QED
    BY <1>0, <1>1, <2>1, <2>2 DEF GotFields, ModsOk
<1>2. CASE Lookup(id) = 0
  <2> DEFINE m == Module(id, id, EventsFor(id))
  <2>0. PICK n : n = Len(mods)
    OBVIOUS
  <2>1. got.h = n + 1 /\ got.mods = Append(mods, m) /\ got.registry = Append(registry, n + 1)
    BY <1>2, <2>0 DEF Got
  <2>2. EventsFor(id) \in Heard(Len(mods)) /\ id # << >>
    BY <1>0, EventsTyped, RequireAssumption
  <2>3. /\ m \in Mod(n) /\ m.id = id /\ m.base = id /\ m.is = {} /\ m.deps = << >>
        /\ m.depCount = 0 /\ m.depMatched = {} /\ m.onDefined = EventsFor(id).defined
        /\ m.onError = EventsFor(id).error /\ m.errback = NONE /\ m.callback = NONE
        /\ m.url \in Places(id) /\ m.url = nameToUrl(id, paths)
    BY <1>0, <2>0, <2>2, ReadyMod
  <2> HIDE DEF m
  <2>4. Mod(n) \subseteq Mod(n + 1) /\ n \in Nat
    BY <1>0, <2>0, MoreMods
  <2>5. mods \in Seq(Mod(n + 1)) /\ m \in Mod(n + 1) /\ Len(mods) = n
    BY <1>0, <2>0, <2>3, <2>4 DEF ModsOk
  <2>6. got.mods \in Seq(Mod(n + 1)) /\ Len(got.mods) = n + 1 /\ got.mods[n + 1] = m
        /\ \A x \in 1..n : got.mods[x] = mods[x]
    BY <2>1, <2>4, <2>5
  <2>7. \A x \in Handles : x \in 1..Len(got.mods) /\ got.mods[x] = mods[x]
    BY <1>0, <2>0, <2>6
  <2>8. got.h \in 1..Len(got.mods)
    BY <2>1, <2>4, <2>6
  <2>9. LET q == got.mods[got.h]
           IN  /\ q.id = id /\ q.base = id /\ q.is = {} /\ q.deps = << >> /\ q.depCount = 0
               /\ q.depMatched = {} /\ q.onDefined = EventsFor(id).defined
               /\ q.callback = NONE /\ q.errback = NONE
               /\ q.url \in Places(id) /\ q.url = nameToUrl(id, paths)
    BY <2>1, <2>3, <2>6
  <2> QED
    BY <1>2, <2>0, <2>1, <2>6, <2>7, <2>8, <2>9 DEF GotFields
<1> QED
  BY <1>1, <1>2

AtDep(h, i) ==
  /\ h = Top.h /\ i = Top.i /\ h \in Handles /\ i \in 1..Len(mods[h].deps)
  /\ mods[h].deps[i] \notin handlers /\ mods[h].deps[i] \in Ids
Available(id) == id \in defined /\ (Lookup(id) = 0 \/ Is(Lookup(id), "complete"))

(* The dependency is there: its value is taken                             *)
Taken(h, i) ==
  /\ AtDep(h, i) /\ Available(mods[h].deps[i]) /\ UNCHANGED registry
  /\ OnlyMod(h) /\ SameRest(h) /\ SameCall(h) /\ mods'[h].is = mods[h].is
  /\ mods'[h].depMatched = mods[h].depMatched \cup {i}
  /\ mods'[h].depCount = (IF i \in mods[h].depMatched THEN mods[h].depCount + 1 ELSE mods[h].depCount)
  /\ \/ Shifted(1) /\ 1 \in DOMAIN stack' /\ stack'[1] = WireNext(h, i)
     \/ /\ Shifted(2) /\ {1, 2} \subseteq DOMAIN stack' /\ stack'[2] = WireNext(h, i)
        /\ \E d \in Handles : d = Lookup(mods[h].deps[i]) /\ ~Is(d, "enabled") /\ stack'[1] = enable(d)

(* It is not there: h listens to its Module g, which may be new           *)
Listening(h, i, g) ==
  /\ AtDep(h, i) /\ ~Available(mods[h].deps[i])
  /\ \/ /\ g \in Handles /\ g = Lookup(mods[h].deps[i]) /\ Registered(g) /\ mods[g].id = mods[h].deps[i]
        /\ Len(mods') = Len(mods) /\ UNCHANGED registry
     \/ /\ g \notin Handles /\ Lookup(mods[h].deps[i]) = 0 /\ g = Len(mods) + 1
        /\ Len(mods') = Len(mods) + 1 /\ registry' = Append(registry, g)
        /\ LET m == mods'[g]
               id == mods[h].deps[i]
           IN  /\ m.id = id /\ m.base = id /\ m.is = {} /\ m.deps = << >> /\ m.depCount = 0
               /\ m.depMatched = {} /\ m.callback = NONE /\ m.url = nameToUrl(id, paths)
               /\ m.onDefined = Append(EventsFor(id).defined, << h, i >>)
  /\ g \in Handles' /\ Handles' = Handles \cup {g} /\ Registered(g)'
  /\ \A x \in Handles : Registered(x)' <=> Registered(x)
  /\ \A x \in Handles :
       /\ mods'[x].id = mods[x].id /\ mods'[x].base = mods[x].base /\ mods'[x].url = mods[x].url
       /\ mods'[x].is = mods[x].is /\ mods'[x].deps = mods[x].deps
       /\ mods'[x].depMatched = mods[x].depMatched /\ mods'[x].callback = mods[x].callback
       /\ mods'[x].depCount = (IF x = h THEN mods[x].depCount + 1 ELSE mods[x].depCount)
       /\ mods'[x].onDefined = (IF x = g THEN Append(mods[x].onDefined, << h, i >>)
                                         ELSE mods[x].onDefined)
  /\ \/ Shifted(1) /\ 1 \in DOMAIN stack' /\ stack'[1] = WireNext(h, i) /\ "enabled" \in mods'[g].is
     \/ /\ Shifted(2) /\ {1, 2} \subseteq DOMAIN stack' /\ stack'[1] = enable(g)
        /\ stack'[2] = WireNext(h, i) /\ "enabled" \notin mods'[g].is

(* enable() of a dependency that is defined already counts it down at once. *)
LEMMA WireDepTaken ==
  ASSUME TypeInv, WireDep, NEW h, NEW i, AtDep(h, i), Available(mods[h].deps[i])
  PROVE  TypeInv' /\ Taken(h, i)
<1> DEFINE n == Len(mods)
           id == mods[h].deps[i]
           m == defineDep([mods[h] EXCEPT !.depCount = @ + 1], i)
           d == Lookup(id)
           f == WireNext(h, i)
<1>0. /\ stack # << >> /\ Head(stack).op = "wire" /\ h \in Handles /\ h = Top.h /\ i = Top.i
      /\ mods[h] \in Mod(n) /\ i \in Nat \ {0} /\ mods[h].deps \in Seq(Ids \cup handlers)
  <2>1. mods[h] \in Mod(n) /\ mods[h].deps \in Seq(Ids \cup handlers)
    BY HandleFacts, ModFields DEF AtDep, TypeInv
  <2>2. stack # << >> /\ Head(stack).op = "wire"
    BY DEF WireDep, Calling
  <2>3. i \in Nat \ {0}
    BY DEF AtDep
  <2> QED
    BY <2>1, <2>2, <2>3 DEF AtDep
<1>1. /\ mods' = [mods EXCEPT ![h] = m] /\ UNCHANGED registry
      /\ Calls((IF d # 0 /\ "enabled" \notin mods'[d].is THEN << enable(d) >> ELSE << >>) \o << f >>)
  <2>1. /\ mods' = [[mods EXCEPT ![h].depCount = @ + 1] EXCEPT ![h] = defineDep(@, i)] /\ UNCHANGED registry
        /\ Calls((IF d # 0 /\ "enabled" \notin mods'[d].is THEN << enable(d) >> ELSE << >>) \o << f >>)
    BY <1>0 DEF WireDep, Available
  <2>2. [[mods EXCEPT ![h].depCount = @ + 1] EXCEPT ![h] = defineDep(@, i)] = [mods EXCEPT ![h] = m]
    <3> DEFINE q == [mods[h] EXCEPT !.depCount = @ + 1]
               M == [mods EXCEPT ![h].depCount = @ + 1]
    <3>1. M = [mods EXCEPT ![h] = q]
      OBVIOUS
    <3>2. m = defineDep(q, i)
      OBVIOUS
    <3> HIDE DEF q, M, m
    <3>3. M[h] = q /\ DOMAIN M = DOMAIN mods /\ h \in DOMAIN mods
      BY <1>0, <3>1, HandleFacts DEF TypeInv
    <3>4. [M EXCEPT ![h] = defineDep(@, i)] = [mods EXCEPT ![h] = m]
      BY <3>1, <3>2, <3>3
    <3> QED
      BY <3>4 DEF M
  <2> HIDE DEF m, f, d
  <2> QED
    BY <2>1, <2>2
<1>2. /\ m \in Mod(n) /\ m.id = mods[h].id /\ m.base = mods[h].base /\ m.url = mods[h].url
      /\ m.is = mods[h].is /\ m.deps = mods[h].deps /\ m.onDefined = mods[h].onDefined
      /\ m.callback = mods[h].callback /\ m.depMatched = mods[h].depMatched \cup {i}
      /\ m.depCount = (IF i \in mods[h].depMatched THEN mods[h].depCount + 1 ELSE mods[h].depCount)
  <2> DEFINE q == [mods[h] EXCEPT !.depCount = @ + 1]
  <2>1. /\ q \in Mod(n) /\ q.id = mods[h].id /\ q.base = mods[h].base /\ q.url = mods[h].url
        /\ q.is = mods[h].is /\ q.deps = mods[h].deps /\ q.onDefined = mods[h].onDefined
        /\ q.callback = mods[h].callback /\ q.depMatched = mods[h].depMatched
        /\ q.depCount = mods[h].depCount + 1
    <3>1. mods[h].depCount + 1 \in Int
      BY <1>0, ModFields
    <3>2. PICK c : c = mods[h].depCount + 1
      OBVIOUS
    <3>3. q = [mods[h] EXCEPT !.depCount = c]
      BY <3>2
    <3> HIDE DEF q
    <3> QED
      BY <1>0, <3>1, <3>2, <3>3 DEF Mod
  <2>2. m = defineDep(q, i)
    OBVIOUS
  <2> HIDE DEF q, m
  <2>a. i \in Nat
    BY <1>0
  <2>3. /\ m \in Mod(n) /\ m.id = q.id /\ m.base = q.base /\ m.url = q.url
        /\ m.is = q.is /\ m.deps = q.deps /\ m.onDefined = q.onDefined
        /\ m.callback = q.callback /\ m.depMatched = q.depMatched \cup {i}
        /\ m.depCount = (IF i \in q.depMatched THEN q.depCount ELSE q.depCount - 1)
    <3>1. DepDefined(n, q, i, m)
      BY <2>a, <2>1, <2>2, DefineDepOk
    <3> QED
      BY <3>1 DEF DepDefined
  <2>4. mods[h].depCount \in Int
    BY <1>0, ModFields
  <2>5. mods[h].depCount + 1 - 1 = mods[h].depCount
    BY <2>4
  <2>6. m.depCount = (IF i \in mods[h].depMatched THEN mods[h].depCount + 1 ELSE mods[h].depCount)
    <3>1. m.depCount = (IF i \in mods[h].depMatched THEN q.depCount ELSE q.depCount - 1)
      BY <2>1, <2>3
    <3>2. q.depCount = mods[h].depCount + 1 /\ q.depCount - 1 = mods[h].depCount
      <4>1. q.depCount = mods[h].depCount + 1
        BY <2>1
      <4>2. PICK c : c = mods[h].depCount /\ c \in Int
        BY <2>4
      <4>3. PICK b : b = q.depCount
        OBVIOUS
      <4>4. b = c + 1
        BY <4>1, <4>2, <4>3
      <4>5. b - 1 = c
        BY <4>2, <4>4
      <4> QED
        BY <4>1, <4>2, <4>3, <4>5
    <3> QED
      BY <3>1, <3>2
  <2> QED
    BY <2>1, <2>3, <2>6
<1> HIDE DEF m
<1>3. ModsOk' /\ Len(mods') = Len(mods) /\ Kept /\ mods'[h] = m /\ \A g \in Handles : g # h => mods'[g] = mods[g]
  BY <1>0, <1>1, <1>2, ModChanged DEF TypeInv
<1>4. \A g \in Handles : mods'[g].is = mods[g].is
  BY <1>2, <1>3
<1>5. Good(f, n) /\ f.op # "init"
  BY <1>0 DEF Good, WireNext, Handles
<1>6. d # 0 => d \in Handles /\ Good(enable(d), n) /\ enable(d).op # "init"
  <2>1. d # 0 => d \in Handles
    BY LookupFacts DEF TypeInv
  <2> HIDE DEF d
  <2> QED
    BY <2>1 DEF Good, enable, Handles
<1>7. \/ Calls(<< f >>)
      \/ d # 0 /\ ~Is(d, "enabled") /\ Calls(<< enable(d), f >>)
  <2> HIDE DEF d, f
  <2> QED
    BY <1>1, <1>4, <1>6, Joined0, Joined1 DEF Is
<1> HIDE DEF d, f
<1>8. CASE Calls(<< f >>)
  <2>1. Shifted(1) /\ 1 \in DOMAIN stack' /\ stack'[1] = f
    BY <1>0, <1>8, Push1 DEF TypeInv, StackOk
  <2>2. \A j \in 1..1 : j \in DOMAIN stack' => Good(stack'[j], n) /\ stack'[j].op # "init"
    BY <1>5, <2>1
  <2>3. TypeInv'
    BY <1>0, <1>1, <1>3, <2>1, <2>2, TypeCalm DEF WireDep, TypeInv, SeenOk, seen
  <2> QED
    BY <1>1, <1>2, <1>3, <2>1, <2>3 DEF Taken, OnlyMod, SameRest, SameCall, f
<1>9. CASE d # 0 /\ ~Is(d, "enabled") /\ Calls(<< enable(d), f >>)
  <2>1. Shifted(2) /\ {1, 2} \subseteq DOMAIN stack' /\ stack'[1] = enable(d) /\ stack'[2] = f
    BY <1>0, <1>9, Push2 DEF TypeInv, StackOk
  <2>2. \A j \in 1..2 : j \in DOMAIN stack' => Good(stack'[j], n) /\ stack'[j].op # "init"
    <3>1. \A j \in 1..2 : j = 1 \/ j = 2
      OBVIOUS
    <3> QED
      BY <1>5, <1>6, <1>9, <2>1, <3>1
  <2>3. TypeInv'
    BY <1>0, <1>1, <1>3, <2>1, <2>2, TypeCalm DEF WireDep, TypeInv, SeenOk, seen
  <2>4. \E e \in Handles : e = Lookup(mods[h].deps[i]) /\ ~Is(e, "enabled") /\ stack'[1] = enable(e)
    BY <1>6, <1>9, <2>1 DEF d
  <2> QED
    BY <1>1, <1>2, <1>3, <2>1, <2>3, <2>4 DEF Taken, OnlyMod, SameRest, SameCall, f
<1> QED
  BY <1>7, <1>8, <1>9

(* enable() of another dependency registers a listener with it, and enables it. *)
LEMMA WireDepListens ==
  ASSUME TypeInv, WireDep, NEW h, NEW i, AtDep(h, i), ~Available(mods[h].deps[i])
  PROVE  TypeInv' /\ \E g \in Nat : Listening(h, i, g)
<1>0. /\ stack # << >> /\ Head(stack).op = "wire" /\ h \in Handles /\ h = Top.h /\ i = Top.i
      /\ i \in Nat \ {0}
  <2>1. stack # << >> /\ Head(stack).op = "wire"
    BY DEF WireDep, Calling
  <2>2. i \in Nat \ {0}
    BY DEF AtDep
  <2> QED
    BY <2>1, <2>2 DEF AtDep
<1>1. PICK id : id = mods[h].deps[i] /\ id \in Ids
  BY DEF AtDep
<1>2. PICK got : got = getModule(id)
  OBVIOUS
<1>3. GotFields(id, got)
  BY <1>1, <1>2, GetModule, GotFacts
<1>4. PICK g : g = got.h
  OBVIOUS
<1>5. PICK e : e = mods[h].errback
  OBVIOUS
<1> DEFINE f == WireNext(h, i)
<1>6. /\ Listened(got.mods, h, g, << h, i >>, e, mods') /\ registry' = got.registry
      /\ Calls((IF g # 0 /\ "enabled" \notin mods'[g].is THEN << enable(g) >> ELSE << >>) \o << f >>)
  BY <1>0, <1>1, <1>2, <1>4, <1>5 DEF WireDep, Available, Listened
<1> HIDE DEF f
<1>7. PICK n : n = Len(got.mods)
  OBVIOUS
<1>8. /\ Len(mods) \in Nat /\ Handles = 1..Len(mods) /\ n \in Nat /\ Len(mods) <= n
      /\ g \in 1..n /\ h \in 1..n /\ got.mods \in Seq(Mod(n)) /\ g # 0 /\ g \in Nat
  <2>1. Len(mods) \in Nat /\ Handles = 1..Len(mods)
    BY HandleFacts DEF TypeInv, Handles
  <2>2. n = Len(mods) \/ n = Len(mods) + 1
    BY <1>3, <1>7 DEF GotFields
  <2> QED
    BY <2>1, <2>2, <1>0, <1>3, <1>4, <1>7 DEF GotFields
<1>9. << h, i >> \in Hears(n) /\ e \in Errs(n) \cup {NONE}
  <2>1. mods[h].errback \in Errs(Len(mods)) \cup {NONE}
    BY <1>0, HandleFacts, ModFields DEF TypeInv
  <2>2. Errs(Len(mods)) \subseteq Errs(n)
    BY <1>8, MoreMods
  <2> QED
    BY <1>0, <1>5, <1>8, <2>1, <2>2 DEF Hears
<1>10. /\ mods' \in Seq(Mod(n)) /\ Len(mods') = n
       /\ \A x \in 1..n :
              /\ mods'[x].id = got.mods[x].id /\ mods'[x].base = got.mods[x].base /\ mods'[x].url = got.mods[x].url
              /\ mods'[x].is = got.mods[x].is /\ mods'[x].deps = got.mods[x].deps /\ mods'[x].depMatched = got.mods[x].depMatched
              /\ mods'[x].callback = got.mods[x].callback
              /\ mods'[x].depCount = (IF x = h THEN got.mods[x].depCount + 1 ELSE got.mods[x].depCount)
              /\ mods'[x].onDefined = (IF x = g THEN Append(got.mods[x].onDefined, << h, i >>) ELSE got.mods[x].onDefined)
  <2>1. PICK R : R = mods'
    OBVIOUS
  <2>2. PICK M : M = got.mods
    OBVIOUS
  <2>3. PICK l : l = << h, i >>
    OBVIOUS
  <2>4. Listened(M, h, g, l, e, R)
    BY <1>6, <2>1, <2>2, <2>3
  <2>5. M \in Seq(Mod(n)) /\ Len(M) = n /\ l \in Hears(n)
    BY <1>7, <1>8, <1>9, <2>2, <2>3
  <2>a. HeardBy(n, M, h, g, l, R)
    BY <1>8, <1>9, <2>4, <2>5, ListenedFacts
  <2>6. /\ R \in Seq(Mod(n)) /\ Len(R) = n
        /\ \A x \in 1..n :
              /\ R[x].id = M[x].id /\ R[x].base = M[x].base /\ R[x].url = M[x].url
              /\ R[x].is = M[x].is /\ R[x].deps = M[x].deps /\ R[x].depMatched = M[x].depMatched
              /\ R[x].callback = M[x].callback
              /\ R[x].depCount = (IF x = h THEN M[x].depCount + 1 ELSE M[x].depCount)
              /\ R[x].onDefined = (IF x = g THEN Append(M[x].onDefined, l) ELSE M[x].onDefined)
    BY <2>a DEF HeardBy
  <2> QED
    BY <2>1, <2>2, <2>3, <2>6
<1>11. /\ \A x \in Handles :
             /\ mods'[x].id = mods[x].id /\ mods'[x].base = mods[x].base /\ mods'[x].url = mods[x].url
             /\ mods'[x].is = mods[x].is /\ mods'[x].deps = mods[x].deps
             /\ mods'[x].depMatched = mods[x].depMatched /\ mods'[x].callback = mods[x].callback
             /\ mods'[x].depCount = (IF x = h THEN mods[x].depCount + 1 ELSE mods[x].depCount)
             /\ mods'[x].onDefined = (IF x = g THEN Append(mods[x].onDefined, << h, i >>)
                                               ELSE mods[x].onDefined)
       /\ mods'[g].id = id
  <2>1. \A x \in Handles : x \in 1..n /\ got.mods[x] = mods[x]
    BY <1>3, <1>7 DEF GotFields
  <2>2. got.mods[g].id = id
    BY <1>3, <1>4 DEF GotFields
  <2>3. mods'[g].id = id
    BY <1>8, <1>10, <2>2
  <2>4. ASSUME NEW x \in Handles
        PROVE  /\ mods'[x].id = mods[x].id /\ mods'[x].base = mods[x].base /\ mods'[x].url = mods[x].url
               /\ mods'[x].is = mods[x].is /\ mods'[x].deps = mods[x].deps
               /\ mods'[x].depMatched = mods[x].depMatched /\ mods'[x].callback = mods[x].callback
               /\ mods'[x].depCount = (IF x = h THEN mods[x].depCount + 1 ELSE mods[x].depCount)
               /\ mods'[x].onDefined = (IF x = g THEN Append(mods[x].onDefined, << h, i >>)
                                               ELSE mods[x].onDefined)
    <3>1. x \in 1..n /\ got.mods[x] = mods[x]
      BY <2>1
    <3> QED
      BY <1>10, <3>1
  <2> QED
    BY <2>3, <2>4
<1>12. ModsOk' /\ Kept
  BY <1>8, <1>10, <1>11 DEF ModsOk, Kept
<1>13. /\ RegInv' /\ Registered(g)' /\ (\A x \in Handles : Registered(x)' <=> Registered(x))
       /\ Handles' = Handles \cup {g}
       /\ \/ /\ g \in Handles /\ g = Lookup(id) /\ Registered(g) /\ mods[g].id = id
             /\ Len(mods') = Len(mods) /\ UNCHANGED registry
          \/ /\ g \notin Handles /\ Lookup(id) = 0 /\ g = Len(mods) + 1
             /\ Len(mods') = Len(mods) + 1 /\ registry' = Append(registry, g)
             /\ LET m == mods'[g]
                IN  /\ m.id = id /\ m.base = id /\ m.is = {} /\ m.deps = << >> /\ m.depCount = 0
                    /\ m.depMatched = {} /\ m.callback = NONE /\ m.url = nameToUrl(id, paths)
                    /\ m.onDefined = Append(EventsFor(id).defined, << h, i >>)
  <2>1. CASE Lookup(id) # 0
    <3>1. g \in Handles /\ g = Lookup(id) /\ Registered(g) /\ got.mods = mods /\ registry' = registry
      BY <1>3, <1>4, <1>6, <1>8, <2>1 DEF GotFields
    <3>2. Len(mods') = Len(mods) /\ mods[g].id = id
      BY <1>3, <1>4, <1>7, <1>10, <3>1 DEF GotFields
    <3>3. RegInv'
      BY <1>12, <3>1, <3>2, RegKept DEF TypeInv
    <3> QED
      BY <3>1, <3>2, <3>3 DEF Registered, Handles
  <2>2. CASE Lookup(id) = 0
    <3>1. /\ g = Len(mods) + 1 /\ n = Len(mods) + 1 /\ registry' = Append(registry, g)
          /\ LET m == got.mods[g]
             IN  /\ m.id = id /\ m.base = id /\ m.is = {} /\ m.deps = << >> /\ m.depCount = 0
                 /\ m.depMatched = {} /\ m.onDefined = EventsFor(id).defined
                 /\ m.callback = NONE /\ m.url \in Places(id) /\ m.url = nameToUrl(id, paths)
      BY <1>3, <1>4, <1>6, <1>7, <1>8, <2>2 DEF GotFields
    <3>2. g \notin Handles /\ g # h
      BY <1>0, <1>8, <3>1
    <3>3. LET m == mods'[g]
                IN  /\ m.id = id /\ m.base = id /\ m.is = {} /\ m.deps = << >> /\ m.depCount = 0
                    /\ m.depMatched = {} /\ m.callback = NONE /\ m.url = nameToUrl(id, paths)
                    /\ m.onDefined = Append(EventsFor(id).defined, << h, i >>)
                    /\ m.url \in Places(id)
      BY <1>8, <1>10, <3>1, <3>2
    <3>4. RegInv' /\ Registered(g)' /\ \A x \in Handles : Registered(x)' <=> Registered(x)
      BY <1>10, <1>12, <2>2, <3>1, <3>3, RegAdded DEF TypeInv
    <3>5. Handles' = Handles \cup {g} /\ Len(mods') = Len(mods) + 1
      BY <1>8, <1>10, <3>1 DEF Handles
    <3> QED
      BY <2>2, <3>1, <3>2, <3>3, <3>4, <3>5
  <2> QED
    BY <2>1, <2>2
<1>14. Good(f, Len(mods')) /\ f.op # "init"
  BY <1>0, <1>8, <1>10 DEF Good, WireNext, f
<1>15. Good(enable(g), Len(mods')) /\ enable(g).op # "init"
  BY <1>8, <1>10 DEF Good, enable
<1>16. \/ /\ Shifted(1) /\ 1 \in DOMAIN stack' /\ stack'[1] = f /\ "enabled" \in mods'[g].is
       \/ /\ Shifted(2) /\ {1, 2} \subseteq DOMAIN stack' /\ stack'[1] = enable(g)
          /\ stack'[2] = f /\ "enabled" \notin mods'[g].is
  <2>1. CASE "enabled" \in mods'[g].is
    <3>1. Calls(<< f >>)
      BY <1>6, <2>1, Joined0
    <3> QED
      BY <1>0, <2>1, <3>1, Push1 DEF TypeInv, StackOk
  <2>2. CASE "enabled" \notin mods'[g].is
    <3>1. Calls(<< enable(g), f >>)
      BY <1>6, <1>8, <2>2, Joined1
    <3> QED
      BY <1>0, <2>2, <3>1, Push2 DEF TypeInv, StackOk
  <2> QED
    BY <2>1, <2>2
<1>17. \E k \in Nat : Shifted(k) /\ \A j \in 1..k : j \in DOMAIN stack' => Good(stack'[j], Len(mods')) /\ stack'[j].op # "init"
  <2>1. \A j \in 1..1 : j = 1
    OBVIOUS
  <2>2. \A j \in 1..2 : j = 1 \/ j = 2
    OBVIOUS
  <2> QED
    BY <1>14, <1>15, <1>16, <2>1, <2>2
<1>18. NamesOk' /\ WaitOk' /\ PageOk' /\ SeenOk' /\ Len(mods) <= Len(mods')
  <2>1. Handles \subseteq Handles' /\ Heard(Len(mods)) \subseteq Heard(Len(mods'))
    BY <1>8, <1>10, <1>13, MoreMods
  <2>2. Seq(Handles) \subseteq Seq(Handles')
    BY <2>1
  <2>3. NamesOk'
    BY <2>1 DEF WireDep, TypeInv, NamesOk, names
  <2>4. WaitOk' /\ PageOk'
    BY <2>2 DEF WireDep, TypeInv, WaitOk, PageOk, wait, page, sweep, cycle
  <2> QED
    BY <1>8, <1>10, <2>3, <2>4 DEF WireDep, TypeInv, SeenOk, seen
<1>19. TypeInv'
  BY <1>0, <1>12, <1>13, <1>17, <1>18, TypeStep DEF WireDep, page
<1>20. Listening(h, i, g)
  BY <1>0, <1>1, <1>11, <1>13, <1>16 DEF Listening, f
<1> QED
  BY <1>8, <1>19, <1>20

LEMMA TWireDep ==
  ASSUME TypeInv, WireDep
  PROVE  TypeInv' /\ \E h \in Handles, i \in Nat : Taken(h, i) \/ \E g \in Nat : Listening(h, i, g)
<1>1. /\ stack # << >> /\ Head(stack).op = "wire" /\ Top.op = "wire"
      /\ Top \in [op : {"wire"}, h : 1..Len(mods), i : Nat \ {0}]
  BY TopGood DEF TypeInv, WireDep, Calling, Top, Good
<1>2. PICK h : h = Top.h /\ h \in Handles
  BY <1>1 DEF Handles
<1>3. PICK i : i = Top.i /\ i \in Nat \ {0}
  BY <1>1
<1>4. mods[h].deps \in Seq(Ids \cup handlers)
  BY <1>2, HandleFacts, ModFields DEF TypeInv
<1>5. AtDep(h, i)
  <2>0. Top.i <= Len(mods[Top.h].deps) /\ mods[Top.h].deps[Top.i] \notin handlers
    BY DEF WireDep
  <2>1. i \in 1..Len(mods[h].deps) /\ mods[h].deps[i] \notin handlers
    BY <1>2, <1>3, <1>4, <2>0
  <2>2. mods[h].deps[i] \in Ids
    BY <1>4, <2>1
  <2> QED
    BY <1>2, <1>3, <2>1, <2>2 DEF AtDep
<1> QED
  BY <1>2, <1>3, <1>5, WireDepTaken, WireDepListens

(* A Module without an id is enabled only when it is initialized, one that *)
(* a script is loaded for has an id, and execCb returns to its check       *)
CallsInv ==
  /\ ForceOk
  /\ \A h \in Handles : ~isDefine(h) /\ Is(h, "enabled") => Is(h, "inited")
  /\ \A f \in Frames : f.op = "enable" /\ ~isDefine(f.h) => Is(f.h, "inited")
  /\ \A f \in Frames : f.op \in {"init", "require"} /\ f.callback # NONE /\ f.callback[1] = "load"
       => isDefine(f.callback[2])
  /\ \A h \in Handles : mods[h].callback # NONE /\ mods[h].callback[1] = "load"
       => isDefine(mods[h].callback[2])
  /\ \A j \in DOMAIN stack : stack[j].op = "execCb" =>
       j + 1 \in DOMAIN stack /\ stack[j + 1].op = "define" /\ stack[j + 1].h = stack[j].h

Fetching(h) ==
  /\ h = Top.h /\ h \in Handles /\ isDefine(h) /\ Is(h, "enabled") /\ ~Is(h, "inited") /\ ~Is(h, "fetched")
  /\ OnlyMod(h) /\ SameRest(h) /\ SameCount(h) /\ SameCall(h) /\ mods'[h].is = mods[h].is \cup {"fetched"}
  /\ \/ /\ mods[h].id \in DOMAIN Shim /\ UNCHANGED << urlFetched, scripts >>
        /\ Shifted(1) /\ 1 \in DOMAIN stack'
        /\ stack'[1] = require(Shim[mods[h].id], mods[h].id, << "load", h >>, NONE)
     \/ mods[h].id \notin DOMAIN Shim /\ load(h) /\ Shifted(0)

(* req.load adds a script at the place of the module. *)
LEMMA ScriptsLoaded ==
  ASSUME TypeInv, NEW h \in Handles, isDefine(h), load(h)
  PROVE  /\ scripts' \subseteq Script
         /\ \A s \in scripts' : s.url \in Places(s.id) /\ (s.executed => s.url \in DOMAIN Site)
         /\ \A s \in scripts' : s.executed => s \in scripts
<1> DEFINE e == [id |-> mods[h].id, url |-> mods[h].url, executed |-> FALSE]
<1>1. mods[h].id \in Ids /\ mods[h].url \in Places(mods[h].id)
  <2>1. mods[h].id \in Ids
    BY HandleFacts, ModFields DEF TypeInv, isDefine
  <2> QED
    BY <2>1 DEF TypeInv, RegInv
<1>2. mods[h].url \in AllPlaces
  BY <1>1 DEF AllPlaces
<1>3. e \in Script /\ e.url \in Places(e.id) /\ ~e.executed
  BY <1>1, <1>2 DEF Script
<1>4. scripts' = scripts \/ scripts' = scripts \cup {e}
  BY DEF load
<1> HIDE DEF e
<1> QED
  BY <1>3, <1>4 DEF TypeInv, PageOk

LEMMA TFetch ==
  ASSUME TypeInv, CallsInv, Fetch
  PROVE  TypeInv' /\ \E h \in Handles : Fetching(h)
<1> DEFINE n == Len(mods)
<1>1. /\ stack # << >> /\ Head(stack).op = "check" /\ Top.op = "check" /\ Top.h \in Handles
  BY TopGood DEF TypeInv, Fetch, Calling, Top, Good, Handles
<1>2. PICK h : h = Top.h /\ h \in Handles
  BY <1>1
<1>a. PICK F : F = mods[h].is \cup {"fetched"}
  OBVIOUS
<1>b. PICK id : id = mods[h].id
  OBVIOUS
<1> DEFINE f == require(Shim[id], id, << "load", h >>, NONE)
<1>3. Is(h, "enabled") /\ ~Is(h, "inited") /\ ~Is(h, "fetched") /\ isDefine(h)
  BY <1>2 DEF Fetch, CallsInv
<1>4. F \in SUBSET Flags
  BY <1>a, <1>2, HandleFacts, ModFields DEF TypeInv, Flags
<1>5. NewFlags(h, F) /\ expired' = FALSE
  BY <1>a, <1>2 DEF Fetch, NewFlags
<1>6. \/ id \in DOMAIN Shim /\ Calls(<< f >>) /\ UNCHANGED << urlFetched, scripts >>
      \/ id \notin DOMAIN Shim /\ Return /\ load(h)
  BY <1>b, <1>2 DEF Fetch
<1>7. /\ ModsOk' /\ Len(mods') = Len(mods) /\ Kept /\ OnlyMod(h) /\ SameRest(h) /\ SameCount(h)
      /\ SameCall(h) /\ mods'[h].is = F
  BY <1>2, <1>4, <1>5, FlagsOf DEF TypeInv
<1>8. Handles' = Handles /\ Len(mods) <= Len(mods')
  BY <1>7, HandleFacts DEF Handles, TypeInv
<1>9. id \in DOMAIN Shim => Good(f, n) /\ f.op # "init"
  <2> SUFFICES ASSUME id \in DOMAIN Shim PROVE Good(f, n) /\ f.op # "init"
    OBVIOUS
  <2>1. id \in Ids /\ Shim[id] \in Seq(Names) /\ IdsIn(Shim[id], id) \subseteq Ids
    BY RequireAssumption
  <2>2. << "load", h >> \in Backs(n)
    BY <1>2 DEF Backs, Handles
  <2> QED
    BY <2>1, <2>2 DEF Good, require
<1> HIDE DEF f
<1>10. \/ /\ id \in DOMAIN Shim /\ UNCHANGED << urlFetched, scripts >>
          /\ Shifted(1) /\ 1 \in DOMAIN stack' /\ stack'[1] = f
       \/ id \notin DOMAIN Shim /\ load(h) /\ Shifted(0)
  BY <1>1, <1>6, Push0, Push1 DEF TypeInv, StackOk
<1>11. /\ scripts' \subseteq Script
       /\ \A s \in scripts' : s.url \in Places(s.id) /\ (s.executed => s.url \in DOMAIN Site)
       /\ \A s \in scripts' : s.executed => s \in scripts
  BY <1>2, <1>3, <1>10, ScriptsLoaded DEF TypeInv, PageOk
<1>12. PageOk'
  BY <1>5, <1>8, <1>11 DEF Fetch, TypeInv, PageOk, sweep, cycle
<1>13. RegInv' /\ NamesOk' /\ WaitOk' /\ SeenOk'
  BY <1>7, <1>8, RegKept DEF Fetch, TypeInv, NamesOk, WaitOk, SeenOk, wait, seen
<1>14. \E k \in Nat : Shifted(k) /\ \A j \in 1..k : j \in DOMAIN stack' => Good(stack'[j], Len(mods')) /\ stack'[j].op # "init"
  BY <1>7, <1>9, <1>10
<1>15. TypeInv'
  BY <1>1, <1>7, <1>8, <1>11, <1>12, <1>13, <1>14, TypeStep DEF Fetch
<1>16. Fetching(h)
  BY <1>a, <1>b, <1>2, <1>3, <1>7, <1>10 DEF Fetching, f
<1> QED
  BY <1>2, <1>15, <1>16

Starting(h) ==
  /\ h = Top.h /\ h \in Handles /\ Is(h, "enabled") /\ ~Is(h, "enabling") /\ Is(h, "inited")
  /\ ~Is(h, "error") /\ ~Is(h, "defining") /\ ~Is(h, "defined") /\ mods[h].depCount < 1
  /\ OnlyMod(h) /\ SameRest(h) /\ SameCount(h) /\ SameCall(h) /\ mods'[h].is = mods[h].is \cup {"defining"}
  /\ Shifted(2) /\ {1, 2} \subseteq DOMAIN stack' /\ stack'[1] = [op |-> "execCb", h |-> h]
  /\ stack'[2].op = "define" /\ stack'[2].h = h

LEMMA TCheckDefine ==
  ASSUME TypeInv, CheckDefine
  PROVE  TypeInv' /\ (Quiet \/ \E h \in Handles : Starting(h))
<1> DEFINE n == Len(mods)
<1>1. /\ stack # << >> /\ Head(stack).op = "check" /\ Top.op = "check" /\ Top.h \in Handles
      /\ Top.silent \in BOOLEAN
  BY TopGood DEF TypeInv, CheckDefine, Calling, Top, Good, Handles
<1>2. PICK h : h = Top.h /\ h \in Handles
  BY <1>1
<1> DEFINE run == mods[h].depCount < 1 /\ ~Is(h, "defined")
           f == [op |-> "execCb", h |-> h]
           g == [op |-> "define", h |-> h, silent |-> Top.silent]
           e == [op |-> "notify", h |-> h]
<1>3. Is(h, "enabled") /\ ~Is(h, "enabling") /\ Is(h, "inited") /\ ~Is(h, "error") /\ ~Is(h, "defining")
  BY <1>2 DEF CheckDefine
<1>4. Good(f, n) /\ Good(g, n) /\ Good(e, n) /\ f.op # "init" /\ g.op # "init" /\ Mild(e)
  BY <1>1, <1>2 DEF Good, Handles, Keys, Mild
<1>5. CASE ~run
  <2>1. mods' = [mods EXCEPT ![h].is = @] /\ Calls(notify(h, Top.silent))
    BY <1>2, <1>5 DEF CheckDefine
  <2>2. UNCHANGED mods
    <3>1. mods[h] \in Mod(n) /\ h \in DOMAIN mods
      BY <1>2, HandleFacts DEF TypeInv
    <3>2. PICK F : F = mods[h].is
      OBVIOUS
    <3>3. NewFlags(h, F)
      BY <2>1, <3>2 DEF NewFlags
    <3>4. F \in SUBSET Flags
      BY <3>1, <3>2, ModFields
    <3>5. /\ mods' \in Seq(Mod(n)) /\ mods \in Seq(Mod(n)) /\ Len(mods') = n
          /\ mods'[h] = [mods[h] EXCEPT !.is = F] /\ \A x \in Handles : x # h => mods'[x] = mods[x]
      BY <1>2, <3>3, <3>4, FlagsChanged DEF NewFlags, TypeInv, ModsOk
    <3>6. mods'[h] = mods[h]
      BY <3>1, <3>2, <3>5 DEF Mod
    <3>7. \A x \in 1..n : mods'[x] = mods[x]
      BY <3>5, <3>6 DEF Handles
    <3> QED
      BY <3>5, <3>7, SeqEqual
  <2>3. Calls(<< >>) \/ Calls(<< e >>)
    BY <2>1 DEF notify
  <2> HIDE DEF f, g, e
  <2>4. Calm(0) \/ Calm(1)
    BY <1>1, <1>4, <2>3, Calm0, Calm1
  <2> QED
    BY <2>2, <2>4, CalmSame DEF CheckDefine, sweep, cycle, TypeInv, PageOk
<1>6. CASE run
  <2>a. PICK F : F = mods[h].is \cup {"defining"}
    OBVIOUS
  <2>1. NewFlags(h, F) /\ Calls(<< f, g >>)
    BY <1>2, <1>6, <2>a DEF CheckDefine, NewFlags
  <2>2. F \in SUBSET Flags
    BY <1>2, <2>a, HandleFacts, ModFields DEF TypeInv, Flags
  <2>3. /\ ModsOk' /\ Len(mods') = Len(mods) /\ Kept /\ OnlyMod(h) /\ SameRest(h) /\ SameCount(h)
        /\ SameCall(h) /\ mods'[h].is = F
    BY <1>2, <2>1, <2>2, FlagsOf DEF TypeInv
  <2> HIDE DEF f, g, e
  <2>4. Shifted(2) /\ {1, 2} \subseteq DOMAIN stack' /\ stack'[1] = f /\ stack'[2] = g
    BY <1>1, <2>1, Push2 DEF TypeInv, StackOk
  <2>5. \A j \in 1..2 : j \in DOMAIN stack' => Good(stack'[j], n) /\ stack'[j].op # "init"
    <3>1. \A j \in 1..2 : j = 1 \/ j = 2
      OBVIOUS
    <3> QED
      BY <1>4, <2>4, <3>1
  <2>6. TypeInv'
    BY <1>1, <2>3, <2>4, <2>5, TypeCalm DEF CheckDefine, TypeInv, SeenOk, seen
  <2>7. Starting(h)
    BY <1>2, <1>3, <1>6, <2>a, <2>3, <2>4 DEF Starting, f, g
  <2> QED
    BY <1>2, <2>6, <2>7
<1> QED
  BY <1>5, <1>6

Executed(h) ==
  /\ h = Top.h /\ h \in Handles /\ isDefine(h) /\ mods[h].id \in Ids /\ UNCHANGED << mods, called >>
  /\ runs' = (IF Kind[mods[h].id] # "plain" THEN [runs EXCEPT ![mods[h].id] = @ + 1] ELSE runs)
  /\ \/ Shifted(0)
     \/ /\ Shifted(1) /\ 1 \in DOMAIN stack' /\ mods[h].id \in DOMAIN Nested
        /\ stack'[1] = require(Nested[mods[h].id], mods[h].id, NONE, NONE)

LEMMA TExecFactory ==
  ASSUME TypeInv, ExecFactory
  PROVE  TypeInv' /\ \E h \in Handles : Executed(h)
<1> DEFINE n == Len(mods)
<1>1. /\ stack # << >> /\ Head(stack).op = "execCb" /\ Top.op = "execCb" /\ Top.h \in Handles
  BY TopGood DEF TypeInv, ExecFactory, Calling, Top, Good, Handles
<1>2. PICK h : h = Top.h /\ h \in Handles
  BY <1>1
<1>3. PICK id : id = mods[h].id
  OBVIOUS
<1>4. isDefine(h) /\ id \in Ids
  <2>1. isDefine(h)
    BY <1>2 DEF ExecFactory
  <2> QED
    BY <1>2, <1>3, <2>1, HandleFacts, ModFields DEF TypeInv, isDefine
<1> DEFINE f == require(Nested[id], id, NONE, NONE)
<1>5. /\ runs' = (IF Kind[id] # "plain" THEN [runs EXCEPT ![id] = @ + 1] ELSE runs)
      /\ Calls(IF id \in DOMAIN Nested THEN << f >> ELSE << >>)
  BY <1>2, <1>3, <1>4 DEF ExecFactory
<1>6. id \in DOMAIN Nested => Good(f, n) /\ f.op # "init"
  BY <1>4, RequireAssumption DEF Good, require
<1>7. runs' \in [Ids -> Nat]
  BY <1>4, <1>5 DEF TypeInv, SeenOk
<1>8. SeenOk' /\ ModsOk' /\ Kept /\ Len(mods') = Len(mods)
  BY <1>7, SameSelf DEF ExecFactory, TypeInv, SeenOk
<1> HIDE DEF f
<1>9. Shifted(0) \/ (Shifted(1) /\ 1 \in DOMAIN stack' /\ id \in DOMAIN Nested /\ stack'[1] = f)
  BY <1>1, <1>5, Push0, Push1 DEF TypeInv, StackOk
<1>10. \E k \in Nat : Shifted(k) /\ \A j \in 1..k : j \in DOMAIN stack' => Good(stack'[j], n) /\ stack'[j].op # "init"
  BY <1>6, <1>9
<1>11. TypeInv'
  BY <1>1, <1>8, <1>10, TypeCalm DEF ExecFactory
<1>12. Executed(h)
  BY <1>2, <1>3, <1>4, <1>5, <1>9 DEF Executed, f, ExecFactory
<1> QED
  BY <1>2, <1>11, <1>12

(* The factory of h throws                                                 *)
Thrown(h) ==
  /\ h = Top.h /\ h \in Handles /\ isDefine(h) /\ mods[h].id \in Throwing /\ Head(stack).op = "execCb"
  /\ SameMods /\ runs' = [runs EXCEPT ![mods[h].id] = @ + 1]
  /\ \/ stack' = << >>
     \/ /\ IsSeq(stack') /\ DOMAIN stack' = 1..(Len(stack) - 1) /\ 1 \in DOMAIN stack'
        /\ stack'[1].op = "onError"
        /\ \A j \in DOMAIN stack' : j > 1 => j + 1 \in DOMAIN stack /\ stack'[j] = stack[j + 1]

LEMMA SameMarked ==
  ASSUME ModsOk, NEW h \in Handles, NEW F, F = mods[h].is \cup {"error"}, NewFlags(h, F)
  PROVE  ModsOk' /\ Kept /\ SameMods
<1>1. mods[h] \in Mod(Len(mods)) /\ F \in SUBSET Flags
  BY HandleFacts, ModFields DEF Flags
<1>2. /\ ModsOk' /\ Len(mods') = Len(mods) /\ Kept /\ mods'[h] = [mods[h] EXCEPT !.is = F]
      /\ \A x \in Handles : x # h => mods'[x] = mods[x]
  BY <1>1, FlagsChanged DEF NewFlags
<1>3. /\ mods'[h].is = F /\ mods'[h].deps = mods[h].deps /\ mods'[h].depCount = mods[h].depCount
      /\ mods'[h].depMatched = mods[h].depMatched /\ mods'[h].onDefined = mods[h].onDefined
      /\ mods'[h].errback = mods[h].errback /\ mods'[h].callback = mods[h].callback
  BY <1>1, <1>2 DEF Mod
<1>4. ASSUME NEW x \in Handles, NEW f \in Flags, f # "error"
      PROVE  f \in mods'[x].is <=> f \in mods[x].is
  <2>1. CASE x = h
    BY <2>1, <1>3, <1>4
  <2>2. CASE x # h
    BY <1>2, <2>2
  <2> QED
    BY <2>1, <2>2
<1>5. \A x \in Handles :
         /\ mods'[x].deps = mods[x].deps /\ mods'[x].depCount = mods[x].depCount
         /\ mods'[x].depMatched = mods[x].depMatched /\ mods'[x].onDefined = mods[x].onDefined
         /\ mods'[x].errback = mods[x].errback /\ mods'[x].callback = mods[x].callback
  BY <1>2, <1>3
<1> QED
  BY <1>2, <1>4, <1>5 DEF SameMods, Kept

LEMMA TFactoryThrows ==
  ASSUME TypeInv, CallsInv, FactoryThrows
  PROVE  TypeInv' /\ \E h \in Handles : Thrown(h)
<1> DEFINE n == Len(mods)
<1>1. /\ stack # << >> /\ Head(stack).op = "execCb" /\ Top.op = "execCb" /\ Top.h \in Handles
      /\ Top = stack[1] /\ 1 \in DOMAIN stack
  BY TopGood DEF TypeInv, FactoryThrows, Calling, Top, Good, Handles
<1>2. PICK h : h = Top.h /\ h \in Handles
  BY <1>1
<1>3. PICK id : id = mods[h].id
  OBVIOUS
<1>4. isDefine(h) /\ id \in Ids /\ id \in Throwing
  <2>1. id \in Throwing /\ Throwing \subseteq Ids
    BY <1>2, <1>3, RequireAssumption DEF FactoryThrows
  <2> QED
    BY <2>1, <1>3, RequireAssumption DEF isDefine
<1>5. runs' = [runs EXCEPT ![id] = @ + 1] /\ failed' = failed \cup {id}
  BY <1>2, <1>3 DEF FactoryThrows
<1>6. runs' \in [Ids -> Nat] /\ SeenOk'
  BY <1>4, <1>5 DEF TypeInv, SeenOk, FactoryThrows
<1> DEFINE f == onError(<< id >>)
<1>7. Good(f, n) /\ f.op = "onError"
  <2>1. << id >> \in Seq(Names)
    BY <1>4, RequireAssumption
  <2> QED
    BY <2>1 DEF Good, onError
<1>8. \/ stack' = << >> /\ UNCHANGED mods
      \/ mods' = [mods EXCEPT ![h].is = @ \cup {"error"}] /\ stack' = << f >> \o Tail(Tail(stack))
  BY <1>2, <1>3 DEF FactoryThrows, Throw
<1>9. 2 \in DOMAIN stack
  BY <1>1 DEF CallsInv
<1>10. CASE stack' = << >> /\ UNCHANGED mods
  <2>1. ModsOk' /\ Kept /\ SameMods /\ Len(mods') = Len(mods)
    BY <1>10, SameSelf DEF TypeInv
  <2>2. TypeInv'
    BY <1>1, <1>6, <1>10, <2>1, TypeThrow DEF FactoryThrows
  <2>3. Thrown(h)
    BY <1>1, <1>2, <1>3, <1>4, <1>5, <1>10, <2>1 DEF Thrown
  <2> QED
    BY <1>2, <2>2, <2>3
<1>11. CASE mods' = [mods EXCEPT ![h].is = @ \cup {"error"}] /\ stack' = << f >> \o Tail(Tail(stack))
  <2>1. PICK F : F = mods[h].is \cup {"error"}
    OBVIOUS
  <2>2. NewFlags(h, F)
    BY <1>11, <2>1 DEF NewFlags
  <2>3. ModsOk' /\ Kept /\ SameMods
    BY <1>2, <2>1, <2>2, SameMarked DEF TypeInv
  <2>4. Handles' = Handles /\ Len(mods') = Len(mods) /\ Len(mods) <= Len(mods')
    BY <2>3, HandleFacts DEF SameMods, Handles, TypeInv
  <2> HIDE DEF f
  <2>5. /\ IsSeq(stack') /\ DOMAIN stack' = 1..(Len(stack) - 1) /\ 1 \in DOMAIN stack' /\ stack'[1] = f
        /\ \A j \in DOMAIN stack' : j > 1 => j + 1 \in DOMAIN stack /\ stack'[j] = stack[j + 1]
    <3>1. PICK S : stack \in Seq(S)
      BY DEF TypeInv, StackOk, IsSeq
    <3> DEFINE t == Tail(stack)
               u == Tail(t)
               a == << f >>
    <3>2. Len(stack) \in Nat /\ Len(stack) >= 2 /\ DOMAIN stack = 1..Len(stack)
      BY <1>9, <3>1
    <3>3. t \in Seq(S) /\ Len(t) = Len(stack) - 1 /\ \A j \in 1..(Len(stack) - 1) : t[j] = stack[j + 1]
      BY <3>1, <3>2
    <3> HIDE DEF t
    <3>4. u \in Seq(S) /\ Len(u) = Len(stack) - 2 /\ \A j \in 1..(Len(stack) - 2) : u[j] = t[j + 1]
      <4>1. t # << >> /\ Len(t) \in Nat
        BY <3>2, <3>3
      <4>2. Tail(t) \in Seq(S) /\ Len(Tail(t)) = Len(t) - 1 /\ \A j \in DOMAIN Tail(t) : Tail(t)[j] = t[j + 1]
        BY <3>3, <4>1, HeadTailFacts
      <4>3. Len(t) - 1 = Len(stack) - 2 /\ DOMAIN Tail(t) = 1..Len(Tail(t))
        BY <3>2, <3>3, <4>2
      <4> QED
        BY <4>2, <4>3
    <3>5. \A j \in 1..(Len(stack) - 2) : u[j] = stack[j + 2] /\ j + 2 \in DOMAIN stack
      <4> TAKE j \in 1..(Len(stack) - 2)
      <4>1. j + 1 \in 1..(Len(stack) - 1) /\ j + 1 + 1 = j + 2 /\ j + 2 \in DOMAIN stack
        BY <3>2
      <4> QED
        BY <4>1, <3>3, <3>4
    <3> HIDE DEF u
    <3>6. a \in Seq(S \cup {f}) /\ u \in Seq(S \cup {f}) /\ Len(a) = 1 /\ a[1] = f
      BY <3>4
    <3>7. stack' = a \o u
      BY <1>11 DEF t, u
    <3> HIDE DEF a
    <3>8. /\ a \o u \in Seq(S \cup {f}) /\ Len(a \o u) = Len(stack) - 1 /\ Len(a) + Len(u) = Len(stack) - 1
      <4>1. Len(a \o u) = Len(a) + Len(u) /\ a \o u \in Seq(S \cup {f})
        BY <3>6, ConcatProperties
      <4>2. Len(a) + Len(u) = Len(stack) - 1
        BY <3>2, <3>4, <3>6
      <4> QED
        BY <4>1, <4>2
    <3>9. \A j \in 1..(Len(stack) - 1) : (a \o u)[j] = IF j <= 1 THEN a[j] ELSE u[j - 1]
      <4>1. \A j \in 1..(Len(a) + Len(u)) : (a \o u)[j] = IF j <= Len(a) THEN a[j] ELSE u[j - Len(a)]
        BY <3>6, ConcatProperties
      <4> QED
        BY <4>1, <3>6, <3>8
    <3>10. ASSUME NEW j \in 1..(Len(stack) - 1), j > 1
           PROVE  j + 1 \in DOMAIN stack /\ (a \o u)[j] = stack[j + 1]
      <4>1. j - 1 \in 1..(Len(stack) - 2) /\ j - 1 + 2 = j + 1 /\ ~(j <= 1)
        BY <3>2, <3>10
      <4> QED
        BY <4>1, <3>5, <3>9
    <3>11. DOMAIN (a \o u) = 1..(Len(stack) - 1) /\ 1 \in 1..(Len(stack) - 1)
      <4>1. PICK w : w = a \o u
        OBVIOUS
      <4>2. w \in Seq(S \cup {f}) /\ Len(w) = Len(stack) - 1
        BY <3>8, <4>1
      <4>3. DOMAIN w = 1..(Len(stack) - 1)
        BY <4>2
      <4>4. 1 \in 1..(Len(stack) - 1)
        BY <3>2
      <4> QED
        BY <4>1, <4>3, <4>4
    <3>12. (a \o u)[1] = f
      BY <3>9, <3>11, <3>6
    <3> QED
      BY <3>7, <3>8, <3>10, <3>11, <3>12 DEF IsSeq
  <2>6. \A j \in DOMAIN stack' : j = 1 \/ j > 1
    BY <2>5, TopGood DEF TypeInv
  <2>7. StackOk'
    <3>1. ASSUME NEW j \in DOMAIN stack' PROVE Good(stack'[j], Len(mods'))
      BY <1>7, <2>4, <2>5, <2>6 DEF TypeInv, StackOk, Frames
    <3> QED
      BY <2>5, <3>1 DEF StackOk, Frames
  <2>8. InitFrames'
    <3>1. ASSUME NEW j \in DOMAIN stack' PROVE stack'[j].op # "init"
      <4>1. CASE j = 1
        BY <4>1, <1>7, <2>5
      <4>2. CASE j > 1
        <5>1. j + 1 \in DOMAIN stack /\ stack'[j] = stack[j + 1] /\ j + 1 # 1
          BY <2>5, <4>2
        <5> QED
          BY <5>1 DEF TypeInv, InitFrames
      <4> QED
        BY <2>6, <4>1, <4>2
    <3> QED
      BY <3>1 DEF InitFrames
  <2>9. QueueInv'
    <3>1. UNCHANGED << queues, useInteractive, scripts >>
      BY DEF FactoryThrows, page
    <3> QED
      BY <1>1, <3>1, QueueKept DEF TypeInv
  <2>10. RegInv'
    BY <2>3, <2>4, RegKept DEF TypeInv, FactoryThrows
  <2>11. NamesOk' /\ WaitOk' /\ PageOk'
    BY <2>4 DEF FactoryThrows, TypeInv, NamesOk, WaitOk, PageOk, names, wait, sweep, page, cycle
  <2>12. TypeInv'
    BY <1>6, <2>3, <2>7, <2>8, <2>9, <2>10, <2>11 DEF TypeInv
  <2>13. Thrown(h)
    BY <1>1, <1>2, <1>3, <1>4, <1>5, <1>7, <2>3, <2>5 DEF Thrown
  <2> QED
    BY <1>2, <2>12, <2>13
<1> QED
  BY <1>8, <1>10, <1>11

(* The callback of a require                                               *)
CalledBack(h) ==
  /\ h = Top.h /\ h \in Handles /\ ~isDefine(h) /\ Head(stack).op = "execCb"
  /\ UNCHANGED << mods, runs >> /\ Shifted(0)
  /\ LET cb == mods[h].callback
     IN  /\ called' = (IF cb # NONE /\ cb[1] = "user" THEN [called EXCEPT ![cb[2]] = @ + 1] ELSE called)
         /\ \/ UNCHANGED << urlFetched, scripts >>
            \/ /\ cb # NONE /\ cb[1] = "load" /\ cb[2] \in Handles /\ isDefine(cb[2]) /\ load(cb[2])

LEMMA TExecCallback ==
  ASSUME TypeInv, CallsInv, ExecCallback
  PROVE  TypeInv' /\ \E h \in Handles : CalledBack(h)
<1> DEFINE n == Len(mods)
<1>1. stack # << >> /\ Head(stack).op = "execCb" /\ Top.op = "execCb" /\ Top.h \in Handles
  BY TopGood DEF TypeInv, ExecCallback, Calling, Top, Good, Handles
<1>2. PICK h : h = Top.h /\ h \in Handles
  BY <1>1
<1>3. PICK cb : cb = mods[h].callback
  OBVIOUS
<1>4. /\ called' = (IF cb # NONE /\ cb[1] = "user" THEN [called EXCEPT ![cb[2]] = @ + 1] ELSE called)
      /\ IF cb # NONE /\ cb[1] = "load" THEN load(cb[2]) ELSE UNCHANGED << urlFetched, scripts >>
      /\ ~isDefine(h) /\ Return
  BY <1>2, <1>3 DEF ExecCallback
<1>5. cb \in Backs(n) \cup {NONE}
  BY <1>2, <1>3, HandleFacts, ModFields DEF TypeInv
<1>6. cb # NONE /\ cb[1] = "user" => cb[2] \in Requires
  BY <1>5 DEF Backs
<1>7. cb # NONE /\ cb[1] = "load" => cb[2] \in Handles /\ isDefine(cb[2])
  BY <1>2, <1>3, <1>5 DEF Backs, CallsInv, Handles
<1>8. called' \in [Requires -> Nat]
  BY <1>4, <1>6 DEF TypeInv, SeenOk
<1>9. SeenOk' /\ ModsOk' /\ Kept /\ Len(mods') = Len(mods) /\ Handles' = Handles /\ Len(mods) <= Len(mods')
  BY <1>8, SameSelf, HandleFacts DEF ExecCallback, TypeInv, SeenOk, Handles
<1>10. Shifted(0)
  BY <1>1, <1>4, Push0 DEF TypeInv, StackOk
<1>11. /\ scripts' \subseteq Script
       /\ \A s \in scripts' : s.url \in Places(s.id) /\ (s.executed => s.url \in DOMAIN Site)
       /\ \A s \in scripts' : s.executed => s \in scripts
  <2>1. CASE cb # NONE /\ cb[1] = "load"
    <3>1. PICK l : l = cb[2]
      OBVIOUS
    <3> QED
      BY <1>4, <1>7, <2>1, <3>1, ScriptsLoaded
  <2>2. CASE ~(cb # NONE /\ cb[1] = "load")
    BY <1>4, <2>2 DEF TypeInv, PageOk
  <2> QED
    BY <2>1, <2>2
<1>12. PageOk' /\ RegInv' /\ NamesOk' /\ WaitOk'
  BY <1>9, <1>11, RegKept DEF ExecCallback, TypeInv, PageOk, NamesOk, WaitOk, wait, sweep, cycle
<1>13. TypeInv'
  BY <1>1, <1>9, <1>10, <1>11, <1>12, TypeStep DEF ExecCallback
<1>14. CalledBack(h)
  BY <1>1, <1>2, <1>3, <1>4, <1>7, <1>10 DEF CalledBack, ExecCallback
<1> QED
  BY <1>2, <1>13, <1>14

(* The Module h is defined and forgotten                                   *)
DefinedNow(h) ==
  /\ h = Top.h /\ h \in Handles /\ Head(stack).op = "define"
  /\ OnlyMod(h) /\ SameRest(h) /\ SameCount(h) /\ SameCall(h)
  /\ mods'[h].is = (mods[h].is \ {"defining"}) \cup {"defined"}
  /\ defined' = definedWith(h) /\ registry' = Unregister(h)
  /\ waitCount' = waitCount - 1 /\ waitAry' = (IF waitCount' = 0 THEN << >> ELSE waitAry)
  /\ \/ Shifted(0)
     \/ Shifted(1) /\ 1 \in DOMAIN stack' /\ stack'[1] = [op |-> "notify", h |-> h]

LEMMA TRunDefine ==
  ASSUME TypeInv, RunDefine
  PROVE  TypeInv' /\ \E h \in Handles : DefinedNow(h)
<1> DEFINE n == Len(mods)
<1>1. /\ stack # << >> /\ Head(stack).op = "define" /\ Top.op = "define" /\ Top.h \in Handles
  BY TopGood DEF TypeInv, RunDefine, Calling, Top, Good, Handles
<1>2. PICK h : h = Top.h /\ h \in Handles
  BY <1>1
<1>3. PICK F : F = (mods[h].is \ {"defining"}) \cup {"defined"}
  OBVIOUS
<1> DEFINE f == [op |-> "notify", h |-> h]
<1>4. /\ NewFlags(h, F) /\ defined' = definedWith(h) /\ registry' = Unregister(h)
      /\ waitCount' = waitCount - 1 /\ waitAry' = (IF waitCount' = 0 THEN << >> ELSE waitAry)
      /\ Calls(<< >>) \/ Calls(<< f >>)
  BY <1>2, <1>3 DEF RunDefine, NewFlags, notify
<1>5. F \in SUBSET Flags
  BY <1>3, <1>2, HandleFacts, ModFields DEF TypeInv, Flags
<1>6. /\ ModsOk' /\ Len(mods') = Len(mods) /\ Kept /\ OnlyMod(h) /\ SameRest(h) /\ SameCount(h)
      /\ SameCall(h) /\ mods'[h].is = F
  BY <1>2, <1>4, <1>5, FlagsOf DEF TypeInv
<1>7. Good(f, n) /\ f.op # "init"
  BY <1>2 DEF Good, Handles
<1> HIDE DEF f
<1>8. Shifted(0) \/ (Shifted(1) /\ 1 \in DOMAIN stack' /\ stack'[1] = f)
  BY <1>1, <1>4, Push0, Push1 DEF TypeInv, StackOk
<1>9. \E k \in Nat : Shifted(k) /\ \A j \in 1..k : j \in DOMAIN stack' => Good(stack'[j], Len(mods')) /\ stack'[j].op # "init"
  BY <1>6, <1>7, <1>8
<1>10. Handles' = Handles /\ Len(mods) <= Len(mods')
  BY <1>6, HandleFacts DEF Handles, TypeInv
<1>11. RegInv'
  BY <1>4, <1>6, RegUnregistered DEF TypeInv
<1>12. WaitOk'
  BY <1>4, <1>10 DEF TypeInv, WaitOk
<1>13. defined' \subseteq Ids
  <2>1. isDefine(h) => mods[h].id \in Ids
    BY <1>2, HandleFacts, ModFields DEF TypeInv, isDefine
  <2> QED
    BY <1>4, <2>1 DEF definedWith, TypeInv, NamesOk
<1>14. NamesOk' /\ PageOk' /\ SeenOk'
  BY <1>6, <1>10, <1>13 DEF RunDefine, TypeInv, NamesOk, PageOk, SeenOk, page, sweep, cycle, seen
<1>15. TypeInv'
  BY <1>1, <1>6, <1>9, <1>10, <1>11, <1>12, <1>14, TypeStep DEF RunDefine, page
<1>16. DefinedNow(h)
  BY <1>1, <1>2, <1>3, <1>4, <1>6, <1>8 DEF DefinedNow, f
<1> QED
  BY <1>2, <1>15, <1>16

(* The listeners of h are told next                                        *)
Emitting(h) ==
  /\ h = Top.h /\ h \in Handles /\ Is(h, "defined") /\ ~Is(h, "emitted")
  /\ OnlyMod(h) /\ SameRest(h) /\ SameCount(h) /\ SameCall(h)
  /\ mods'[h].is = mods[h].is \cup {"emitted"}
  /\ Shifted(1) /\ 1 \in DOMAIN stack' /\ stack'[1] = [op |-> "emit", h |-> h, k |-> 1]

LEMMA TNotify ==
  ASSUME TypeInv, Notify
  PROVE  TypeInv' /\ (Quiet \/ \E h \in Handles : Emitting(h))
<1> DEFINE n == Len(mods)
<1>1. /\ stack # << >> /\ Head(stack).op = "notify" /\ Top.op = "notify" /\ Top.h \in Handles
  BY TopGood DEF TypeInv, Notify, Calling, Top, Good, Handles
<1>2. PICK h : h = Top.h /\ h \in Handles
  BY <1>1
<1> DEFINE f == [op |-> "emit", h |-> h, k |-> 1]
<1>3. CASE ~(Is(h, "defined") /\ ~Is(h, "emitted"))
  <2>1. Return /\ UNCHANGED mods
    BY <1>2, <1>3 DEF Notify
  <2>2. Calm(0)
    BY <1>1, <2>1, Calm0
  <2> QED
    BY <2>1, <2>2, CalmSame DEF Notify, sweep, cycle, TypeInv, PageOk
<1>4. CASE Is(h, "defined") /\ ~Is(h, "emitted")
  <2>a. PICK F : F = mods[h].is \cup {"emitted"}
    OBVIOUS
  <2>1. NewFlags(h, F) /\ Calls(<< f >>)
    BY <1>2, <1>4, <2>a DEF Notify, NewFlags
  <2>2. F \in SUBSET Flags
    BY <1>2, <2>a, HandleFacts, ModFields DEF TypeInv, Flags
  <2>3. /\ ModsOk' /\ Len(mods') = Len(mods) /\ Kept /\ OnlyMod(h) /\ SameRest(h) /\ SameCount(h)
        /\ SameCall(h) /\ mods'[h].is = F
    BY <1>2, <2>1, <2>2, FlagsOf DEF TypeInv
  <2>4. Good(f, n) /\ f.op # "init"
    BY <1>2 DEF Good, Handles
  <2> HIDE DEF f
  <2>5. Shifted(1) /\ 1 \in DOMAIN stack' /\ stack'[1] = f
    BY <1>1, <2>1, Push1 DEF TypeInv, StackOk
  <2>6. \A j \in 1..1 : j \in DOMAIN stack' => Good(stack'[j], n) /\ stack'[j].op # "init"
    BY <2>4, <2>5
  <2>7. TypeInv'
    BY <1>1, <2>3, <2>5, <2>6, TypeCalm DEF Notify, TypeInv, SeenOk, seen
  <2>8. Emitting(h)
    BY <1>2, <1>4, <2>a, <2>3, <2>5 DEF Emitting, f
  <2> QED
    BY <1>2, <2>7, <2>8
<1> QED
  BY <1>3, <1>4

(* All the listeners of h have been told                                   *)
ToldAll(h) ==
  /\ h = Top.h /\ h \in Handles /\ Head(stack).op = "emit"
  /\ OnlyMod(h) /\ SameRest(h) /\ SameCount(h) /\ SameCall(h)
  /\ mods'[h].is = mods[h].is \cup {"complete"} /\ Shifted(0)

(* The Module l is told that its dependency i is there                     *)
Told(h, k, l, i) ==
  /\ h = Top.h /\ h \in Handles /\ k = Top.k /\ Head(stack).op = "emit"
  /\ k \in DOMAIN mods[h].onDefined /\ mods[h].onDefined[k] = << l, i >> /\ l \in Handles /\ i \in Nat
  /\ OnlyMod(l) /\ SameRest(l) /\ SameCall(l) /\ mods'[l].is = mods[l].is
  /\ mods'[l].depMatched = mods[l].depMatched \cup {i}
  /\ mods'[l].depCount = (IF i \in mods[l].depMatched THEN mods[l].depCount ELSE mods[l].depCount - 1)
  /\ Shifted(2) /\ {1, 2} \subseteq DOMAIN stack' /\ stack'[1] = check(l, FALSE)
  /\ stack'[2] = [op |-> "emit", h |-> h, k |-> k + 1]

LEMMA TEmitDefined ==
  ASSUME TypeInv, EmitDefined
  PROVE  TypeInv' /\ \E h \in Handles : ToldAll(h) \/ \E k, i \in Nat, l \in Handles : Told(h, k, l, i)
<1> DEFINE n == Len(mods)
<1>1. /\ stack # << >> /\ Head(stack).op = "emit" /\ Top.op = "emit"
      /\ Top \in [op : {"emit"}, h : 1..n, k : Nat \ {0}]
  BY TopGood DEF TypeInv, EmitDefined, Calling, Top, Good
<1>2. PICK h : h = Top.h /\ h \in Handles
  BY <1>1 DEF Handles
<1>3. PICK k : k = Top.k /\ k \in Nat \ {0}
  BY <1>1
<1>4. mods[h] \in Mod(n) /\ mods[h].onDefined \in Seq(Hears(n))
  BY <1>2, HandleFacts, ModFields DEF TypeInv
<1>5. CASE k > Len(mods[h].onDefined)
  <2>a. PICK F : F = mods[h].is \cup {"complete"}
    OBVIOUS
  <2>1. NewFlags(h, F) /\ Return
    BY <1>2, <1>3, <1>5, <2>a DEF EmitDefined, NewFlags
  <2>2. F \in SUBSET Flags
    BY <1>4, <2>a, ModFields DEF Flags
  <2>3. /\ ModsOk' /\ Len(mods') = Len(mods) /\ Kept /\ OnlyMod(h) /\ SameRest(h) /\ SameCount(h)
        /\ SameCall(h) /\ mods'[h].is = F
    BY <1>2, <2>1, <2>2, FlagsOf DEF TypeInv
  <2>5. Shifted(0)
    BY <1>1, <2>1, Push0 DEF TypeInv, StackOk
  <2>6. \A j \in 1..0 : j \in DOMAIN stack' => Good(stack'[j], n) /\ stack'[j].op # "init"
    OBVIOUS
  <2>7. TypeInv'
    BY <1>1, <2>3, <2>5, <2>6, TypeCalm DEF EmitDefined, TypeInv, SeenOk, seen
  <2>8. ToldAll(h)
    BY <1>1, <1>2, <2>a, <2>3, <2>5 DEF ToldAll
  <2> QED
    BY <1>2, <2>7, <2>8
<1>6. CASE ~(k > Len(mods[h].onDefined))
  <2>1. k \in DOMAIN mods[h].onDefined /\ mods[h].onDefined[k] \in Hears(n)
    BY <1>3, <1>4, <1>6
  <2>2. PICK l \in 1..n, i \in Nat : mods[h].onDefined[k] = << l, i >>
    BY <2>1 DEF Hears
  <2> DEFINE m == defineDep(mods[l], i)
             f == check(l, FALSE)
             g == [op |-> "emit", h |-> h, k |-> k + 1]
  <2>3. mods' = [mods EXCEPT ![l] = m] /\ Calls(<< f, g >>)
    <3>1. [Top EXCEPT !.k = @ + 1] = g
      BY <1>1, <1>2, <1>3
    <3>2. LET p == mods[h].onDefined[k]
          IN  /\ mods' = [mods EXCEPT ![p[1]] = defineDep(@, p[2])]
              /\ Calls(<< check(p[1], FALSE), [Top EXCEPT !.k = @ + 1] >>)
      BY <1>2, <1>3, <1>6 DEF EmitDefined
    <3>3. PICK p : p = mods[h].onDefined[k] /\ p = << l, i >>
      BY <2>2
    <3>4. p[1] = l /\ p[2] = i
      BY <3>3
    <3>5. /\ mods' = [mods EXCEPT ![l] = defineDep(@, i)] /\ Calls(<< check(l, FALSE), [Top EXCEPT !.k = @ + 1] >>)
      BY <3>2, <3>3, <3>4
    <3> QED
      BY <3>1, <3>5
  <2>4. l \in Handles /\ mods[l] \in Mod(n)
    BY HandleFacts DEF TypeInv, Handles
  <2>5. DepDefined(n, mods[l], i, m)
    BY <2>4, DefineDepOk
  <2>6. Good(f, n) /\ f.op # "init" /\ Good(g, n) /\ g.op # "init"
    BY <1>2, <1>3 DEF Good, check, Handles
  <2> HIDE DEF m, f, g
  <2>7. /\ ModsOk' /\ Len(mods') = Len(mods) /\ Kept /\ mods'[l] = m
        /\ \A x \in Handles : x # l => mods'[x] = mods[x]
    BY <2>3, <2>4, <2>5, ModChanged DEF TypeInv, DepDefined
  <2>8. Shifted(2) /\ {1, 2} \subseteq DOMAIN stack' /\ stack'[1] = f /\ stack'[2] = g
    BY <1>1, <2>3, Push2 DEF TypeInv, StackOk
  <2>9. \A j \in 1..2 : j \in DOMAIN stack' => Good(stack'[j], n) /\ stack'[j].op # "init"
    <3>1. \A j \in 1..2 : j = 1 \/ j = 2
      OBVIOUS
    <3> QED
      BY <2>6, <2>8, <3>1
  <2>10. TypeInv'
    BY <1>1, <2>7, <2>8, <2>9, TypeCalm DEF EmitDefined, TypeInv, SeenOk, seen
  <2>11. OnlyMod(l) /\ SameRest(l) /\ SameCall(l) /\ mods'[l].is = mods[l].is
         /\ mods'[l].depMatched = mods[l].depMatched \cup {i}
         /\ mods'[l].depCount = (IF i \in mods[l].depMatched THEN mods[l].depCount ELSE mods[l].depCount - 1)
    BY <2>5, <2>7 DEF DepDefined, OnlyMod, SameRest, SameCall
  <2>12. Told(h, k, l, i)
    BY <1>1, <1>2, <1>3, <2>1, <2>2, <2>4, <2>8, <2>11 DEF Told, f, g
  <2> QED
    BY <1>2, <1>3, <2>4, <2>10, <2>12
<1> QED
  BY <1>5, <1>6

(* What is left of the queue when a call takes it in                       *)
LEMMA TakenFacts ==
  ASSUME TypeInv, stack # << >>
  PROVE  \/ useInteractive /\ TakenQueue \in Seq(NamedEntries)
         \/ /\ ~useInteractive
            /\ \/ TakenQueue = << >>
               \/ \E i \in Sourced : /\ TakenQueue = << EntryOf(i) >>
                                     /\ stack = << [op |-> "complete", id |-> i, found |-> FALSE] >>
<1>1. CASE useInteractive
  <2>1. globalDefQueue = << >> /\ defQueue \in Seq(NamedEntries)
    BY <1>1 DEF TypeInv, QueueInv
  <2>2. PICK n : n = Len(defQueue)
    OBVIOUS
  <2>3. CASE n = 0
    BY <1>1, <2>1, <2>2, <2>3 DEF TakenQueue
  <2>4. CASE n # 0
    <3>1. n \in Nat /\ defQueue[n] \in NamedEntries /\ SubSeq(defQueue, 1, n - 1) \in Seq(NamedEntries)
      BY <2>1, <2>2, <2>4
    <3>2. << defQueue[n] >> \in Seq(NamedEntries) /\ << >> \in Seq(NamedEntries)
      BY <3>1
    <3>3. TakenQueue = SubSeq(defQueue, 1, n - 1) \o globalDefQueue \o << defQueue[n] >>
      BY <2>2, <2>4 DEF TakenQueue
    <3>4. SubSeq(defQueue, 1, n - 1) \o globalDefQueue \in Seq(NamedEntries)
      BY <2>1, <3>1, <3>2, ConcatProperties
    <3> QED
      BY <1>1, <3>2, <3>3, <3>4, ConcatProperties
  <2> QED
    BY <2>3, <2>4
<1>2. CASE ~useInteractive
  <2>1. defQueue = << >> /\ \A s \in scripts : ~s.executed
    BY <1>2 DEF TypeInv, QueueInv
  <2>2. TakenQueue = globalDefQueue
    BY <2>1 DEF TakenQueue
  <2> QED
    BY <1>2, <2>1, <2>2 DEF TypeInv, QueueInv
<1> QED
  BY <1>1, <1>2

(* The head of the queue is the call of define of the script that has just loaded, or,
   in IE 6-8, of a script of that name. *)
LEMMA QueueTaken ==
  ASSUME TypeInv, stack # << >>, TakenQueue # << >>, defQueue' = Tail(TakenQueue), globalDefQueue' = << >>,
         UNCHANGED << useInteractive, scripts >>
  PROVE  /\ QueueInv'
         /\ \E i \in Sourced : /\ Head(TakenQueue).deps = DepNames[i]
                               /\ IF Head(TakenQueue).name = NONE
                                    THEN stack = << [op |-> "complete", id |-> i, found |-> FALSE] >>
                                    ELSE Head(TakenQueue).name = i
                               /\ useInteractive => Head(TakenQueue) \in NamedEntries
                               /\ ~useInteractive => stack = << [op |-> "complete", id |-> i, found |-> FALSE] >>
<1>1. CASE useInteractive /\ TakenQueue \in Seq(NamedEntries)
  <2>1. Head(TakenQueue) \in NamedEntries /\ Tail(TakenQueue) \in Seq(NamedEntries)
    BY <1>1, HeadTailFacts
  <2>2. PICK i \in Sourced : Head(TakenQueue) = [name |-> i, deps |-> DepNames[i]]
    BY <2>1 DEF NamedEntries
  <2>3. Head(TakenQueue).deps = DepNames[i] /\ Head(TakenQueue).name = i /\ i # NONE
    BY <2>2, RequireAssumption, NamesAssumption DEF Sourced
  <2> QED
    BY <1>1, <2>1, <2>3 DEF QueueInv
<1>2. CASE ~useInteractive
  <2>1. PICK i \in Sourced : /\ TakenQueue = << EntryOf(i) >>
                             /\ stack = << [op |-> "complete", id |-> i, found |-> FALSE] >>
    BY <1>2, TakenFacts
  <2>2. Head(TakenQueue) = EntryOf(i) /\ Tail(TakenQueue) = << >>
    BY <2>1
  <2>3. /\ Head(TakenQueue).deps = DepNames[i]
        /\ Head(TakenQueue).name = IF Kind[i] = "named" THEN i ELSE NONE
    BY <2>2 DEF EntryOf
  <2>4. \A s \in scripts : ~s.executed
    BY <1>2 DEF TypeInv, QueueInv
  <2>5. QueueInv'
    BY <1>2, <2>2, <2>4 DEF QueueInv
  <2> QED
    BY <1>2, <2>1, <2>3, <2>5
<1> QED
  BY <1>1, <1>2, TakenFacts

(* A Module of id, new or not, is to be initialized at once, then g        *)
Pulling(id, h, deps, g) ==
  /\ Found(id, h) /\ id \in Ids /\ Kept
  /\ Shifted(2) /\ {1, 2} \subseteq DOMAIN stack'
  /\ stack'[1] = init(h, deps, NONE, NONE, FALSE) /\ stack'[2] = g

(* callGetModule initializes the module it names, at once. *)
LEMMA Pulled ==
  ASSUME TypeInv, stack # << >>, NEW id \in Ids, NEW deps \in Seq(Names), IdsIn(deps, id) \subseteq Ids,
         NEW g, Good(g, Len(mods)), g.op # "init", callGetModule(id, deps, << g >>), QueueInv', SeenOk',
         UNCHANGED << names, wait, sweep, page, cycle >>
  PROVE  TypeInv' /\ \E h \in Handles' : Pulling(id, h, deps, g)
<1>1. PICK got : got = getModule(id)
  OBVIOUS
<1>2. /\ Got(id, got) /\ mods' = got.mods /\ registry' = got.registry
      /\ Calls(<< init(got.h, deps, NONE, NONE, FALSE) >> \o << g >>)
  BY <1>1, GetModule DEF callGetModule
<1>3. PICK h : h = got.h
  OBVIOUS
<1>4. /\ Found(id, h) /\ ModsOk' /\ RegInv' /\ Kept /\ Len(mods) <= Len(mods')
      /\ Handles \subseteq Handles' /\ h \in 1..Len(mods')
  BY <1>2, <1>3, FoundModule
<1> DEFINE f == init(h, deps, NONE, NONE, FALSE)
<1>5. Good(f, Len(mods')) /\ f.op = "init" /\ f.h = h /\ f.deps = deps
  BY <1>4 DEF Good, init
<1>6. Calls(<< f, g >>)
  <2> HIDE DEF f
  <2>1. Calls(<< f >> \o << g >>)
    BY <1>2, <1>3 DEF f
  <2> QED
    BY <2>1, Joined1
<1> HIDE DEF f
<1>7. Shifted(2) /\ {1, 2} \subseteq DOMAIN stack' /\ stack'[1] = f /\ stack'[2] = g
  BY <1>6, Push2 DEF TypeInv, StackOk
<1>8. Good(g, Len(mods'))
  BY <1>4, MoreGood, HandleFacts DEF TypeInv
<1>9. StackOk'
  <2>1. \A j \in 1..2 : j = 1 \/ j = 2
    OBVIOUS
  <2>2. \A j \in 1..2 : j \in DOMAIN stack' => Good(stack'[j], Len(mods'))
    BY <1>5, <1>7, <1>8, <2>1
  <2> QED
    BY <1>4, <1>7, <2>2, StackGoes DEF TypeInv
<1>10. InitFrames'
  <2>1. ASSUME NEW j \in DOMAIN stack', stack'[j].op = "init" PROVE j = 1
    <3>1. j \in Nat \ {0}
      BY <1>7, ShiftedAt
    <3>2. CASE j > 2
      <4>1. j - 2 + 1 \in DOMAIN stack /\ stack'[j] = stack[j - 2 + 1] /\ j - 2 + 1 # 1
        BY <1>7, <3>1, <3>2 DEF Shifted
      <4> QED
        BY <2>1, <4>1 DEF TypeInv, InitFrames
    <3>3. CASE j = 2
      BY <1>7, <2>1, <3>3
    <3> QED
      BY <3>1, <3>2, <3>3
  <2>2. Registered(h)' /\ mods'[h].id = id /\ h \in Handles'
    BY <1>4 DEF Found
  <2>3. mods'[h].base = id
    <3>1. id # << >>
      BY RequireAssumption
    <3> QED
      BY <1>4, <2>2, <3>1 DEF RegInv, isDefine
  <2>4. stack'[1].h = h /\ stack'[1].deps = deps
    BY <1>5, <1>7
  <2>5. ASSUME NEW j \in DOMAIN stack', stack'[j].op = "init"
        PROVE  j = 1 /\ (\E k \in DOMAIN registry' : registry'[k] = stack'[1].h)
               /\ IdsIn(stack'[1].deps, mods'[stack'[1].h].base) \subseteq Ids
    BY <2>1, <2>2, <2>3, <2>4, <2>5 DEF Registered
  <2> QED
    BY <2>5 DEF InitFrames, Registered
<1>11. NamesOk'
  <2>1. Heard(Len(mods)) \subseteq Heard(Len(mods'))
    BY <1>4, MoreMods, HandleFacts DEF TypeInv, ModsOk
  <2> QED
    BY <2>1 DEF TypeInv, NamesOk, names
<1>12. WaitOk' /\ PageOk'
  <2>1. waitAry \in Seq(Handles') /\ traced \in Seq(Handles')
    BY <1>4 DEF TypeInv, WaitOk, PageOk
  <2> QED
    BY <2>1 DEF TypeInv, WaitOk, PageOk, wait, sweep, page, cycle
<1>13. TypeInv'
  BY <1>4, <1>9, <1>10, <1>11, <1>12 DEF TypeInv
<1>14. Pulling(id, h, deps, g)
  BY <1>4, <1>7 DEF Pulling, f
<1> QED
  BY <1>4, <1>13, <1>14 DEF Found

(* The entry of i goes from the queue                                      *)
EntryTaken(i) ==
  /\ globalDefQueue' = << >>
  /\ \/ /\ useInteractive /\ defQueue # << >> /\ defQueue[1].name = i /\ defQueue' = Tail(defQueue)
     \/ /\ ~useInteractive /\ globalDefQueue # << >> /\ defQueue = << >> /\ defQueue' = << >>
        /\ stack = << [op |-> "complete", id |-> i, found |-> FALSE] >>

LEMMA TakenHead ==
  ASSUME TypeInv, stack # << >>, TakenQueue # << >>, defQueue' = Tail(TakenQueue), globalDefQueue' = << >>,
         NEW i, Head(TakenQueue).name = i \/ stack = << [op |-> "complete", id |-> i, found |-> FALSE] >>,
         ~useInteractive => stack = << [op |-> "complete", id |-> i, found |-> FALSE] >>,
         useInteractive => Head(TakenQueue).name = i
  PROVE  EntryTaken(i)
<1>1. CASE useInteractive
  <2>1. globalDefQueue = << >> /\ defQueue \in Seq(NamedEntries)
    BY <1>1 DEF TypeInv, QueueInv
  <2>2. PICK n : n = Len(defQueue)
    OBVIOUS
  <2>3. n # 0
    BY <1>1, <2>1, <2>2 DEF TakenQueue
  <2>4. TakenQueue = defQueue
    <3> DEFINE s == SubSeq(defQueue, 1, n - 1)
               g == defQueue[n]
    <3>1. n \in Nat \ {0} /\ g \in NamedEntries
      BY <2>1, <2>2, <2>3
    <3>2. s \in Seq(NamedEntries) /\ Len(s) = n - 1 /\ \A j \in 1..(n - 1) : s[j] = defQueue[j]
      BY <2>1, <2>2, <3>1
    <3>3. TakenQueue = s \o globalDefQueue \o << g >>
      BY <2>2, <2>3 DEF TakenQueue
    <3> HIDE DEF s, g
    <3>4. s \o << >> = s
      BY <3>2, ConcatEmptySeq
    <3>5. TakenQueue = s \o << g >>
      BY <2>1, <3>3, <3>4
    <3>6. s \o << g >> = defQueue
      <4>1. Len(defQueue) = Len(s) + 1 /\ \A j \in 1..Len(s) : s[j] = defQueue[j]
        BY <2>2, <3>1, <3>2
      <4>2. defQueue[Len(defQueue)] = g
        BY <2>2 DEF g
      <4> QED
        BY <2>1, <3>1, <3>2, <4>1, <4>2, JoinedOne
    <3> QED
      BY <3>5, <3>6
  <2>5. Head(defQueue) = defQueue[1]
    BY <2>1, <2>2, <2>3
  <2>6. defQueue # << >> /\ defQueue[1].name = i /\ defQueue' = Tail(defQueue)
    BY <1>1, <2>4, <2>5
  <2> QED
    BY <1>1, <2>6 DEF EntryTaken
<1>2. CASE ~useInteractive
  <2>1. defQueue = << >>
    BY <1>2 DEF TypeInv, QueueInv
  <2>2. TakenQueue = globalDefQueue
    BY <2>1 DEF TakenQueue
  <2>3. PICK j \in Sourced : TakenQueue = << EntryOf(j) >>
    BY <1>2, TakenFacts
  <2>4. Tail(TakenQueue) = << >>
    BY <2>3
  <2> QED
    BY <1>2, <2>1, <2>2, <2>4 DEF EntryTaken
<1> QED
  BY <1>1, <1>2

LEMMA TRequireQueue ==
  ASSUME TypeInv, RequireQueue
  PROVE  TypeInv' /\ useInteractive
         /\ \E i \in Sourced, h \in Handles' : Pulling(i, h, DepNames[i], Top) /\ EntryTaken(i)
<1>1. /\ stack # << >> /\ Head(stack).op = "require" /\ Top.op = "require" /\ Good(Top, Len(mods))
      /\ TakenQueue # << >> /\ defQueue' = Tail(TakenQueue) /\ globalDefQueue' = << >>
  BY TopGood DEF TypeInv, RequireQueue, Calling, Top
<1>2. UNCHANGED << useInteractive, scripts >> /\ UNCHANGED << names, wait, sweep, page, cycle >>
  BY DEF RequireQueue, page
<1>3. \A i : stack # << [op |-> "complete", id |-> i, found |-> FALSE] >>
  BY <1>1
<1>4. PICK i \in Sourced : /\ QueueInv' /\ useInteractive
                           /\ Head(TakenQueue).deps = DepNames[i] /\ Head(TakenQueue).name = i
  BY <1>1, <1>2, <1>3, QueueTaken
<1>5. /\ i \in Ids /\ i # NONE /\ DepNames[i] \in Seq(Names) /\ IdsIn(DepNames[i], i) \subseteq Ids
  BY RequireAssumption, NamesAssumption DEF Sourced
<1>6. callGetModule(i, DepNames[i], << Top >>)
  BY <1>4, <1>5 DEF RequireQueue
<1>7. SeenOk'
  BY DEF RequireQueue, TypeInv, SeenOk, seen
<1>8. EntryTaken(i)
  BY <1>1, <1>4, TakenHead
<1> QED
  BY <1>1, <1>2, <1>8, <1>4, <1>5, <1>6, <1>7, Pulled

(* The call of complete when i is the module of the entry taken            *)
NextComplete(i) == [op |-> "complete", id |-> Top.id, found |-> Top.found \/ i = Top.id]

LEMMA TCompleteQueue ==
  ASSUME TypeInv, CompleteQueue
  PROVE  /\ TypeInv' /\ Top.op = "complete" /\ Top.id \in Ids
         /\ \E i \in Sourced, h \in Handles' :
              /\ Pulling(i, h, DepNames[i], NextComplete(i)) /\ (~useInteractive => i = Top.id)
              /\ EntryTaken(i)
<1>1. /\ stack # << >> /\ Head(stack).op = "complete" /\ Top = Head(stack)
      /\ Top \in [op : {"complete"}, id : Ids, found : BOOLEAN]
      /\ TakenQueue # << >> /\ defQueue' = Tail(TakenQueue) /\ globalDefQueue' = << >>
  BY TopGood DEF TypeInv, CompleteQueue, Calling, Top, Good
<1>2. UNCHANGED << useInteractive, scripts >> /\ UNCHANGED << names, wait, sweep, page, cycle >>
  BY DEF CompleteQueue, page
<1>3. PICK i \in Sourced : /\ QueueInv'
                           /\ Head(TakenQueue).deps = DepNames[i]
                           /\ IF Head(TakenQueue).name = NONE
                                    THEN stack = << [op |-> "complete", id |-> i, found |-> FALSE] >>
                                    ELSE Head(TakenQueue).name = i
                           /\ ~useInteractive => stack = << [op |-> "complete", id |-> i, found |-> FALSE] >>
                           /\ useInteractive => Head(TakenQueue) \in NamedEntries
  BY <1>1, <1>2, QueueTaken
<1>4. stack = << [op |-> "complete", id |-> i, found |-> FALSE] >> => Top.id = i /\ ~Top.found
  BY <1>1
<1>5. /\ i \in Ids /\ i # NONE /\ DepNames[i] \in Seq(Names) /\ IdsIn(DepNames[i], i) \subseteq Ids
  BY RequireAssumption, NamesAssumption DEF Sourced
<1>6. PICK name : name = IF Head(TakenQueue).name = NONE THEN Top.id ELSE Head(TakenQueue).name
  OBVIOUS
<1>7. name = i /\ ~(Head(TakenQueue).name = NONE /\ Top.found)
  BY <1>3, <1>4, <1>6
<1>8. callGetModule(i, DepNames[i], << [Top EXCEPT !.found = @ \/ i = Top.id] >>)
  BY <1>3, <1>6, <1>7 DEF CompleteQueue
<1>9. [Top EXCEPT !.found = @ \/ i = Top.id] = NextComplete(i)
  BY <1>1 DEF NextComplete
<1>10. Good(NextComplete(i), Len(mods)) /\ NextComplete(i).op # "init"
  <2>1. (Top.found \/ i = Top.id) \in BOOLEAN /\ Top.id \in Ids
    BY <1>1
  <2> QED
    BY <2>1 DEF Good, NextComplete
<1>11. SeenOk'
  BY DEF CompleteQueue, TypeInv, SeenOk, seen
<1>12. TypeInv' /\ \E h \in Handles' : Pulling(i, h, DepNames[i], NextComplete(i))
  BY <1>1, <1>2, <1>3, <1>5, <1>8, <1>9, <1>10, <1>11, Pulled
<1>13. useInteractive => Head(TakenQueue).name = i
  <2>1. \A e \in NamedEntries : e.name # NONE
    BY RequireAssumption, NamesAssumption DEF NamedEntries, Sourced
  <2> QED
    BY <1>3, <2>1
<1>14. EntryTaken(i)
  BY <1>1, <1>3, <1>13, TakenHead
<1> QED
  BY <1>1, <1>3, <1>4, <1>12, <1>14

QueueDone ==
  /\ Top.op = "complete" /\ Top.id \in Ids /\ UNCHANGED mods /\ Shifted(1) /\ 1 \in DOMAIN stack'
  /\ stack'[1] = [op |-> "completed", id |-> Top.id, found |-> Top.found]
  /\ ~useInteractive => globalDefQueue = << >>

LEMMA TCompleteQueueEnd ==
  ASSUME TypeInv, CompleteQueueEnd
  PROVE  TypeInv' /\ QueueDone
<1>1. /\ stack # << >> /\ Head(stack).op = "complete" /\ Top = Head(stack)
      /\ Top \in [op : {"complete"}, id : Ids, found : BOOLEAN]
  BY TopGood DEF TypeInv, CompleteQueueEnd, Calling, Top, Good
<1> DEFINE f == [op |-> "completed", id |-> Top.id, found |-> Top.found]
<1>2. Good(f, Len(mods)) /\ f.op # "init"
  BY <1>1 DEF Good
<1>3. Calls(<< f >>) /\ UNCHANGED << mods, registry, names, queues, wait, sweep, page, cycle, seen >>
  BY DEF CompleteQueueEnd
<1> HIDE DEF f
<1>4. Shifted(1) /\ 1 \in DOMAIN stack' /\ stack'[1] = f
  BY <1>1, <1>3, Push1 DEF TypeInv, StackOk
<1>5. ModsOk' /\ Kept /\ Len(mods') = Len(mods) /\ Handles' = Handles /\ Len(mods) <= Len(mods')
  BY <1>3, SameSelf, HandleFacts DEF TypeInv, Handles
<1>6. \A j \in 1..1 : j \in DOMAIN stack' => Good(stack'[j], Len(mods')) /\ stack'[j].op # "init"
  BY <1>2, <1>4, <1>5
<1>7. StackOk' /\ InitFrames'
  BY <1>4, <1>5, <1>6, StackGoes, InitKept DEF TypeInv
<1>8. ~useInteractive => globalDefQueue = << >> /\ defQueue = << >> /\ \A s \in scripts : ~s.executed
  <2> SUFFICES ASSUME ~useInteractive
               PROVE  globalDefQueue = << >> /\ defQueue = << >> /\ \A s \in scripts : ~s.executed
    OBVIOUS
  <2>1. defQueue = << >> /\ \A s \in scripts : ~s.executed
    BY <1>1 DEF TypeInv, QueueInv
  <2>2. TakenQueue = globalDefQueue
    BY <2>1 DEF TakenQueue
  <2> QED
    BY <2>1, <2>2 DEF CompleteQueueEnd
<1>9. QueueInv'
  BY <1>3, <1>8 DEF TypeInv, QueueInv, queues, page
<1>10. RegInv' /\ NamesOk' /\ WaitOk' /\ PageOk' /\ SeenOk'
  BY <1>3, <1>5, RegKept DEF TypeInv, NamesOk, WaitOk, PageOk, SeenOk, names, wait, sweep, page, cycle, seen
<1>11. TypeInv'
  BY <1>5, <1>7, <1>9, <1>10 DEF TypeInv
<1>12. QueueDone
  BY <1>1, <1>3, <1>4, <1>8 DEF QueueDone, f
<1> QED
  BY <1>11, <1>12

(* The script of id did not call define                                    *)
ShimDeps(id) == IF id \in DOMAIN Shim THEN Shim[id] ELSE << >>
Given(id) ==
  /\ Top.op = "completed" /\ id = Top.id /\ id \in Ids /\ ~Top.found /\ id \notin defined
  /\ Lookup(id) # 0 /\ ~Is(Lookup(id), "inited")
  /\ \E h \in Handles' : Pulling(id, h, ShimDeps(id), checkLoaded)

LEMMA TCompleted ==
  ASSUME TypeInv, Completed
  PROVE  TypeInv' /\ (Quiet \/ \E id \in Ids : Given(id))
<1>1. /\ stack # << >> /\ Head(stack).op = "completed" /\ Top = Head(stack)
      /\ Top \in [op : {"completed"}, id : Ids, found : BOOLEAN]
  BY TopGood DEF TypeInv, Completed, Calling, Top, Good
<1>2. PICK id \in Ids : id = Top.id
  BY <1>1
<1>3. PICK h : h = Lookup(id)
  OBVIOUS
<1>4. Good(checkLoaded, Len(mods)) /\ Mild(checkLoaded) /\ checkLoaded.op # "init"
  BY DEF Good, checkLoaded, Keys, Mild
<1>5. CASE ~Top.found /\ id \notin defined /\ h # 0 /\ ~Is(h, "inited")
  <2>1. callGetModule(id, ShimDeps(id), << checkLoaded >>)
    BY <1>2, <1>3, <1>5 DEF Completed, ShimDeps
  <2>2. ShimDeps(id) \in Seq(Names) /\ IdsIn(ShimDeps(id), id) \subseteq Ids
    <3>1. CASE id \in DOMAIN Shim
      BY <3>1, RequireAssumption DEF ShimDeps
    <3>2. CASE id \notin DOMAIN Shim
      BY <3>2 DEF ShimDeps, IdsIn
    <3> QED
      BY <3>1, <3>2
  <2>3. UNCHANGED << queues, useInteractive, scripts >> /\ UNCHANGED << names, wait, sweep, page, cycle >>
    BY DEF Completed, page
  <2>4. QueueInv' /\ SeenOk'
    BY <1>1, <2>3, QueueKept DEF TypeInv, Completed, SeenOk, seen
  <2>5. TypeInv' /\ \E g \in Handles' : Pulling(id, g, ShimDeps(id), checkLoaded)
    BY <1>1, <1>4, <2>1, <2>2, <2>3, <2>4, Pulled
  <2> QED
    BY <1>1, <1>2, <1>3, <1>5, <2>5 DEF Given
<1>6. CASE ~(~Top.found /\ id \notin defined /\ h # 0 /\ ~Is(h, "inited"))
  <2>1. Calls(<< checkLoaded >>) /\ UNCHANGED << mods, registry >>
    BY <1>2, <1>3, <1>6 DEF Completed
  <2>2. Calm(1)
    BY <1>1, <1>4, <2>1, Calm1
  <2> QED
    BY <2>1, <2>2, CalmSame DEF Completed, sweep, cycle, TypeInv, PageOk
<1> QED
  BY <1>5, <1>6

(* A Module without an id for a call of require, to be initialized at once *)
NewRequire(h) ==
  /\ Top.op = "require" /\ h = Len(mods) + 1 /\ h \notin Handles /\ Handles' = Handles \cup {h}
  /\ registry' = Append(registry, h) /\ Registered(h)' /\ Kept
  /\ \A g \in Handles : mods'[g] = mods[g] /\ (Registered(g)' <=> Registered(g))
  /\ LET m == mods'[h]
     IN  /\ m.id = << >> /\ m.base = Top.base /\ m.is = {} /\ m.deps = << >> /\ m.depCount = 0
         /\ m.depMatched = {} /\ m.onDefined = << >> /\ m.callback = NONE
  /\ Shifted(2) /\ {1, 2} \subseteq DOMAIN stack'
  /\ stack'[1] = init(h, Top.deps, Top.callback, Top.errback, TRUE) /\ stack'[2] = checkLoaded

LEMMA TRunRequire ==
  ASSUME TypeInv, RunRequire
  PROVE  TypeInv' /\ \E h \in Handles' : NewRequire(h)
<1>1. /\ stack # << >> /\ Head(stack).op = "require" /\ Top.op = "require"
      /\ Top \in [op : {"require"}, deps : Seq(Names), base : Ids \cup {NONE},
                 callback : Backs(Len(mods)) \cup {NONE}, errback : Errs(Len(mods)) \cup {NONE}]
      /\ IdsIn(Top.deps, Top.base) \subseteq Ids
  BY TopGood DEF TypeInv, RunRequire, Calling, Top, Good
<1>2. PICK h : h = Len(mods) + 1
  OBVIOUS
<1>3. PICK m : m = Module(<< >>, Top.base, NoEvents)
  OBVIOUS
<1> DEFINE f == init(h, Top.deps, Top.callback, Top.errback, TRUE)
<1>4. mods' = Append(mods, m) /\ registry' = Append(registry, h) /\ Calls(<< f, checkLoaded >>)
  BY <1>2, <1>3 DEF RunRequire
<1>5. /\ m \in Mod(Len(mods)) /\ m.id = << >> /\ m.base = Top.base /\ m.is = {} /\ m.deps = << >>
      /\ m.depCount = 0 /\ m.depMatched = {} /\ m.onDefined = << >> /\ m.callback = NONE
  <2>1. NoEvents \in Heard(Len(mods)) /\ NoEvents.defined = << >>
    BY EventsTyped DEF TypeInv, NoEvents
  <2>2. PICK base : base = Top.base /\ base \in Ids \cup {NONE}
    BY <1>1
  <2>3. PICK id : id = << >> /\ id \in Ids \cup {<< >>}
    OBVIOUS
  <2>4. PICK events : events = NoEvents /\ events \in Heard(Len(mods))
    BY <2>1
  <2>5. m = Module(id, base, events)
    BY <1>3, <2>2, <2>3, <2>4
  <2>6. LET q == Module(id, base, events)
        IN  /\ q \in Mod(Len(mods)) /\ q.id = id /\ q.base = base /\ q.is = {} /\ q.deps = << >>
            /\ q.depCount = 0 /\ q.depMatched = {} /\ q.onDefined = events.defined /\ q.callback = NONE
    BY <2>2, <2>3, <2>4, ReadyMod DEF TypeInv
  <2> QED
    BY <2>1, <2>2, <2>3, <2>4, <2>5, <2>6
<1>6. /\ ModsOk' /\ Len(mods') = h /\ Kept /\ mods'[h] = m
      /\ h \in Handles' /\ Handles' = Handles \cup {h}
      /\ h \notin Handles /\ \A g \in Handles : mods'[g] = mods[g]
  BY <1>2, <1>4, <1>5, ModAdded DEF TypeInv
<1>7. /\ RegInv' /\ Registered(h)'
      /\ \A g \in Handles : Registered(g)' <=> Registered(g)
  BY <1>2, <1>4, <1>5, <1>6, RegAdded DEF TypeInv
<1>8. Len(mods) \in Nat /\ Len(mods) <= Len(mods') /\ Len(mods') \in Nat
  BY <1>2, <1>6, HandleFacts DEF TypeInv
<1>9. Good(f, Len(mods')) /\ f.op = "init" /\ f.h = h /\ f.deps = Top.deps
  <2>1. Backs(Len(mods)) \subseteq Backs(Len(mods')) /\ Errs(Len(mods)) \subseteq Errs(Len(mods'))
    BY <1>8, MoreMods
  <2>2. h \in 1..Len(mods')
    BY <1>2, <1>6, <1>8
  <2> QED
    BY <1>1, <2>1, <2>2 DEF Good, init
<1>10. Good(checkLoaded, Len(mods')) /\ checkLoaded.op # "init"
  BY DEF Good, checkLoaded
<1> HIDE DEF f
<1>11. Shifted(2) /\ {1, 2} \subseteq DOMAIN stack' /\ stack'[1] = f /\ stack'[2] = checkLoaded
  BY <1>1, <1>4, Push2 DEF TypeInv, StackOk
<1>12. StackOk'
  <2>1. \A j \in 1..2 : j = 1 \/ j = 2
    OBVIOUS
  <2>2. \A j \in 1..2 : j \in DOMAIN stack' => Good(stack'[j], Len(mods'))
    BY <1>9, <1>10, <1>11, <2>1
  <2> QED
    BY <1>6, <1>8, <1>11, <2>2, StackGoes DEF TypeInv
<1>13. InitFrames'
  <2>1. ASSUME NEW j \in DOMAIN stack', stack'[j].op = "init" PROVE j = 1
    <3>1. j \in Nat \ {0}
      BY <1>11, ShiftedAt
    <3>2. CASE j > 2
      <4>1. j - 2 + 1 \in DOMAIN stack /\ stack'[j] = stack[j - 2 + 1] /\ j - 2 + 1 # 1
        BY <1>11, <3>1, <3>2 DEF Shifted
      <4> QED
        BY <2>1, <4>1 DEF TypeInv, InitFrames
    <3>3. CASE j = 2
      BY <1>10, <1>11, <2>1, <3>3
    <3> QED
      BY <3>1, <3>2, <3>3
  <2>2. stack'[1].h = h /\ IdsIn(stack'[1].deps, mods'[h].base) \subseteq Ids
    BY <1>1, <1>5, <1>6, <1>9, <1>11
  <2>3. ASSUME NEW j \in DOMAIN stack', stack'[j].op = "init"
        PROVE  j = 1 /\ (\E k \in DOMAIN registry' : registry'[k] = stack'[1].h)
               /\ IdsIn(stack'[1].deps, mods'[stack'[1].h].base) \subseteq Ids
    BY <1>7, <2>1, <2>2, <2>3 DEF Registered
  <2> QED
    BY <2>3 DEF InitFrames, Registered
<1>14. NamesOk'
  <2>1. Heard(Len(mods)) \subseteq Heard(Len(mods'))
    BY <1>8, MoreMods
  <2> QED
    BY <2>1 DEF RunRequire, TypeInv, NamesOk, names
<1>15. WaitOk' /\ PageOk' /\ SeenOk'
  <2>1. waitAry \in Seq(Handles') /\ traced \in Seq(Handles')
    BY <1>6 DEF TypeInv, WaitOk, PageOk
  <2> QED
    BY <2>1 DEF RunRequire, TypeInv, WaitOk, PageOk, SeenOk, wait, sweep, page, cycle, seen
<1>16. QueueInv'
  <2>1. UNCHANGED << queues, useInteractive, scripts >>
    BY DEF RunRequire, page
  <2> QED
    BY <1>1, <2>1, QueueKept DEF TypeInv
<1>17. TypeInv'
  BY <1>6, <1>7, <1>12, <1>13, <1>14, <1>15, <1>16 DEF TypeInv
<1>18. NewRequire(h)
  BY <1>1, <1>2, <1>4, <1>5, <1>6, <1>7, <1>11 DEF NewRequire, f
<1> QED
  BY <1>6, <1>17, <1>18

(* Back from forcing the dependency i of h                                 *)
ForcedDep(h, i) ==
  /\ h = Top.h /\ h \in Handles /\ isDefine(h) /\ i \in Nat \ {0} /\ Head(stack).op = "forced"
  /\ OnlyMod(h) /\ SameRest(h) /\ SameCall(h) /\ mods'[h].is = mods[h].is
  /\ mods'[h].depMatched = mods[h].depMatched \cup {i}
  /\ mods'[h].depCount = (IF i \in mods[h].depMatched THEN mods[h].depCount ELSE mods[h].depCount - 1)
  /\ Shifted(1) /\ 1 \in DOMAIN stack' /\ stack'[1].op = "forceDep" /\ stack'[1].h = h

LEMMA TForced ==
  ASSUME TypeInv, ForceOk, Forced
  PROVE  TypeInv' /\ (Quiet \/ \E h \in Handles, i \in Nat : ForcedDep(h, i))
<1> DEFINE n == Len(mods)
<1>1. /\ stack # << >> /\ Head(stack).op = "forced" /\ Top.op = "forced"
      /\ Top \in [op : {"forced"}, h : 1..n, i : Nat \ {0}] /\ isDefine(Top.h)
  BY TopGood DEF TypeInv, Forced, Calling, Top, Good, ForceOk
<1>2. PICK h : h = Top.h /\ h \in Handles
  BY <1>1 DEF Handles
<1>3. PICK i : i = Top.i /\ i \in Nat \ {0}
  BY <1>1
<1>d. isDefine(h)
  BY <1>1, <1>2
<1> DEFINE f == [op |-> "forceDep", h |-> h, i |-> i + 1]
<1>4. Good(f, n) /\ f.op = "forceDep" /\ f.h = h /\ Mild(f)
  <2>1. f.op = "forceDep" /\ f.h = h
    OBVIOUS
  <2>2. f \in [op : {"forceDep"}, h : 1..n, i : Nat \ {0}]
    BY <1>2, <1>3 DEF Handles
  <2> HIDE DEF f
  <2> QED
    BY <1>d, <2>1, <2>2 DEF Good, Keys, Mild
<1>5. Calls(<< f >>)
  BY <1>2, <1>3 DEF Forced
<1> HIDE DEF f
<1>6. Calm(1)
  BY <1>1, <1>4, <1>5, Calm1
<1>7. CASE UNCHANGED mods
  BY <1>6, <1>7, CalmSame DEF Forced, sweep, cycle, TypeInv, PageOk
<1>8. CASE mods' # mods
  <2> DEFINE m == defineDep(mods[h], i)
  <2>1. mods' = [mods EXCEPT ![h] = m]
    BY <1>2, <1>3, <1>8 DEF Forced
  <2>2. mods[h] \in Mod(n)
    BY <1>2, HandleFacts DEF TypeInv
  <2>3. DepDefined(n, mods[h], i, m)
    BY <1>3, <2>2, DefineDepOk
  <2> HIDE DEF m
  <2>4. /\ ModsOk' /\ Len(mods') = Len(mods) /\ Kept /\ mods'[h] = m
        /\ \A x \in Handles : x # h => mods'[x] = mods[x]
    BY <1>2, <2>1, <2>3, ModChanged DEF TypeInv, DepDefined
  <2>5. Shifted(1) /\ 1 \in DOMAIN stack' /\ stack'[1] = f
    BY <1>1, <1>5, Push1 DEF TypeInv, StackOk
  <2>6. \A j \in 1..1 : j \in DOMAIN stack' => Good(stack'[j], n) /\ stack'[j].op # "init"
    BY <1>4, <2>5
  <2>7. TypeInv'
    BY <1>1, <2>4, <2>5, <2>6, TypeCalm DEF Forced, TypeInv, SeenOk, seen
  <2>8. ForcedDep(h, i)
    BY <1>1, <1>2, <1>3, <1>4, <1>d, <2>3, <2>4, <2>5 DEF ForcedDep, DepDefined, OnlyMod, SameRest, SameCall
  <2> QED
    BY <1>2, <1>3, <2>7, <2>8
<1> QED
  BY <1>7, <1>8

(* The module id moves on to its next place and is required again          *)
MovedAway(id) ==
  /\ id \in Ids /\ HasPathFallback(id) /\ UNCHANGED mods
  /\ paths' = [paths EXCEPT ![id] = Tail(@)] /\ undef(id, [paths EXCEPT ![id] = Tail(@)])
  /\ stack # << >> /\ Head(stack).op \in {"scan", "scriptError"}
  /\ 1 \in DOMAIN stack' /\ stack'[1] = require(<< id >>, NONE, NONE, NONE)
  /\ \/ Shifted(1)
     \/ Shifted(2) /\ 2 \in DOMAIN stack' /\ Mild(stack'[2])

LEMMA Forgotten ==
  ASSUME ModsOk, RegInv, NamesOk, WaitOk, NEW id \in Ids, NEW q, undef(id, q), UNCHANGED mods
  PROVE  /\ RegInv' /\ WaitOk' /\ defined' \subseteq Ids /\ DOMAIN undefEvents' \subseteq Ids
         /\ \A i \in DOMAIN undefEvents' : undefEvents'[i] \in Heard(Len(mods))
<1>0. ModsOk' /\ Kept /\ Handles' = Handles /\ Len(mods') = Len(mods)
  BY SameSelf DEF Handles
<1>1. PICK h : h = Lookup(id)
  OBVIOUS
<1>2. h # 0 => h \in Handles /\ mods[h] \in Mod(Len(mods))
  BY <1>1, LookupFacts, HandleFacts
<1>3. RegInv'
  <2>1. CASE h # 0
    <3>1. registry' = Unregister(h)
      BY <1>1, <2>1 DEF undef, removeWaiting
    <3> QED
      BY <1>0, <3>1, RegUnregistered
  <2>2. CASE h = 0
    <3>1. UNCHANGED registry
      BY <1>1, <2>2 DEF undef
    <3> QED
      BY <1>0, <3>1, RegKept
  <2> QED
    BY <2>1, <2>2
<1>4. WaitOk'
  <2>1. CASE h # 0
    <3> DEFINE ks == {k \in DOMAIN waitAry : mods[waitAry[k]].id = id}
               k  == CHOOSE j \in ks : \A l \in ks : j <= l
    <3>1. /\ waitAry' = IF ks = {} THEN waitAry ELSE Cut(waitAry, k, k)
          /\ waitCount' = waitCount - 1 \/ waitCount' = waitCount
      BY <1>1, <2>1 DEF undef, removeWaiting
    <3>2. waitAry \in Seq(Handles) /\ waitCount \in Int /\ ks \subseteq DOMAIN waitAry /\ ks \subseteq Nat
      BY DEF WaitOk
    <3>3. ks # {} => k \in ks
      <4> SUFFICES ASSUME ks # {} PROVE k \in ks
        OBVIOUS
      <4> HIDE DEF ks
      <4>1. \E j \in ks : \A l \in ks : j <= l
        BY <3>2, LeastOf
      <4> QED
        BY <4>1
    <3> HIDE DEF ks, k
    <3>4. waitAry' \in Seq(Handles)
      <4>1. CASE ks = {}
        BY <3>1, <3>2, <4>1
      <4>2. CASE ks # {}
        BY <3>1, <3>2, <3>3, <4>2, CutFacts
      <4> QED
        BY <4>1, <4>2
    <3>5. waitCount' \in Int
      BY <3>1, <3>2
    <3> QED
      BY <1>0, <3>4, <3>5 DEF WaitOk
  <2>2. CASE h = 0
    BY <1>0, <1>1, <2>2 DEF undef, WaitOk, wait
  <2> QED
    BY <2>1, <2>2
<1>5. defined' \subseteq Ids
  BY DEF undef, NamesOk
<1>6. DOMAIN undefEvents' \subseteq Ids /\ \A i \in DOMAIN undefEvents' : undefEvents'[i] \in Heard(Len(mods))
  <2>1. CASE h # 0 /\ mods[h].onDefined # << >>
    <3> DEFINE e == [defined |-> mods[h].onDefined, error |-> mods[h].onError]
    <3>1. undefEvents' = [i \in DOMAIN undefEvents \cup {id} |-> IF i = id THEN e ELSE undefEvents[i]]
      BY <1>1, <2>1 DEF undef
    <3>2. e \in Heard(Len(mods))
      BY <1>2, <2>1, ModFields DEF Heard
    <3> HIDE DEF e
    <3> QED
      BY <3>1, <3>2 DEF NamesOk
  <2>2. CASE ~(h # 0 /\ mods[h].onDefined # << >>)
    <3>1. undefEvents' = [i \in DOMAIN undefEvents \ {id} |-> undefEvents[i]]
      BY <1>1, <2>2 DEF undef
    <3> QED
      BY <3>1 DEF NamesOk
  <2> QED
    BY <2>1, <2>2
<1> QED
  BY <1>3, <1>4, <1>5, <1>6

LEMMA TFallback ==
  ASSUME TypeInv, stack # << >>, Head(stack).op \in {"scan", "scriptError"}, NEW id \in Ids, HasPathFallback(id),
         NEW g, Good(g, Len(mods)), Mild(g), Fallback(id, << >>) \/ Fallback(id, << g >>),
         UNCHANGED << mods, queues, sweep, page, cycle, seen >>
  PROVE  TypeInv' /\ MovedAway(id)
<1> DEFINE f == require(<< id >>, NONE, NONE, NONE)
           n == Len(mods)
<1>1. /\ paths' = [paths EXCEPT ![id] = Tail(@)] /\ undef(id, [paths EXCEPT ![id] = Tail(@)])
      /\ Calls(<< f >>) \/ Calls(<< f, g >>)
  <2>1. CASE Fallback(id, << >>)
    <3>1. Calls(<< f >> \o << >>)
      BY <2>1 DEF Fallback
    <3> HIDE DEF f
    <3>2. Calls(<< f >>)
      BY <3>1, Joined0
    <3> QED
      BY <2>1, <3>2 DEF Fallback
  <2>2. CASE Fallback(id, << g >>)
    <3>1. Calls(<< f >> \o << g >>)
      BY <2>2 DEF Fallback
    <3> HIDE DEF f
    <3>2. Calls(<< f, g >>)
      BY <3>1, Joined1
    <3> QED
      BY <2>2, <3>2 DEF Fallback
  <2> QED
    BY <2>1, <2>2
<1>2. id \in DOMAIN paths /\ Len(paths[id]) > 1 /\ paths \in MovedPaths /\ id \in DOMAIN Paths
  BY DEF HasPathFallback, TypeInv, NamesOk, MovedPaths
<1>3. paths' \in MovedPaths
  BY <1>1, <1>2, MovedOn
<1>4. Good(f, n) /\ f.op # "init"
  <2>1. << id >> \in Seq(Names) /\ IdsIn(<< id >>, NONE) \subseteq Ids
    BY <1>2, RequireAssumption
  <2> QED
    BY <2>1 DEF Good, require
<1> HIDE DEF f
<1>5. /\ 1 \in DOMAIN stack' /\ stack'[1] = f
      /\ Shifted(1) \/ (Shifted(2) /\ 2 \in DOMAIN stack' /\ stack'[2] = g)
  BY <1>1, Push1, Push2 DEF TypeInv, StackOk
<1>6. /\ RegInv' /\ WaitOk' /\ defined' \subseteq Ids /\ DOMAIN undefEvents' \subseteq Ids
      /\ \A i \in DOMAIN undefEvents' : undefEvents'[i] \in Heard(Len(mods))
  BY <1>1, Forgotten DEF TypeInv
<1>7. /\ ModsOk' /\ Handles' = Handles /\ Len(mods') = Len(mods) /\ Len(mods) <= Len(mods')
  BY SameSelf, HandleFacts DEF Handles, TypeInv
<1>8. NamesOk' /\ PageOk' /\ SeenOk'
  BY <1>3, <1>6, <1>7 DEF NamesOk, TypeInv, PageOk, SeenOk, sweep, page, cycle, seen
<1>9. Mild(g) => g.op # "init"
  BY DEF Mild, Keys
<1>10. \E k \in Nat : Shifted(k) /\ \A j \in 1..k : j \in DOMAIN stack' => Good(stack'[j], Len(mods')) /\ stack'[j].op # "init"
  <2>1. CASE Shifted(1)
    <3>1. \A j \in 1..1 : j \in DOMAIN stack' => Good(stack'[j], Len(mods')) /\ stack'[j].op # "init"
      BY <1>4, <1>5, <1>7
    <3> QED
      BY <2>1, <3>1
  <2>2. CASE Shifted(2) /\ 2 \in DOMAIN stack' /\ stack'[2] = g
    <3>0. \A j \in 1..2 : j = 1 \/ j = 2
      OBVIOUS
    <3>1. \A j \in 1..2 : j \in DOMAIN stack' => Good(stack'[j], Len(mods')) /\ stack'[j].op # "init"
      BY <1>4, <1>5, <1>7, <1>9, <2>2, <3>0
    <3> QED
      BY <2>2, <3>1
  <2> QED
    BY <1>5, <2>1, <2>2
<1>11. UNCHANGED << queues, useInteractive, scripts >>
  BY DEF page
<1>12. TypeInv'
  BY <1>6, <1>7, <1>8, <1>10, <1>11, TypeStep
<1>13. MovedAway(id)
  BY <1>1, <1>5 DEF MovedAway, f
<1> QED
  BY <1>12, <1>13

(* Its script has not come                                                 *)
Missing(id) ==
  \/ Top.op = "scriptError" /\ Top.id = id
  \/ \E h \in Handles : Registered(h) /\ mods[h].id = id /\ ~Is(h, "inited")

LEMMA TScan ==
  ASSUME TypeInv, CallsInv, Scan
  PROVE  TypeInv' /\ (Quiet \/ \E id \in Ids : MovedAway(id) /\ Missing(id))
<1>1. SUFFICES ASSUME ~(TypeInv' /\ Quiet) PROVE TypeInv' /\ \E id \in Ids : MovedAway(id) /\ Missing(id)
  OBVIOUS
<1>2. PICK h : h = Head(Top.hs)
  OBVIOUS
<1>3. PICK g : g = [Top EXCEPT !.hs = Tail(@), !.fallback = TRUE, !.stillLoading = TRUE]
  OBVIOUS
<1>4. /\ h \in Handles /\ Registered(h) /\ Is(h, "enabled") /\ ~Is(h, "inited")
      /\ HasPathFallback(mods[h].id) /\ Fallback(mods[h].id, << g >>)
  BY <1>1, <1>2, <1>3, QScan
<1>5. PICK id : id = mods[h].id
  OBVIOUS
<1>6. id \in Ids
  <2>1. isDefine(h)
    BY <1>4 DEF CallsInv
  <2> QED
    BY <1>4, <1>5, <2>1, HandleFacts, ModFields DEF TypeInv, isDefine
<1>7. stack # << >> /\ Head(stack).op = "scan" /\ UNCHANGED << mods, queues, sweep, page, cycle, seen >>
  BY DEF Scan, Calling
<1>8. Good(g, Len(mods)) /\ Mild(g)
  <2>1. Top \in [op : {"scan"}, hs : Seq(1..Len(mods)), expired : BOOLEAN, noLoads : Seq(Names),
                 stillLoading : BOOLEAN, needCycleCheck : BOOLEAN, fallback : BOOLEAN]
    BY TopGood DEF TypeInv, Scan, Calling, Top, Good
  <2>2. Tail(Top.hs) \in Seq(1..Len(mods))
    BY <2>1, HeadTailFacts DEF Scan
  <2>3. PICK t : t = Tail(Top.hs)
    OBVIOUS
  <2>4. g = [Top EXCEPT !.hs = t, !.fallback = TRUE, !.stillLoading = TRUE]
    BY <1>3, <2>3
  <2>5. g \in [op : {"scan"}, hs : Seq(1..Len(mods)), expired : BOOLEAN, noLoads : Seq(Names),
               stillLoading : BOOLEAN, needCycleCheck : BOOLEAN, fallback : BOOLEAN]
    BY <2>1, <2>2, <2>3, <2>4
  <2> QED
    BY <2>5 DEF Good, Mild, Keys
<1>9. TypeInv' /\ MovedAway(id)
  BY <1>4, <1>5, <1>6, <1>7, <1>8, TFallback
<1>10. Missing(id)
  BY <1>4, <1>5 DEF Missing
<1> QED
  BY <1>6, <1>9, <1>10

LEMMA TScriptError ==
  ASSUME TypeInv, ScriptError
  PROVE  TypeInv' /\ (Quiet \/ \E id \in Ids : MovedAway(id) /\ Missing(id))
<1>1. CASE TypeInv' /\ Quiet
  BY <1>1
<1>2. CASE HasPathFallback(Top.id) /\ Fallback(Top.id, << >>)
  <2>1. stack # << >> /\ Head(stack).op = "scriptError" /\ Top.id \in Ids
    BY TopGood DEF TypeInv, ScriptError, Calling, Top, Good
  <2>2. PICK id \in Ids : id = Top.id
    BY <2>1
  <2>3. UNCHANGED << mods, queues, sweep, page, cycle, seen >>
    BY DEF ScriptError
  <2>4. Good(checkLoaded, Len(mods)) /\ Mild(checkLoaded)
    BY DEF Good, checkLoaded, Keys, Mild
  <2>5. TypeInv' /\ MovedAway(id)
    BY <1>2, <2>1, <2>2, <2>3, <2>4, TFallback
  <2>6. Missing(id)
    BY <2>1, <2>2 DEF Missing, Top
  <2> QED
    BY <2>5, <2>6
<1> QED
  BY <1>1, <1>2, QScriptError

LEMMA OneCall ==
  ASSUME NEW f, stack' = << f >>
  PROVE  IsSeq(stack') /\ Len(stack') = 1 /\ DOMAIN stack' = {1} /\ stack'[1] = f
<1>1. << f >> \in Seq({f}) /\ Len(<< f >>) = 1 /\ DOMAIN << f >> = {1}
  OBVIOUS
<1> QED
  BY <1>1 DEF IsSeq

(* Between handlers no define is left over but in IE 6-8. *)
LEMMA IdleQueue ==
  ASSUME TypeInv, Idle, ~useInteractive
  PROVE  defQueue = << >> /\ globalDefQueue = << >> /\ \A s \in scripts : ~s.executed
BY DEF Idle, TypeInv, QueueInv

(* An event leaves the Modules as they are and starts one call             *)
LEMMA Started ==
  ASSUME TypeInv, NEW f, stack' = << f >>, Good(f, Len(mods)), f.op # "init",
         UNCHANGED << mods, registry, names, wait, sweep, useInteractive, cycle >>, expired' \in BOOLEAN,
         issued' \in Nat, SeenOk', QueueInv', scripts' \subseteq scripts
  PROVE  TypeInv'
<1>1. ModsOk' /\ Kept /\ Handles' = Handles /\ Len(mods') = Len(mods)
  BY SameSelf DEF Handles, TypeInv
<1>2. StackOk' /\ InitFrames'
  BY OneCall DEF StackOk, Frames, InitFrames
<1>3. RegInv' /\ NamesOk' /\ WaitOk'
  BY <1>1, RegKept DEF TypeInv, NamesOk, WaitOk, names, wait
<1>4. PageOk'
  BY <1>1 DEF TypeInv, PageOk, sweep, cycle
<1> QED
  BY <1>1, <1>2, <1>3, <1>4 DEF TypeInv

Asking(r) ==
  /\ r \in Requires /\ r = issued + 1 /\ issued' = r /\ UNCHANGED mods
  /\ IsSeq(stack') /\ DOMAIN stack' = {1} /\ stack = << >>
  /\ \E eb : stack'[1] = require(AskedNames[r], NONE, << "user", r >>, eb)

LEMMA TPageRequire ==
  ASSUME TypeInv, NEW r \in Requires, PageRequire(r)
  PROVE  TypeInv' /\ Asking(r)
<1>1. PICK eb : eb = IF r \in Errback THEN << "user", r >> ELSE NONE
  OBVIOUS
<1> DEFINE f == require(AskedNames[r], NONE, << "user", r >>, eb)
<1>2. stack' = << f >> /\ r = issued + 1 /\ issued' = r /\ Idle
  BY <1>1 DEF PageRequire
<1>3. /\ << "user", r >> \in Backs(Len(mods)) /\ eb \in Errs(Len(mods)) \cup {NONE}
      /\ AskedNames[r] \in Seq(Names) /\ IdsIn(AskedNames[r], NONE) \subseteq Ids
  BY <1>1, RequireAssumption DEF Backs, Errs
<1>4. Good(f, Len(mods)) /\ f.op # "init"
  BY <1>3 DEF Good, require
<1> HIDE DEF f
<1>5. UNCHANGED << scripts, queues, useInteractive >>
  BY DEF PageRequire
<1>6. QueueInv'
  <2>1. CASE useInteractive
    BY <2>1, <1>5 DEF TypeInv, QueueInv, queues
  <2>2. CASE ~useInteractive
    <3>1. defQueue' = << >> /\ globalDefQueue' = << >> /\ \A s \in scripts' : ~s.executed
      BY <1>2, <1>5, <2>2, IdleQueue DEF queues
    <3> QED
      BY <1>5, <2>2, <3>1 DEF QueueInv
  <2> QED
    BY <2>1, <2>2
<1>7. SeenOk' /\ issued' \in Nat /\ expired' \in BOOLEAN /\ scripts' \subseteq scripts
  BY <1>2, <1>5, RequireAssumption DEF PageRequire, TypeInv, SeenOk, PageOk, seen
<1>8. UNCHANGED << mods, registry, names, wait, sweep, useInteractive, cycle >>
  BY DEF PageRequire
<1>9. TypeInv'
  BY <1>2, <1>4, <1>6, <1>7, <1>8, Started
<1>10. Asking(r)
  BY <1>2, <1>8, OneCall DEF Asking, f, Idle
<1> QED
  BY <1>9, <1>10

Loaded(s) ==
  /\ s \in scripts /\ s.executed /\ scripts' = scripts \ {s} /\ UNCHANGED mods
  /\ IsSeq(stack') /\ DOMAIN stack' = {1} /\ stack = << >>
  /\ stack'[1] = [op |-> "complete", id |-> s.id, found |-> FALSE]

LEMMA TScriptLoads ==
  ASSUME TypeInv, NEW s \in scripts, ScriptLoads(s)
  PROVE  TypeInv' /\ Loaded(s)
<1> DEFINE f == [op |-> "complete", id |-> s.id, found |-> FALSE]
<1>1. stack' = << f >> /\ stack = << >> /\ s.executed /\ scripts' = scripts \ {s} /\ UNCHANGED queues
  BY DEF ScriptLoads
<1>2. s.id \in Ids
  BY DEF TypeInv, PageOk, Script
<1>3. Good(f, Len(mods)) /\ f.op # "init"
  BY <1>2 DEF Good
<1>4. QueueInv'
  <2>1. CASE useInteractive
    BY <2>1, <1>1 DEF TypeInv, QueueInv, ScriptLoads, queues
  <2>2. CASE ~useInteractive
    <3>1. defQueue' = << >> /\ \A t \in scripts' : ~t.executed
      BY <1>1, <2>2 DEF TypeInv, QueueInv, queues
    <3>2. globalDefQueue' # << >> => \E i \in Sourced :
            /\ globalDefQueue' = << EntryOf(i) >>
            /\ stack' = << [op |-> "complete", id |-> i, found |-> FALSE] >>
      <4> SUFFICES ASSUME globalDefQueue # << >>
                   PROVE  \E i \in Sourced : globalDefQueue = << EntryOf(i) >> /\ s.id = i
        BY <1>1 DEF queues
      <4>1. PICK i \in Sourced : /\ globalDefQueue = << EntryOf(i) >>
              /\ \/ \E t \in scripts : t.executed /\ t.id = i
                 \/ stack = << [op |-> "complete", id |-> i, found |-> FALSE] >>
        BY <2>2 DEF TypeInv, QueueInv
      <4>2. PICK t \in scripts : t.executed /\ t.id = i
        BY <1>1, <4>1
      <4>3. t = s
        BY <1>1, <2>2, <4>2 DEF TypeInv, QueueInv
      <4> QED
        BY <4>1, <4>2, <4>3
    <3> QED
      BY <2>2, <3>1, <3>2 DEF QueueInv, ScriptLoads
  <2> QED
    BY <2>1, <2>2
<1>5. SeenOk' /\ issued' \in Nat /\ expired' \in BOOLEAN /\ scripts' \subseteq scripts
  BY <1>1 DEF ScriptLoads, TypeInv, SeenOk, PageOk, seen
<1>6. UNCHANGED << mods, registry, names, wait, sweep, useInteractive, cycle >>
  BY DEF ScriptLoads
<1> HIDE DEF f
<1>7. TypeInv'
  BY <1>1, <1>3, <1>4, <1>5, <1>6, Started
<1>8. Loaded(s)
  BY <1>1, <1>6, OneCall DEF Loaded, f
<1> QED
  BY <1>7, <1>8

Failing(s) ==
  /\ ~useInteractive /\ s \in scripts /\ ~s.executed /\ scripts' = scripts \ {s} /\ UNCHANGED mods
  /\ IsSeq(stack') /\ DOMAIN stack' = {1} /\ stack = << >>
  /\ stack'[1] = [op |-> "scriptError", id |-> s.id]

LEMMA TScriptFails ==
  ASSUME TypeInv, NEW s \in scripts, ScriptFails(s)
  PROVE  TypeInv' /\ Failing(s)
<1> DEFINE f == [op |-> "scriptError", id |-> s.id]
<1>1. stack' = << f >> /\ Idle /\ ~useInteractive /\ scripts' = scripts \ {s} /\ UNCHANGED queues
  BY DEF ScriptFails
<1>2. s.id \in Ids
  BY DEF TypeInv, PageOk, Script
<1>3. Good(f, Len(mods)) /\ f.op # "init"
  BY <1>2 DEF Good
<1>4. QueueInv' /\ ~s.executed
  <2>1. defQueue' = << >> /\ globalDefQueue' = << >> /\ \A t \in scripts : ~t.executed
    BY <1>1, IdleQueue DEF queues
  <2> QED
    BY <1>1, <2>1 DEF QueueInv, ScriptFails
<1>5. SeenOk' /\ issued' \in Nat /\ expired' \in BOOLEAN /\ scripts' \subseteq scripts
  BY <1>1 DEF ScriptFails, TypeInv, SeenOk, PageOk, seen
<1>6. UNCHANGED << mods, registry, names, wait, sweep, useInteractive, cycle >>
  BY DEF ScriptFails
<1> HIDE DEF f
<1>7. TypeInv'
  BY <1>1, <1>3, <1>4, <1>5, <1>6, Started
<1>8. Failing(s)
  <2>1. ~useInteractive
    BY DEF ScriptFails
  <2> QED
    BY <1>1, <1>4, <1>6, <2>1, OneCall DEF Failing, f, Idle
<1> QED
  BY <1>7, <1>8

(* The script of a module runs: it is the module's own source              *)
Running(s) ==
  /\ s \in scripts /\ ~s.executed /\ UNCHANGED << mods, stack >> /\ stack = << >>
  /\ scripts' = (scripts \ {s}) \cup {[s EXCEPT !.executed = TRUE]}
  /\ s.id \in Ids /\ Site[s.url] = s.id
  /\ \/ Kind[s.id] = "plain" /\ runs' = [runs EXCEPT ![s.id] = @ + 1] /\ UNCHANGED queues
     \/ /\ s.id \in Sourced /\ UNCHANGED runs
        /\ \/ /\ useInteractive /\ UNCHANGED globalDefQueue
              /\ defQueue' = defQueue \o << [name |-> s.id, deps |-> DepNames[s.id]] >>
           \/ /\ ~useInteractive /\ defQueue = << >> /\ UNCHANGED defQueue
              /\ globalDefQueue = << >> /\ globalDefQueue' = << EntryOf(s.id) >>

LEMMA TScriptRuns ==
  ASSUME OwnPlaces, TypeInv, NEW s \in scripts, ScriptRuns(s)
  PROVE  TypeInv' /\ Running(s)
<1>1. s \in Script /\ s.url \in Places(s.id) /\ s.id \in Ids /\ s.url \in AllPlaces
  BY DEF TypeInv, PageOk, Script
<1>2. s.url \in DOMAIN Site /\ ~s.executed /\ Idle /\ stack = << >>
  BY DEF ScriptRuns, Idle
<1>3. PICK of : of = s.id
  OBVIOUS
<1>4. Site[s.url] = of
  BY <1>1, <1>2, <1>3 DEF OwnPlaces
<1>5. PICK entry : entry = [name |-> CASE Kind[of] = "named" -> of
                   [] Kind[of] # "named" /\ useInteractive -> s.id
                   [] OTHER -> NONE, deps |-> DepNames[of]]
  OBVIOUS
<1>6. /\ IF Kind[of] = "plain"
             THEN runs' = [runs EXCEPT ![of] = @ + 1] /\ UNCHANGED queues
             ELSE /\ IF useInteractive
                       THEN /\ defQueue' = defQueue \o << entry >>
                            /\ UNCHANGED globalDefQueue
                       ELSE /\ globalDefQueue' = globalDefQueue \o << entry >>
                            /\ UNCHANGED defQueue
                  /\ UNCHANGED runs
      /\ scripts' = (scripts \ {s}) \cup {[s EXCEPT !.executed = TRUE]}
  BY <1>4, <1>5 DEF ScriptRuns
<1>7. PICK e : e = [s EXCEPT !.executed = TRUE]
  OBVIOUS
<1>8. e \in Script /\ e.url = s.url /\ e.id = s.id /\ e.executed
  BY <1>1, <1>7 DEF Script
<1>9. UNCHANGED << mods, registry, names, wait, sweep, useInteractive, expired, issued, stack, cycle, called, errors, failed >>
  BY DEF ScriptRuns
<1>10. /\ useInteractive => entry = [name |-> of, deps |-> DepNames[of]]
       /\ ~useInteractive => entry = EntryOf(of)
  BY <1>3, <1>5 DEF EntryOf
<1>11. ~useInteractive => defQueue = << >> /\ globalDefQueue = << >> /\ \A t \in scripts : ~t.executed
  BY <1>2, IdleQueue
<1>12. Kind[of] # "plain" => of \in Sourced
  BY <1>1, <1>3 DEF Sourced
<1>13. Running(s)
  <2>1. ~useInteractive /\ Kind[of] # "plain" => globalDefQueue' = << EntryOf(of) >>
    <3> SUFFICES ASSUME ~useInteractive, Kind[of] # "plain" PROVE globalDefQueue' = << EntryOf(of) >>
      OBVIOUS
    <3>1. globalDefQueue' = << >> \o << entry >> /\ entry = EntryOf(of)
      BY <1>6, <1>10, <1>11
    <3> QED
      BY <3>1, Joined0
  <2> QED
    BY <1>1, <1>2, <1>3, <1>4, <1>6, <1>9, <1>10, <1>11, <1>12, <2>1 DEF Running
<1>14. /\ scripts' \subseteq Script
       /\ \A t \in scripts' : t.url \in Places(t.id) /\ (t.executed => t.url \in DOMAIN Site)
  BY <1>1, <1>2, <1>6, <1>7, <1>8 DEF TypeInv, PageOk
<1>15. QueueInv'
  <2>1. CASE useInteractive
    <3>1. globalDefQueue' = << >>
      BY <1>6, <2>1 DEF TypeInv, QueueInv, queues
    <3>2. defQueue' \in Seq(NamedEntries)
      <4>1. CASE Kind[of] = "plain"
        BY <1>6, <2>1, <4>1 DEF TypeInv, QueueInv, queues
      <4>2. CASE Kind[of] # "plain"
        <5>1. entry \in NamedEntries
          BY <1>10, <1>12, <2>1, <4>2 DEF NamedEntries
        <5>2. << entry >> \in Seq(NamedEntries) /\ defQueue \in Seq(NamedEntries)
          BY <2>1, <5>1 DEF TypeInv, QueueInv
        <5> QED
          BY <1>6, <2>1, <4>2, <5>2, ConcatProperties
      <4> QED
        BY <4>1, <4>2
    <3> QED
      BY <1>9, <2>1, <3>1, <3>2 DEF QueueInv
  <2>2. CASE ~useInteractive
    <3>1. defQueue' = << >> /\ stack' = << >>
      BY <1>2, <1>6, <1>9, <1>11, <2>2 DEF queues
    <3>2. \A t, u \in scripts' : t.executed /\ u.executed => t = u
      BY <1>6, <1>7, <1>11, <2>2
    <3>3. globalDefQueue' # << >> => \E i \in Sourced :
            globalDefQueue' = << EntryOf(i) >> /\ \E t \in scripts' : t.executed /\ t.id = i
      <4> SUFFICES ASSUME globalDefQueue' # << >>
                   PROVE  of \in Sourced /\ globalDefQueue' = << EntryOf(of) >> /\ e \in scripts' /\ e.executed /\ e.id = of
        OBVIOUS
      <4>1. Kind[of] # "plain"
        BY <1>6, <1>11, <2>2 DEF queues
      <4>2. globalDefQueue' = << EntryOf(of) >>
        BY <1>3, <1>11, <1>13, <2>2, <4>1 DEF Running
      <4> QED
        BY <1>3, <1>6, <1>7, <1>8, <1>12, <4>1, <4>2
    <3> QED
      BY <1>9, <2>2, <3>1, <3>2, <3>3 DEF QueueInv
  <2> QED
    BY <2>1, <2>2
<1>16. SeenOk'
  <2>1. runs' \in [Ids -> Nat]
    BY <1>1, <1>3, <1>6 DEF TypeInv, SeenOk
  <2> QED
    BY <1>9, <2>1 DEF TypeInv, SeenOk
<1>17. ModsOk' /\ Kept /\ Handles' = Handles /\ Len(mods') = Len(mods)
  BY <1>9, SameSelf DEF Handles, TypeInv
<1>18. StackOk' /\ InitFrames' /\ RegInv'
  BY <1>2, <1>9, <1>17, RegKept DEF TypeInv, StackOk, Frames, InitFrames, Registered
<1>19. NamesOk' /\ WaitOk' /\ PageOk'
  BY <1>9, <1>14, <1>17 DEF TypeInv, NamesOk, WaitOk, PageOk, names, wait, sweep, cycle
<1> QED
  BY <1>13, <1>15, <1>16, <1>17, <1>18, <1>19 DEF TypeInv

world == << queues, useInteractive, scripts, issued >>
answers == << runs, called >>

(* The call on top is a call of op                                        *)
At(op) == stack # << >> /\ Top = stack[1] /\ Top.op = op /\ 1 \in DOMAIN stack /\ Top \in Frames
Plain == UNCHANGED << registry, names, wait, world, answers >>

DidInit == At("init") /\ \E h \in Handles : Inited(h) /\ Plain
DidEnable == At("enable") /\ \E h \in Handles : Enabled(h) /\ UNCHANGED << registry, names, world, answers >>
DidWire == At("wire") /\ \E h \in Handles : WiredAll(h) /\ Plain
DidServe == At("wire") /\ \E h \in Handles, i \in Nat :
  Served(h, i) /\ UNCHANGED << registry, undefEvents, urlFetched, paths, wait, world, answers >>
DidTake == At("wire") /\ \E h \in Handles, i \in Nat : Taken(h, i) /\ Plain
DidListen == At("wire") /\ \E h \in Handles, i, g \in Nat :
  Listening(h, i, g) /\ UNCHANGED << names, wait, world, answers >>
DidFetch == At("check") /\ \E h \in Handles : Fetching(h)
  /\ UNCHANGED << registry, defined, undefEvents, paths, queues, wait, useInteractive, issued, answers >>
DidStart == At("check") /\ \E h \in Handles : Starting(h) /\ Plain
DidExec == At("execCb") /\ \E h \in Handles :
  Executed(h) /\ UNCHANGED << registry, names, wait, world >>
DidThrow == At("execCb") /\ \E h \in Handles :
  Thrown(h) /\ UNCHANGED << registry, names, wait, world, called >>
DidCall == At("execCb") /\ \E h \in Handles :
  CalledBack(h) /\ UNCHANGED << registry, defined, undefEvents, paths, queues, wait, useInteractive, issued >>
DidDefine == At("define") /\ \E h \in Handles :
  DefinedNow(h) /\ UNCHANGED << undefEvents, urlFetched, paths, world, answers >>
DidNotify == At("notify") /\ \E h \in Handles : Emitting(h) /\ Plain
DidEmitted == At("emit") /\ \E h \in Handles : ToldAll(h) /\ Plain
DidEmit == At("emit") /\ \E h \in Handles : \E k, i \in Nat, l \in Handles : Told(h, k, l, i) /\ Plain
Pulls(op, i, g) ==
  /\ At(op) /\ i \in Sourced /\ EntryTaken(i) /\ \E h \in Handles' : Pulling(i, h, DepNames[i], g)
  /\ UNCHANGED << names, wait, useInteractive, scripts, issued, answers >>
DidQueue == \E i \in Sourced :
  \/ Pulls("require", i, Top)
  \/ Top.id \in Ids /\ Pulls("complete", i, NextComplete(i))
DidEnd == At("complete") /\ QueueDone
  /\ UNCHANGED << registry, names, queues, wait, useInteractive, scripts, issued, answers >>
DidGive == At("completed") /\ \E id \in Ids : Given(id) /\ UNCHANGED << names, wait, world, answers >>
DidRequire == At("require") /\ \E h \in Handles' :
  NewRequire(h) /\ UNCHANGED << names, wait, world, answers >>
DidForce == At("forced") /\ \E h \in Handles, i \in Nat : ForcedDep(h, i) /\ Plain
DidMove == \E id \in Ids : MovedAway(id) /\ Missing(id) /\ UNCHANGED << world, answers >>
DidAsk == \E r \in Requires :
  Asking(r) /\ UNCHANGED << registry, names, queues, wait, useInteractive, scripts, answers >>
DidLoad == \E s \in scripts :
  Loaded(s) /\ UNCHANGED << registry, names, queues, wait, useInteractive, issued, answers >>
DidFail == \E s \in scripts :
  Failing(s) /\ UNCHANGED << registry, names, queues, wait, useInteractive, issued, answers >>
DidRun == \E s \in scripts :
  Running(s) /\ UNCHANGED << registry, names, wait, useInteractive, issued, called >>

Did ==
  \/ Quiet \/ DidInit \/ DidEnable \/ DidWire \/ DidServe \/ DidTake \/ DidListen \/ DidFetch \/ DidStart
  \/ DidExec \/ DidThrow \/ DidCall \/ DidDefine \/ DidNotify \/ DidEmitted \/ DidEmit \/ DidQueue \/ DidEnd
  \/ DidGive \/ DidRequire \/ DidForce \/ DidMove \/ DidAsk \/ DidLoad \/ DidFail \/ DidRun

LEMMA AtTop == ASSUME TypeInv, NEW op, Calling(op) PROVE At(op)
BY TopGood DEF TypeInv, Calling, At, Top

(* Every call is one of the steps described above. *)
LEMMA Steps ==
  ASSUME TypeInv, CallsInv, Step
  PROVE  TypeInv' /\ Did
<1>1. CASE RunInit
  <2>1. At("init")
    BY <1>1, AtTop DEF RunInit
  <2> QED
    BY <1>1, <2>1, TRunInit DEF RunInit, Did, DidInit, Plain, world, answers, names, page, seen
<1>2. CASE RunEnable
  <2>1. At("enable")
    BY <1>2, AtTop DEF RunEnable
  <2> QED
    BY <1>2, <2>1, TRunEnable DEF RunEnable, Did, DidEnable, Plain, world, answers, names, page, seen
<1>3. CASE WireEnd
  <2>1. At("wire")
    BY <1>3, AtTop DEF WireEnd
  <2> QED
    BY <1>3, <2>1, TWireEnd DEF WireEnd, Did, DidWire, Plain, world, answers, names, page, seen
<1>4. CASE WireHandler
  <2>1. At("wire")
    BY <1>4, AtTop DEF WireHandler
  <2> QED
    BY <1>4, <2>1, TWireHandler DEF WireHandler, Did, DidServe, Plain, world, answers, names, page, seen
<1>5. CASE Fetch
  <2>1. At("check")
    BY <1>5, AtTop DEF Fetch
  <2> QED
    BY <1>5, <2>1, TFetch DEF Fetch, Did, DidFetch, Plain, world, answers, names, page, seen
<1>6. CASE CheckDefine
  <2>1. At("check")
    BY <1>6, AtTop DEF CheckDefine
  <2> QED
    BY <1>6, <2>1, TCheckDefine DEF CheckDefine, Did, DidStart, Plain, world, answers, names, page, seen
<1>7. CASE ExecFactory
  <2>1. At("execCb")
    BY <1>7, AtTop DEF ExecFactory
  <2> QED
    BY <1>7, <2>1, TExecFactory DEF ExecFactory, Did, DidExec, Plain, world, answers, names, page, seen
<1>8. CASE FactoryThrows
  <2>1. At("execCb")
    BY <1>8, AtTop DEF FactoryThrows
  <2> QED
    BY <1>8, <2>1, TFactoryThrows DEF FactoryThrows, Did, DidThrow, Plain, world, answers, names, page, seen
<1>9. CASE ExecCallback
  <2>1. At("execCb")
    BY <1>9, AtTop DEF ExecCallback
  <2> QED
    BY <1>9, <2>1, TExecCallback DEF ExecCallback, Did, DidCall, Plain, world, answers, names, page, seen
<1>10. CASE RunDefine
  <2>1. At("define")
    BY <1>10, AtTop DEF RunDefine
  <2> QED
    BY <1>10, <2>1, TRunDefine DEF RunDefine, Did, DidDefine, Plain, world, answers, names, page, seen
<1>11. CASE Notify
  <2>1. At("notify")
    BY <1>11, AtTop DEF Notify
  <2> QED
    BY <1>11, <2>1, TNotify DEF Notify, Did, DidNotify, Plain, world, answers, names, page, seen
<1>12. CASE EmitDefined
  <2>1. At("emit")
    BY <1>12, AtTop DEF EmitDefined
  <2> QED
    BY <1>12, <2>1, TEmitDefined DEF EmitDefined, Did, DidEmitted, DidEmit, Plain, world, answers,
       names, page, seen
<1>13. CASE CompleteQueueEnd
  <2>1. At("complete")
    BY <1>13, AtTop DEF CompleteQueueEnd
  <2> QED
    BY <1>13, <2>1, TCompleteQueueEnd DEF CompleteQueueEnd, Did, DidEnd, Plain, world, answers, names,
       page, seen
<1>14. CASE Completed
  <2>1. At("completed")
    BY <1>14, AtTop DEF Completed
  <2> QED
    BY <1>14, <2>1, TCompleted DEF Completed, Did, DidGive, Plain, world, answers, names, page, seen
<1>15. CASE RunRequire
  <2>1. At("require")
    BY <1>15, AtTop DEF RunRequire
  <2> QED
    BY <1>15, <2>1, TRunRequire DEF RunRequire, Did, DidRequire, Plain, world, answers, names, page, seen
<1>16. CASE Forced
  <2>1. At("forced")
    BY <1>16, AtTop DEF Forced
  <2> QED
    BY <1>16, <2>1, TForced DEF Forced, Did, DidForce, Plain, world, answers, names, page, seen, CallsInv
<1>17. CASE WireDep
  <2>1. At("wire")
    BY <1>17, AtTop DEF WireDep
  <2> QED
    <3>1. UNCHANGED << names, wait, world, answers >>
      BY <1>17 DEF WireDep, world, answers, page, seen
    <3>2. PICK h \in Handles, j \in Nat : Taken(h, j) \/ \E g \in Nat : Listening(h, j, g)
      BY <1>17, TWireDep
    <3>3. CASE Taken(h, j)
      <4>1. UNCHANGED registry
        BY <3>3 DEF Taken
      <4> QED
        BY <2>1, <3>1, <3>3, <4>1, <1>17, TWireDep DEF Did, DidTake, Plain
    <3>4. CASE \E g \in Nat : Listening(h, j, g)
      BY <2>1, <3>1, <3>4, <1>17, TWireDep DEF Did, DidListen
    <3> QED
      BY <3>2, <3>3, <3>4
<1>18. CASE RequireQueue
  <2>1. At("require")
    BY <1>18, AtTop DEF RequireQueue
  <2>2. TypeInv' /\ \E j \in Sourced, h \in Handles' : Pulling(j, h, DepNames[j], Top) /\ EntryTaken(j)
    BY <1>18, TRequireQueue
  <2>3. UNCHANGED << names, wait, useInteractive, scripts, issued, answers >>
    BY <1>18 DEF RequireQueue, page, seen, answers
  <2>4. \E j \in Sourced : Pulls("require", j, Top)
    BY <2>1, <2>2, <2>3 DEF Pulls
  <2> QED
    BY <2>2, <2>4 DEF Did, DidQueue
<1>19. CASE CompleteQueue
  <2>1. At("complete")
    BY <1>19, AtTop DEF CompleteQueue
  <2>2. /\ TypeInv' /\ Top.id \in Ids
        /\ \E j \in Sourced, h \in Handles' : Pulling(j, h, DepNames[j], NextComplete(j)) /\ EntryTaken(j)
    BY <1>19, TCompleteQueue
  <2>3. UNCHANGED << names, wait, useInteractive, scripts, issued, answers >>
    BY <1>19 DEF CompleteQueue, page, seen, answers
  <2>4. \E j \in Sourced : Pulls("complete", j, NextComplete(j))
    BY <2>1, <2>2, <2>3 DEF Pulls
  <2> QED
    BY <2>2, <2>4 DEF Did, DidQueue
<1>20. CASE Scan
  BY <1>20, TScan DEF Scan, Did, DidMove, world, answers, page, seen
<1>21. CASE ScriptError
  BY <1>21, TScriptError DEF ScriptError, Did, DidMove, world, answers, page, seen
<1>22. CASE CheckSkip
  BY <1>22, QCheckSkip DEF Did
<1>23. CASE CheckError
  BY <1>23, QCheckError DEF Did
<1>24. CASE EmitError
  BY <1>24, QEmitError DEF Did
<1>25. CASE RunOnError
  BY <1>25, QRunOnError DEF Did
<1>26. CASE StartSweep
  BY <1>26, QStartSweep DEF Did
<1>27. CASE ScanTimeout
  BY <1>27, QScanTimeout DEF Did
<1>28. CASE ScanEnd
  BY <1>28, QScanEnd DEF Did
<1>29. CASE BreakCycles
  BY <1>29, QBreakCycles DEF Did
<1>30. CASE ForceExec
  BY <1>30, QForceExec DEF Did
<1>31. CASE ForceDep
  BY <1>31, QForceDep DEF Did, CallsInv
<1>32. CASE CheckTraced
  BY <1>32, QCheckTraced DEF Did
<1>33. CASE CheckAll
  BY <1>33, QCheckAll DEF Did
<1>34. CASE CheckEach
  BY <1>34, QCheckEach DEF Did
<1>35. CASE SweepEnd
  BY <1>35, QSweepEnd DEF Did
<1>36. CASE Overflow
  BY <1>36, QOverflow DEF Did
<1> QED
  BY <1>1, <1>2, <1>3, <1>4, <1>5, <1>6, <1>7, <1>8, <1>9, <1>10, <1>11, <1>12, <1>13, <1>14, <1>15,
     <1>16, <1>17, <1>18, <1>19, <1>20, <1>21, <1>22, <1>23, <1>24, <1>25, <1>26, <1>27, <1>28, <1>29,
     <1>30, <1>31, <1>32, <1>33, <1>34, <1>35, <1>36 DEF Step

(* So is every event: a script runs, loads or fails, the timer fires, the page asks. *)
LEMMA Events ==
  ASSUME OwnPlaces, TypeInv, Event
  PROVE  TypeInv' /\ Did
<1>1. ASSUME NEW r \in Requires, PageRequire(r) PROVE TypeInv' /\ Did
  BY <1>1, TPageRequire DEF PageRequire, Did, DidAsk, answers, names, seen
<1>2. ASSUME NEW s \in scripts, ScriptRuns(s) PROVE TypeInv' /\ Did
  BY <1>2, TScriptRuns DEF ScriptRuns, Did, DidRun
<1>3. ASSUME NEW s \in scripts, ScriptLoads(s) PROVE TypeInv' /\ Did
  BY <1>3, TScriptLoads DEF ScriptLoads, Did, DidLoad, answers, seen
<1>4. ASSUME NEW s \in scripts, ScriptFails(s) PROVE TypeInv' /\ Did
  BY <1>4, TScriptFails DEF ScriptFails, Did, DidFail, answers, seen
<1>5. CASE TimerFires
  BY <1>5, QTimerFires DEF Did
<1>6. CASE WaitEnds
  BY <1>6, QWaitEnds DEF Did
<1> QED
  BY <1>1, <1>2, <1>3, <1>4, <1>5, <1>6 DEF Event

LEMMA Stutters ==
  ASSUME TypeInv, UNCHANGED vars
  PROVE  TypeInv' /\ Quiet
<1>1. SameMods /\ ModsOk' /\ Kept
  BY SameSelf DEF vars, TypeInv
<1>2. UNCHANGED << registry, names, queues, wait, useInteractive, scripts, issued, runs, called, stack >>
  BY DEF vars, page, seen
<1>3. TypeInv'
  BY <1>2, SMTT(20) DEF vars, names, queues, wait, sweep, page, cycle, seen, TypeInv, ModsOk, StackOk, Frames,
     NamesOk, WaitOk, PageOk, SeenOk, QueueInv, RegInv, InitFrames, Handles, Registered, isDefine
<1> QED
  BY <1>1, <1>2, <1>3 DEF Quiet, QuietStack

(* The types are inductive, and every step is one of those described. *)
LEMMA Doing ==
  ASSUME OwnPlaces, TypeInv, CallsInv, [Next]_vars
  PROVE  TypeInv' /\ Did
BY Steps, Events, Stutters DEF Next, Did

(* After the first k calls come calls that were under way before, d        *)
(* further down and none of the first b                                    *)
Came(k, d, b) ==
  /\ k \in Nat /\ d \in Int /\ b \in Nat /\ IsSeq(stack')
  /\ \A j \in DOMAIN stack' :
       /\ j \in Nat \ {0}
       /\ j > k => /\ j + d \in DOMAIN stack /\ j + d > b /\ stack'[j] = stack[j + d]
                   /\ j + d + 1 \in DOMAIN stack => j + 1 \in DOMAIN stack'

(* How the calls under way move, from what a step does to the top of the stack. *)
LEMMA CameShifted ==
  ASSUME NEW k \in Nat, Shifted(k), StackOk, stack # << >>
  PROVE  Came(k, 1 - k, 1)
<1>1. PICK n : n = Len(stack)
  OBVIOUS
<1>2. n \in Nat \ {0} /\ DOMAIN stack = 1..n
  BY <1>1, TopGood
<1>3. IsSeq(stack') /\ DOMAIN stack' = 1..(n - 1 + k)
  BY <1>1, ShiftedAt DEF Shifted
<1>4. ASSUME NEW j \in DOMAIN stack', j > k
      PROVE  /\ j + (1 - k) \in DOMAIN stack /\ j + (1 - k) > 1 /\ stack'[j] = stack[j + (1 - k)]
             /\ j + (1 - k) + 1 \in DOMAIN stack => j + 1 \in DOMAIN stack'
  <2>1. j \in Nat /\ j - k + 1 \in DOMAIN stack /\ stack'[j] = stack[j - k + 1]
    BY <1>3, <1>4 DEF Shifted
  <2>2. j - k + 1 = j + (1 - k) /\ j + (1 - k) > 1
    BY <2>1, <1>4
  <2>3. j + (1 - k) + 1 \in 1..n => j + 1 \in 1..(n - 1 + k)
    BY <2>1, <1>2
  <2> QED
    BY <2>1, <2>2, <2>3, <1>2, <1>3
<1>5. \A j \in DOMAIN stack' : j \in Nat \ {0}
  BY <1>2, <1>3
<1> QED
  BY <1>3, <1>4, <1>5 DEF Came

LEMMA CameFirst ==
  ASSUME stack = << >>, IsSeq(stack'), DOMAIN stack' = {1}
  PROVE  Came(1, 0, 0)
BY DEF Came

LEMMA CameThrown ==
  ASSUME NEW h, Thrown(h), StackOk, stack # << >>
  PROVE  \/ stack' = << >> /\ Came(0, 0, 0)
         \/ stack' # << >> /\ Came(1, 1, 2) /\ 1 \in DOMAIN stack' /\ stack'[1].op = "onError"
<1>1. PICK n : n = Len(stack)
  OBVIOUS
<1>2. n \in Nat \ {0} /\ DOMAIN stack = 1..n
  BY <1>1, TopGood
<1>3. CASE stack' = << >>
  <2>1. << >> \in Seq({}) /\ DOMAIN << >> = {}
    OBVIOUS
  <2>2. IsSeq(stack') /\ DOMAIN stack' = {}
    BY <1>3, <2>1 DEF IsSeq
  <2> QED
    BY <1>3, <2>2 DEF Came
<1>4. CASE /\ IsSeq(stack') /\ DOMAIN stack' = 1..(n - 1) /\ 1 \in DOMAIN stack'
           /\ stack'[1].op = "onError"
           /\ \A j \in DOMAIN stack' : j > 1 => j + 1 \in DOMAIN stack /\ stack'[j] = stack[j + 1]
  <2>1. \A j \in DOMAIN stack' : j \in Nat \ {0} /\ (j > 1 => j + 1 > 2)
    BY <1>2, <1>4
  <2>2. \A j \in DOMAIN stack' : j + 1 + 1 \in 1..n => j + 1 \in 1..(n - 1)
    BY <1>2, <2>1
  <2>a. DOMAIN << >> = {}
    OBVIOUS
  <2>3. stack' # << >>
    BY <1>4, <2>a
  <2> QED
    BY <1>2, <1>4, <2>1, <2>2, <2>3 DEF Came
<1> QED
  BY <1>1, <1>3, <1>4 DEF Thrown

LEMMA CameQuiet ==
  ASSUME TypeInv, TypeInv', Quiet
  PROVE  \E k, b \in Nat, d \in Int :
           Came(k, d, b) /\ \A j \in 1..k : j \in DOMAIN stack' => Mild(stack'[j])
<1>1. StackOk /\ IsSeq(stack)
  BY DEF TypeInv, StackOk
<1>2. IsSeq(stack') /\ Len(stack') \in Nat /\ DOMAIN stack' = 1..Len(stack')
  <2>1. IsSeq(stack')
    BY DEF TypeInv, StackOk
  <2> QED
    BY <2>1, SeqFrom
<1>3. CASE \A j \in DOMAIN stack' : Mild(stack'[j])
  <2>1. PICK k : k = Len(stack')
    OBVIOUS
  <2>2. k \in Nat /\ DOMAIN stack' = 1..k
    BY <1>2, <2>1
  <2>3. Came(k, 0, 0)
    BY <1>2, <2>2 DEF Came
  <2> QED
    BY <1>3, <2>2, <2>3
<1>4. CASE UNCHANGED stack
  <2>1. Came(0, 0, 0)
    <3>1. \A j \in DOMAIN stack' : j \in Nat \ {0}
      BY <1>2
    <3> QED
      BY <1>2, <1>4, <3>1 DEF Came
  <2> QED
    BY <2>1
<1>5. CASE stack # << >> /\ \E k \in Nat : Shifted(k) /\ \A j \in 1..k : j \in DOMAIN stack' => Mild(stack'[j])
  BY <1>1, <1>5, CameShifted
<1> QED
  BY <1>3, <1>4, <1>5 DEF Quiet, QuietStack

-----------------------------------------------------------------------------
CallOk(f, ms) ==
  /\ f.op \in {"forceDep", "forced"} => ms[f.h].id # << >>
  /\ f.op = "enable" /\ ms[f.h].id = << >> => "inited" \in ms[f.h].is
  /\ f.op \in {"init", "require"} /\ f.callback # NONE /\ f.callback[1] = "load" =>
       ms[f.callback[2]].id # << >>
CallFrames == \A j \in DOMAIN stack : CallOk(stack[j], mods)
CallMods == \A h \in Handles :
  /\ ~isDefine(h) /\ Is(h, "enabled") => Is(h, "inited")
  /\ mods[h].callback # NONE /\ mods[h].callback[1] = "load" => isDefine(mods[h].callback[2])
Returning == \A j \in DOMAIN stack : stack[j].op = "execCb" =>
  j + 1 \in DOMAIN stack /\ stack[j + 1].op = "define" /\ stack[j + 1].h = stack[j].h

LEMMA CallsParts == CallsInv <=> CallFrames /\ CallMods /\ Returning
BY DEF CallsInv, CallFrames, CallMods, Returning, CallOk, ForceOk, Frames, isDefine, Is

LEMMA CallsParts1 == CallFrames' /\ CallMods' /\ Returning' => CallsInv'
BY DEF CallsInv, CallFrames, CallMods, Returning, CallOk, ForceOk, Frames, isDefine, Is

LEMMA CallKept ==
  ASSUME ModsOk, NEW f, Good(f, Len(mods)), Kept, CallOk(f, mods),
         \A h \in Handles : Is(h, "inited") => "inited" \in mods'[h].is
  PROVE  CallOk(f, mods')
<1>1. f.op \in {"forceDep", "forced", "enable"} => f.h \in Handles
  BY DEF Good, Handles
<1>2. f.op \in {"init", "require"} /\ f.callback # NONE /\ f.callback[1] = "load" => f.callback[2] \in Handles
  <2>1. f.op \in {"init", "require"} => f.callback \in Backs(Len(mods)) \cup {NONE}
    BY DEF Good
  <2> QED
    BY <2>1 DEF Backs, Handles
<1> QED
  BY <1>1, <1>2 DEF CallOk, Kept, Is

(* What holds of each call still holds after a step that keeps the Modules' names. *)
LEMMA CallsGo ==
  ASSUME TypeInv, CallsInv, Kept, \A h \in Handles : Is(h, "inited") => "inited" \in mods'[h].is,
         NEW k, NEW d, NEW b, Came(k, d, b),
         \A j \in 1..k : j \in DOMAIN stack' => CallOk(stack'[j], mods')
  PROVE  CallFrames'
<1>1. ASSUME NEW j \in DOMAIN stack' PROVE CallOk(stack'[j], mods')
  <2>1. j \in Nat \ {0} /\ k \in Nat
    BY DEF Came
  <2>2. CASE j > k
    <3>1. PICK i : i = j + d
      OBVIOUS
    <3>2. i \in DOMAIN stack /\ stack'[j] = stack[i]
      BY <2>2, <3>1 DEF Came
    <3>3. CallOk(stack[i], mods) /\ Good(stack[i], Len(mods))
      BY <3>2, CallsParts DEF CallFrames, TypeInv, StackOk, Frames
    <3> QED
      BY <3>2, <3>3, CallKept DEF TypeInv
  <2>3. CASE j <= k
    BY <2>1, <2>3
  <2> QED
    BY <2>1, <2>2, <2>3
<1> QED
  BY <1>1 DEF CallFrames, CallOk

(* execCb still returns to the check that made it. *)
LEMMA ReturningGoes ==
  ASSUME Returning, NEW k, NEW d, NEW b, Came(k, d, b),
         \A j \in 1..k : j \in DOMAIN stack' /\ stack'[j].op = "execCb" =>
           j + 1 \in DOMAIN stack' /\ stack'[j + 1].op = "define" /\ stack'[j + 1].h = stack'[j].h
  PROVE  Returning'
<1>1. ASSUME NEW j \in DOMAIN stack', stack'[j].op = "execCb"
      PROVE  j + 1 \in DOMAIN stack' /\ stack'[j + 1].op = "define" /\ stack'[j + 1].h = stack'[j].h
  <2>1. j \in Nat \ {0} /\ k \in Nat /\ d \in Int
    BY DEF Came
  <2>2. CASE j > k
    <3>1. PICK i : i = j + d
      OBVIOUS
    <3>2. i \in DOMAIN stack /\ stack'[j] = stack[i] /\ (i + 1 \in DOMAIN stack => j + 1 \in DOMAIN stack')
      BY <2>2, <3>1 DEF Came
    <3>3. i + 1 \in DOMAIN stack /\ stack[i + 1].op = "define" /\ stack[i + 1].h = stack[i].h
      BY <1>1, <3>2 DEF Returning
    <3>4. j + 1 \in DOMAIN stack' /\ j + 1 > k /\ (j + 1) + d = i + 1
      BY <2>1, <2>2, <3>1, <3>2, <3>3
    <3>5. stack'[j + 1] = stack[(j + 1) + d]
      BY <3>4 DEF Came
    <3> QED
      BY <3>2, <3>3, <3>4, <3>5
  <2>3. CASE j <= k
    BY <1>1, <2>1, <2>3
  <2> QED
    BY <2>1, <2>2, <2>3
<1> QED
  BY <1>1 DEF Returning

LEMMA OnlyKept ==
  ASSUME ModsOk, ModsOk', NEW h \in Handles, OnlyMod(h), SameRest(h)
  PROVE  Kept /\ Handles' = Handles /\ Len(mods') = Len(mods)
BY HandleFacts DEF OnlyMod, SameRest, Kept, Handles, ModsOk

LEMMA SameKept ==
  ASSUME ModsOk, SameMods \/ UNCHANGED mods
  PROVE  Kept /\ Handles' = Handles /\ Len(mods') = Len(mods) /\ SameMods
BY SameSelf DEF SameMods, Kept, Handles

(* What the objects must not do for a call                                 *)
CbOk(c) == c # NONE /\ c[1] = "load" => c[2] \in Handles /\ mods[c[2]].id # << >>
Steady ==
  /\ Kept
  /\ \A h \in Handles :
       /\ Is(h, "inited") => "inited" \in mods'[h].is
       /\ mods[h].id = << >> /\ "enabled" \in mods'[h].is => "inited" \in mods'[h].is
       /\ CbOk(mods'[h].callback)
  /\ \A h \in Handles' : h \notin Handles => mods'[h].is = {} /\ mods'[h].callback = NONE
Easy(f) == f.op \notin {"forceDep", "forced", "enable", "init", "require", "execCb"}

LEMMA EasyOk == ASSUME NEW f, Easy(f), NEW ms PROVE CallOk(f, ms) /\ f.op # "execCb"
BY DEF Easy, CallOk

LEMMA CallsSteady ==
  ASSUME TypeInv, CallsInv, Steady
  PROVE  CallMods'
<1>1. ASSUME NEW h \in Handles'
      PROVE  /\ mods'[h].id = << >> /\ "enabled" \in mods'[h].is => "inited" \in mods'[h].is
             /\ mods'[h].callback # NONE /\ mods'[h].callback[1] = "load" => mods'[mods'[h].callback[2]].id # << >>
  <2>1. CASE h \in Handles
    <3>1. mods'[h].id = mods[h].id /\ CbOk(mods'[h].callback)
      BY <2>1 DEF Steady, Kept
    <3>2. ASSUME NEW c, c = mods'[h].callback, c # NONE, c[1] = "load" PROVE mods'[c[2]].id # << >>
      BY <3>1, <3>2 DEF Steady, Kept, CbOk
    <3> QED
      BY <2>1, <3>1, <3>2 DEF Steady
  <2>2. CASE h \notin Handles
    BY <2>2 DEF Steady
  <2> QED
    BY <2>1, <2>2
<1> QED
  BY <1>1 DEF CallMods, isDefine, Is

(* CallsInv after a step, from what the new calls are. *)
LEMMA CallsStep ==
  ASSUME TypeInv, CallsInv, Steady, NEW k, NEW d, NEW b, Came(k, d, b),
         \A j \in 1..k : j \in DOMAIN stack' => CallOk(stack'[j], mods') /\ stack'[j].op # "execCb"
  PROVE  CallsInv'
<1>1. Kept /\ \A h \in Handles : Is(h, "inited") => "inited" \in mods'[h].is
  BY DEF Steady
<1>2. CallFrames'
  BY <1>1, CallsGo
<1>3. CallMods'
  BY CallsSteady
<1>4. Returning'
  BY CallsParts, ReturningGoes
<1> QED
  BY <1>2, <1>3, <1>4, CallsParts1

LEMMA OldCbOk ==
  ASSUME TypeInv, CallsInv, NEW h \in Handles
  PROVE  CbOk(mods[h].callback)
<1>1. mods[h].callback \in Backs(Len(mods)) \cup {NONE}
  BY HandleFacts, ModFields DEF TypeInv
<1> QED
  BY <1>1, CallsParts DEF CallMods, CbOk, Backs, Handles, isDefine

LEMMA TopCall ==
  ASSUME TypeInv, CallsInv, NEW op, At(op)
  PROVE  /\ CallOk(Top, mods) /\ Good(Top, Len(mods)) /\ StackOk /\ stack # << >>
         /\ op \in {"init", "require"} => CbOk(Top.callback)
<1>1. CallOk(Top, mods) /\ Good(Top, Len(mods)) /\ StackOk /\ stack # << >>
  BY CallsParts DEF At, CallFrames, TypeInv, StackOk, Frames
<1>2. ASSUME op \in {"init", "require"} PROVE CbOk(Top.callback)
  <2>1. Top.callback \in Backs(Len(mods)) \cup {NONE}
    BY <1>1, <1>2 DEF Good, At
  <2> QED
    BY <1>1, <1>2, <2>1 DEF CallOk, CbOk, Backs, Handles, At
<1> QED
  BY <1>1, <1>2

(* The steps that keep the callbacks and the flags that matter             *)
LEMMA SteadySame ==
  ASSUME TypeInv, CallsInv, SameMods \/ UNCHANGED mods
  PROVE  Steady
<1>1. Kept /\ Handles' = Handles /\ SameMods
  BY SameKept DEF TypeInv
<1>2. \A h \in Handles : CbOk(mods[h].callback)
  BY OldCbOk
<1> QED
  BY <1>1, <1>2, CallsParts DEF Steady, SameMods, Flags, CallMods, isDefine, Is

LEMMA SteadyOnly ==
  ASSUME TypeInv, TypeInv', CallsInv, NEW h \in Handles, OnlyMod(h), SameRest(h), SameCall(h),
         Is(h, "inited") => "inited" \in mods'[h].is,
         mods[h].id = << >> /\ "enabled" \in mods'[h].is => "inited" \in mods'[h].is
  PROVE  Steady
<1>1. Kept /\ Handles' = Handles
  BY OnlyKept DEF TypeInv
<1>2. \A g \in Handles : CbOk(mods[g].callback)
  BY OldCbOk
<1> QED
  BY <1>1, <1>2, CallsParts DEF Steady, OnlyMod, SameCall, CallMods, isDefine, Is

LEMMA SteadyAdded ==
  ASSUME TypeInv, CallsInv, Kept, \A h \in Handles : mods'[h].is = mods[h].is /\ mods'[h].callback = mods[h].callback,
         \A h \in Handles' : h \notin Handles => mods'[h].is = {} /\ mods'[h].callback = NONE
  PROVE  Steady
BY OldCbOk, CallsParts DEF Steady, CallMods, isDefine, Is

LEMMA CameAt ==
  ASSUME TypeInv, NEW op, At(op), NEW k \in Nat, Shifted(k)
  PROVE  Came(k, 1 - k, 1)
BY CameShifted DEF At, TypeInv

LEMMA CallsEasy1 ==
  ASSUME TypeInv, CallsInv, Steady, NEW op, At(op),
         \/ Shifted(0)
         \/ Shifted(1) /\ 1 \in DOMAIN stack' /\ CallOk(stack'[1], mods') /\ stack'[1].op # "execCb"
         \/ /\ Shifted(2) /\ {1, 2} \subseteq DOMAIN stack'
            /\ CallOk(stack'[1], mods') /\ stack'[1].op # "execCb"
            /\ CallOk(stack'[2], mods') /\ stack'[2].op # "execCb"
  PROVE  CallsInv'
<1>1. CASE Shifted(0)
  <2>1. Came(0, 1 - 0, 1)
    BY <1>1, CameAt
  <2> QED
    BY <2>1, CallsStep
<1>2. CASE Shifted(1) /\ 1 \in DOMAIN stack' /\ CallOk(stack'[1], mods') /\ stack'[1].op # "execCb"
  <2>1. Came(1, 1 - 1, 1)
    BY <1>2, CameAt
  <2>2. \A j \in 1..1 : j = 1
    OBVIOUS
  <2> QED
    BY <1>2, <2>1, <2>2, CallsStep
<1>3. CASE /\ Shifted(2) /\ {1, 2} \subseteq DOMAIN stack'
           /\ CallOk(stack'[1], mods') /\ stack'[1].op # "execCb"
           /\ CallOk(stack'[2], mods') /\ stack'[2].op # "execCb"
  <2>1. Came(2, 1 - 2, 1)
    BY <1>3, CameAt
  <2>2. \A j \in 1..2 : j = 1 \/ j = 2
    OBVIOUS
  <2> QED
    BY <1>3, <2>1, <2>2, CallsStep
<1> QED
  BY <1>1, <1>2, <1>3

LEMMA CallsFirst ==
  ASSUME TypeInv, CallsInv, UNCHANGED mods, stack = << >>, IsSeq(stack'), DOMAIN stack' = {1},
         CallOk(stack'[1], mods') /\ stack'[1].op # "execCb"
  PROVE  CallsInv'
<1>1. Came(1, 0, 0) /\ Steady
  BY CameFirst, SteadySame
<1>2. \A j \in 1..1 : j = 1
  OBVIOUS
<1> QED
  BY <1>1, <1>2, CallsStep

(* CallsInv, step by step. *)
LEMMA CallsQuiet == ASSUME TypeInv, TypeInv', CallsInv, Quiet PROVE CallsInv'
<1>1. PICK k \in Nat, b \in Nat, d \in Int : Came(k, d, b) /\ \A j \in 1..k : j \in DOMAIN stack' => Mild(stack'[j])
  BY CameQuiet
<1>2. Steady /\ Kept /\ Len(mods') = Len(mods)
  BY SteadySame, SameKept DEF Quiet, TypeInv
<1>3. ASSUME NEW j \in 1..k, j \in DOMAIN stack' PROVE CallOk(stack'[j], mods') /\ stack'[j].op # "execCb"
  <2>1. PICK f : f = stack'[j]
    OBVIOUS
  <2>2. Good(f, Len(mods)) /\ Mild(f)
    BY <1>1, <1>2, <1>3, <2>1 DEF TypeInv, StackOk, Frames
  <2>3. f.op \in {"forceDep", "forced"} => f.h \in Handles /\ mods[f.h].id # << >>
    BY <2>2 DEF Good, Handles, Mild, isDefine
  <2>4. f.op \notin {"enable", "init", "require", "execCb"}
    BY <2>2 DEF Mild, Keys
  <2> QED
    BY <1>2, <2>1, <2>3, <2>4 DEF CallOk, Kept
<1> QED
  BY <1>1, <1>2, <1>3, CallsStep

LEMMA CallsInit == ASSUME TypeInv, TypeInv', CallsInv, DidInit PROVE CallsInv'
<1>1. PICK h \in Handles : Inited(h) /\ At("init")
  BY DEF DidInit
<1>2. Kept /\ Handles' = Handles
  BY <1>1, OnlyKept DEF TypeInv, Inited
<1>3. CbOk(Top.callback) /\ \A g \in Handles : CbOk(mods[g].callback)
  BY <1>1, TopCall, OldCbOk
<1>4. "inited" \in mods'[h].is
  BY <1>1 DEF Inited
<1>5. Steady
  BY <1>1, <1>2, <1>3, <1>4, CallsParts DEF Inited, OnlyMod, Steady, CallMods, isDefine, Is
<1>6. CallOk(stack'[1], mods') /\ stack'[1].op # "execCb" /\ 1 \in DOMAIN stack' /\ Shifted(1)
  BY <1>1, <1>4 DEF CallOk, Inited, enable, check
<1> QED
  BY <1>1, <1>5, <1>6, CallsEasy1

LEMMA CallsEnable == ASSUME TypeInv, TypeInv', CallsInv, DidEnable PROVE CallsInv'
<1>1. PICK h \in Handles : Enabled(h) /\ At("enable")
  BY DEF DidEnable
<1>2. CallOk(Top, mods) /\ Top.op = "enable" /\ Top.h = h
  BY <1>1, TopCall DEF At, Enabled
<1>3. Steady
  BY <1>1, <1>2, SteadyOnly DEF Enabled, CallOk, Is
<1>4. Easy(stack'[1]) /\ 1 \in DOMAIN stack' /\ Shifted(1)
  BY <1>1 DEF Enabled, Easy
<1> QED
  BY <1>1, <1>3, <1>4, EasyOk, CallsEasy1

LEMMA CallsWire == ASSUME TypeInv, TypeInv', CallsInv, DidWire PROVE CallsInv'
<1>1. PICK h \in Handles : WiredAll(h) /\ At("wire")
  BY DEF DidWire
<1>2. Steady
  BY <1>1, SteadyOnly, CallsParts DEF WiredAll, CallMods, isDefine, Is
<1>3. Easy(stack'[1]) /\ 1 \in DOMAIN stack' /\ Shifted(1)
  BY <1>1 DEF WiredAll, Easy, check
<1> QED
  BY <1>1, <1>2, <1>3, EasyOk, CallsEasy1

LEMMA CallsServe == ASSUME TypeInv, TypeInv', CallsInv, DidServe PROVE CallsInv'
<1>1. PICK h \in Handles, i \in Nat : Served(h, i) /\ At("wire")
  BY DEF DidServe
<1>2. Steady
  BY <1>1, SteadySame DEF Served
<1>3. Easy(stack'[1]) /\ 1 \in DOMAIN stack' /\ Shifted(1)
  BY <1>1 DEF Served, Easy, WireNext
<1> QED
  BY <1>1, <1>2, <1>3, EasyOk, CallsEasy1

LEMMA EnableOk ==
  ASSUME NEW g, NEW ms, ms[g].id # << >> PROVE CallOk(enable(g), ms) /\ enable(g).op # "execCb"
BY DEF CallOk, enable

LEMMA WireNextOk == ASSUME NEW h, NEW i, NEW ms PROVE CallOk(WireNext(h, i), ms) /\ WireNext(h, i).op # "execCb"
BY DEF CallOk, WireNext

LEMMA CallsTake == ASSUME TypeInv, TypeInv', CallsInv, DidTake PROVE CallsInv'
<1>1. PICK h \in Handles, i \in Nat : Taken(h, i) /\ At("wire")
  BY DEF DidTake
<1>2. Steady
  BY <1>1, SteadyOnly, CallsParts DEF Taken, CallMods, isDefine, Is
<1>3. CASE Shifted(1) /\ 1 \in DOMAIN stack' /\ stack'[1] = WireNext(h, i)
  BY <1>1, <1>2, <1>3, WireNextOk, CallsEasy1
<1>4. CASE /\ Shifted(2) /\ {1, 2} \subseteq DOMAIN stack' /\ stack'[2] = WireNext(h, i)
           /\ \E g \in Handles : g = Lookup(mods[h].deps[i]) /\ stack'[1] = enable(g)
  <2>1. PICK g \in Handles : g = Lookup(mods[h].deps[i]) /\ stack'[1] = enable(g)
    BY <1>4
  <2>2. g # 0 /\ mods[h].deps[i] # << >>
    BY <1>1, RequireAssumption DEF Taken, AtDep, Handles
  <2>3. mods[g].id # << >>
    BY <2>1, <2>2, LookupFacts DEF TypeInv
  <2>4. mods'[g].id # << >>
    BY <1>2, <2>3 DEF Steady, Kept
  <2> QED
    BY <1>1, <1>2, <1>4, <2>1, <2>4, EnableOk, WireNextOk, CallsEasy1
<1> QED
  BY <1>1, <1>3, <1>4 DEF Taken

LEMMA CallsListen == ASSUME TypeInv, TypeInv', CallsInv, DidListen PROVE CallsInv'
<1>1. PICK h \in Handles, i \in Nat, g \in Nat : Listening(h, i, g) /\ At("wire")
  BY DEF DidListen
<1>2. Kept
  <2>0. Handles' = DOMAIN mods'
    BY DEF TypeInv, ModsOk, Handles
  <2>1. \A x \in Handles : x \in DOMAIN mods'
    BY <1>1, <2>0 DEF Listening
  <2> QED
    BY <1>1, <2>1 DEF Listening, Kept
<1>3. mods'[g].id # << >>
  <2>1. mods[h].deps[i] # << >>
    <3>1. mods[h].deps[i] \in Ids
      BY <1>1 DEF Listening, AtDep
    <3> QED
      BY <3>1, RequireAssumption
  <2> QED
    BY <1>1, <2>1 DEF Listening
<1>4. \A x \in Handles : mods'[x].is = mods[x].is /\ mods'[x].callback = mods[x].callback
  BY <1>1 DEF Listening
<1>5. \A x \in Handles' : x \notin Handles => mods'[x].is = {} /\ mods'[x].callback = NONE
  BY <1>1 DEF Listening
<1>6. Steady
  BY <1>2, <1>4, <1>5, SteadyAdded
<1>7. \/ Shifted(1) /\ 1 \in DOMAIN stack' /\ stack'[1] = WireNext(h, i)
      \/ /\ Shifted(2) /\ {1, 2} \subseteq DOMAIN stack' /\ stack'[1] = enable(g)
         /\ stack'[2] = WireNext(h, i)
  BY <1>1 DEF Listening
<1> QED
  BY <1>1, <1>3, <1>6, <1>7, EnableOk, WireNextOk, CallsEasy1

LEMMA CallsFetch == ASSUME TypeInv, TypeInv', CallsInv, DidFetch PROVE CallsInv'
<1>1. PICK h \in Handles : Fetching(h) /\ At("check")
  BY DEF DidFetch
<1>2. Steady
  BY <1>1, SteadyOnly, CallsParts DEF Fetching, CallMods, isDefine, Is
<1>3. mods'[h].id # << >>
  BY <1>1, <1>2 DEF Fetching, isDefine, Steady, Kept
<1>4. Shifted(0) \/ (Shifted(1) /\ 1 \in DOMAIN stack' /\ CallOk(stack'[1], mods') /\ stack'[1].op # "execCb")
  BY <1>1, <1>3 DEF Fetching, CallOk, require
<1> QED
  BY <1>1, <1>2, <1>4, CallsEasy1

LEMMA CallsStart == ASSUME TypeInv, TypeInv', CallsInv, DidStart PROVE CallsInv'
<1>1. PICK h \in Handles : Starting(h) /\ At("check")
  BY DEF DidStart
<1>2. Steady
  BY <1>1, SteadyOnly, CallsParts DEF Starting, CallMods, isDefine, Is
<1>3. Came(2, 1 - 2, 1)
  BY <1>1, CameAt DEF Starting
<1>4. \A j \in 1..2 : j = 1 \/ j = 2
  OBVIOUS
<1>5. /\ stack'[1].op = "execCb" /\ stack'[2].op = "define" /\ stack'[1].h = h /\ stack'[2].h = h
      /\ 2 \in DOMAIN stack' /\ CallOk(stack'[1], mods') /\ CallOk(stack'[2], mods')
  BY <1>1 DEF Starting, CallOk
<1>6. CallFrames'
  <2>1. Kept /\ \A g \in Handles : Is(g, "inited") => "inited" \in mods'[g].is
    BY <1>2 DEF Steady
  <2> QED
    BY <2>1, <1>3, <1>4, <1>5, CallsGo
<1>7. CallMods'
  BY <1>2, CallsSteady
<1>8. Returning'
  <2>1. 1 + 1 = 2
    OBVIOUS
  <2> QED
    BY <1>3, <1>4, <1>5, <2>1, CallsParts, ReturningGoes
<1> QED
  BY <1>6, <1>7, <1>8, CallsParts1

LEMMA CallsExec == ASSUME TypeInv, TypeInv', CallsInv, DidExec PROVE CallsInv'
<1>1. PICK h \in Handles : Executed(h) /\ At("execCb")
  BY DEF DidExec
<1>2. Steady
  BY <1>1, SteadySame DEF Executed
<1>4. Shifted(0) \/ (Shifted(1) /\ 1 \in DOMAIN stack' /\ CallOk(stack'[1], mods') /\ stack'[1].op # "execCb")
  BY <1>1 DEF Executed, CallOk, require
<1> QED
  BY <1>1, <1>2, <1>4, CallsEasy1

LEMMA CallsThrow == ASSUME TypeInv, TypeInv', CallsInv, DidThrow PROVE CallsInv'
<1>1. PICK h \in Handles : Thrown(h) /\ At("execCb")
  BY DEF DidThrow
<1>2. Steady
  BY <1>1, SteadySame DEF Thrown
<1>3. \/ Came(0, 0, 0)
      \/ Came(1, 1, 2) /\ 1 \in DOMAIN stack' /\ stack'[1].op = "onError"
  BY <1>1, CameThrown DEF At, TypeInv
<1>4. CASE Came(0, 0, 0)
  BY <1>2, <1>4, CallsStep
<1>5. CASE Came(1, 1, 2) /\ 1 \in DOMAIN stack' /\ stack'[1].op = "onError"
  <2>1. Easy(stack'[1])
    BY <1>5 DEF Easy
  <2>2. \A j \in 1..1 : j = 1
    OBVIOUS
  <2> QED
    BY <1>2, <1>5, <2>1, <2>2, EasyOk, CallsStep
<1> QED
  BY <1>3, <1>4, <1>5

LEMMA CallsCall == ASSUME TypeInv, TypeInv', CallsInv, DidCall PROVE CallsInv'
<1>1. PICK h \in Handles : CalledBack(h) /\ At("execCb")
  BY DEF DidCall
<1> QED
  BY <1>1, SteadySame, CallsEasy1 DEF CalledBack

LEMMA CallsDefine == ASSUME TypeInv, TypeInv', CallsInv, DidDefine PROVE CallsInv'
<1>1. PICK h \in Handles : DefinedNow(h) /\ At("define")
  BY DEF DidDefine
<1>2. Steady
  BY <1>1, SteadyOnly, CallsParts DEF DefinedNow, CallMods, isDefine, Is
<1>3. Shifted(0) \/ (Shifted(1) /\ 1 \in DOMAIN stack' /\ Easy(stack'[1]))
  BY <1>1 DEF DefinedNow, Easy
<1> QED
  BY <1>1, <1>2, <1>3, EasyOk, CallsEasy1

LEMMA CallsNotify == ASSUME TypeInv, TypeInv', CallsInv, DidNotify PROVE CallsInv'
<1>1. PICK h \in Handles : Emitting(h) /\ At("notify")
  BY DEF DidNotify
<1>2. Steady
  BY <1>1, SteadyOnly, CallsParts DEF Emitting, CallMods, isDefine, Is
<1>3. Shifted(1) /\ 1 \in DOMAIN stack' /\ Easy(stack'[1])
  BY <1>1 DEF Emitting, Easy
<1> QED
  BY <1>1, <1>2, <1>3, EasyOk, CallsEasy1

LEMMA CallsEmitted == ASSUME TypeInv, TypeInv', CallsInv, DidEmitted PROVE CallsInv'
<1>1. PICK h \in Handles : ToldAll(h) /\ At("emit")
  BY DEF DidEmitted
<1>2. Steady
  BY <1>1, SteadyOnly, CallsParts DEF ToldAll, CallMods, isDefine, Is
<1> QED
  BY <1>1, <1>2, CallsEasy1 DEF ToldAll

LEMMA CallsEmit == ASSUME TypeInv, TypeInv', CallsInv, DidEmit PROVE CallsInv'
<1>1. PICK h \in Handles, k \in Nat, i \in Nat, l \in Handles : Told(h, k, l, i) /\ At("emit")
  BY DEF DidEmit
<1>2. Steady
  BY <1>1, SteadyOnly, CallsParts DEF Told, CallMods, isDefine, Is
<1>3. Shifted(2) /\ {1, 2} \subseteq DOMAIN stack' /\ Easy(stack'[1]) /\ Easy(stack'[2])
  BY <1>1 DEF Told, Easy, check
<1> QED
  BY <1>1, <1>2, <1>3, EasyOk, CallsEasy1

LEMMA FoundSteady ==
  ASSUME TypeInv, CallsInv, NEW id, NEW h, Found(id, h), Kept PROVE Steady
<1>1. \A g \in Handles : mods'[g].is = mods[g].is /\ mods'[g].callback = mods[g].callback
  BY DEF Found
<1>2. \A g \in Handles' : g \notin Handles => mods'[g].is = {} /\ mods'[g].callback = NONE
  BY DEF Found, NewMod, Handles
<1> QED
  BY <1>1, <1>2, SteadyAdded

LEMMA CallsPull ==
  ASSUME TypeInv, TypeInv', CallsInv, NEW op, At(op), NEW id, NEW h, NEW deps, NEW g, Pulling(id, h, deps, g),
         CallOk(g, mods'), g.op # "execCb"
  PROVE  CallsInv'
<1>1. Steady
  BY FoundSteady DEF Pulling
<1>2. Shifted(2) /\ {1, 2} \subseteq DOMAIN stack' /\ stack'[2] = g /\ stack'[1] = init(h, deps, NONE, NONE, FALSE)
  BY DEF Pulling
<1>3. CallOk(stack'[1], mods') /\ stack'[1].op # "execCb"
  BY <1>2 DEF CallOk, init
<1> QED
  BY <1>1, <1>2, <1>3, CallsEasy1

LEMMA CallsQueue == ASSUME TypeInv, TypeInv', CallsInv, DidQueue PROVE CallsInv'
<1>1. CASE \E i \in Sourced : Pulls("require", i, Top)
  <2>1. PICK i \in Sourced, h \in Handles' : Pulling(i, h, DepNames[i], Top) /\ At("require")
    BY <1>1 DEF Pulls
  <2>2. Steady
    BY <2>1, FoundSteady DEF Pulling
  <2>3. PICK f : f = Top
    OBVIOUS
  <2>4. CallOk(f, mods) /\ Good(f, Len(mods)) /\ f.op # "execCb"
    BY <2>1, <2>3, TopCall DEF At
  <2>5. CallOk(f, mods')
    BY <2>2, <2>4, CallKept DEF TypeInv, Steady
  <2> QED
    BY <2>1, <2>3, <2>4, <2>5, CallsPull
<1>2. CASE \E i \in Sourced : Pulls("complete", i, NextComplete(i))
  <2>1. PICK i \in Sourced, h \in Handles' : Pulling(i, h, DepNames[i], NextComplete(i)) /\ At("complete")
    BY <1>2 DEF Pulls
  <2>2. Easy(NextComplete(i))
    BY DEF NextComplete, Easy
  <2> QED
    BY <2>1, <2>2, EasyOk, CallsPull
<1> QED
  BY <1>1, <1>2 DEF DidQueue

LEMMA CallsEnd == ASSUME TypeInv, TypeInv', CallsInv, DidEnd PROVE CallsInv'
<1>1. At("complete") /\ QueueDone
  BY DEF DidEnd
<1>2. Easy(stack'[1]) /\ Shifted(1) /\ 1 \in DOMAIN stack' /\ UNCHANGED mods
  BY <1>1 DEF QueueDone, Easy
<1> QED
  BY <1>1, <1>2, SteadySame, EasyOk, CallsEasy1

LEMMA CallsGive == ASSUME TypeInv, TypeInv', CallsInv, DidGive PROVE CallsInv'
<1>1. PICK id \in Ids, h \in Handles' : Pulling(id, h, ShimDeps(id), checkLoaded) /\ At("completed")
  BY DEF DidGive, Given
<1>2. Easy(checkLoaded)
  BY DEF Easy, checkLoaded
<1> QED
  BY <1>1, <1>2, EasyOk, CallsPull

LEMMA CallsRequire == ASSUME TypeInv, TypeInv', CallsInv, DidRequire PROVE CallsInv'
<1>1. PICK h \in Handles' : NewRequire(h) /\ At("require")
  BY DEF DidRequire
<1>2. Kept /\ h \notin Handles /\ Handles' = Handles \cup {h}
  BY <1>1 DEF NewRequire
<1>3. Steady
  BY <1>1, <1>2, SteadyAdded DEF NewRequire
<1>4. CbOk(Top.callback)
  BY <1>1, TopCall
<1>5. PICK c : c = Top.callback
  OBVIOUS
<1>6. c # NONE /\ c[1] = "load" => mods'[c[2]].id # << >>
  BY <1>2, <1>4, <1>5 DEF CbOk, Kept
<1>7. /\ Shifted(2) /\ {1, 2} \subseteq DOMAIN stack' /\ stack'[2] = checkLoaded
      /\ stack'[1] = init(h, Top.deps, c, Top.errback, TRUE)
  BY <1>1, <1>5 DEF NewRequire
<1>8. CallOk(stack'[1], mods') /\ stack'[1].op # "execCb"
  BY <1>6, <1>7 DEF CallOk, init
<1>9. Easy(stack'[2])
  BY <1>7 DEF Easy, checkLoaded
<1> QED
  BY <1>1, <1>3, <1>7, <1>8, <1>9, EasyOk, CallsEasy1

LEMMA CallsForce == ASSUME TypeInv, TypeInv', CallsInv, DidForce PROVE CallsInv'
<1>1. PICK h \in Handles, i \in Nat : ForcedDep(h, i) /\ At("forced")
  BY DEF DidForce
<1>2. Steady
  BY <1>1, SteadyOnly, CallsParts DEF ForcedDep, CallMods, isDefine, Is
<1>3. mods'[h].id # << >>
  BY <1>1, <1>2 DEF ForcedDep, isDefine, Steady, Kept
<1>4. Shifted(1) /\ 1 \in DOMAIN stack' /\ CallOk(stack'[1], mods') /\ stack'[1].op # "execCb"
  BY <1>1, <1>3 DEF ForcedDep, CallOk
<1> QED
  BY <1>1, <1>2, <1>4, CallsEasy1

LEMMA CallsMove == ASSUME TypeInv, TypeInv', CallsInv, DidMove PROVE CallsInv'
<1>1. PICK id \in Ids : MovedAway(id)
  BY DEF DidMove
<1>2. /\ UNCHANGED mods /\ stack # << >> /\ 1 \in DOMAIN stack' /\ stack'[1] = require(<< id >>, NONE, NONE, NONE)
      /\ Shifted(1) \/ (Shifted(2) /\ 2 \in DOMAIN stack' /\ Mild(stack'[2]))
  BY <1>1 DEF MovedAway
<1>3. PICK op : At(op)
  BY <1>2, TopGood DEF At, TypeInv
<1>4. CallOk(stack'[1], mods') /\ stack'[1].op # "execCb"
  BY <1>2 DEF CallOk, require
<1>5. Mild(stack'[2]) => CallOk(stack'[2], mods') /\ stack'[2].op # "execCb"
  BY <1>2 DEF Mild, Keys, CallOk, isDefine
<1> QED
  BY <1>2, <1>3, <1>4, <1>5, SteadySame, CallsEasy1

LEMMA CallsAsk == ASSUME TypeInv, TypeInv', CallsInv, DidAsk PROVE CallsInv'
<1>1. PICK r \in Requires : Asking(r)
  BY DEF DidAsk
<1>2. PICK eb : stack'[1] = require(AskedNames[r], NONE, << "user", r >>, eb)
  BY <1>1 DEF Asking
<1>3. CallOk(stack'[1], mods') /\ stack'[1].op # "execCb"
  BY <1>2 DEF CallOk, require
<1> QED
  BY <1>1, <1>3, CallsFirst DEF Asking

LEMMA CallsLoad == ASSUME TypeInv, TypeInv', CallsInv, DidLoad \/ DidFail PROVE CallsInv'
<1>1. PICK s \in scripts : Loaded(s) \/ Failing(s)
  BY DEF DidLoad, DidFail
<1>2. Easy(stack'[1])
  BY <1>1 DEF Loaded, Failing, Easy
<1> QED
  BY <1>1, <1>2, EasyOk, CallsFirst DEF Loaded, Failing

LEMMA CallsRun == ASSUME TypeInv, TypeInv', CallsInv, DidRun PROVE CallsInv'
<1>1. PICK s \in scripts : Running(s)
  BY DEF DidRun
<1>2. UNCHANGED << mods, stack >>
  BY <1>1 DEF Running
<1> QED
  BY <1>2 DEF CallsInv, ForceOk, Frames, isDefine, Is, Handles

LEMMA CallsKept == ASSUME TypeInv, TypeInv', CallsInv, Did PROVE CallsInv'
BY CallsQuiet, CallsInit, CallsEnable, CallsWire, CallsServe, CallsTake, CallsListen, CallsFetch,
   CallsStart,
   CallsExec, CallsThrow, CallsCall, CallsDefine, CallsNotify, CallsEmitted, CallsEmit, CallsQueue, CallsEnd,
   CallsGive, CallsRequire, CallsForce, CallsMove, CallsAsk, CallsLoad, CallsRun DEF Did

(* At first no path has moved. *)
LEMMA FirstPaths == Paths \in MovedPaths
<1>1. ASSUME NEW p \in DOMAIN Paths PROVE Paths[p] \in Rests(p)
  <2>1. PICK s : s = Paths[p]
    OBVIOUS
  <2>2. s \in Seq(Names) /\ s # << >>
    BY <2>1, RequireAssumption
  <2>3. Len(s) \in Nat \ {0}
    BY <2>2
  <2>4. SubSeq(s, 1, Len(s)) = s
    BY <2>2, <2>3
  <2>5. 1 \in 1..Len(Paths[p]) /\ Paths[p] = SubSeq(Paths[p], 1, Len(Paths[p]))
    BY <2>1, <2>3, <2>4
  <2> QED
    BY <2>5 DEF Rests
<1> QED
  BY <1>1, RequireAssumption DEF MovedPaths

(* The first state. *)
LEMMA Begins == Init => TypeInv /\ CallsInv
<1> SUFFICES ASSUME Init PROVE TypeInv /\ CallsInv
  OBVIOUS
<1>1. /\ mods = << >> /\ stack = << >> /\ registry = << >> /\ Len(mods) = 0 /\ Handles = {}
      /\ DOMAIN stack = {} /\ DOMAIN registry = {} /\ Frames = {}
  BY DEF Init, Handles, Frames
<1>2. ModsOk /\ StackOk
  <2>1. << >> \in Seq(Mod(0)) /\ << >> \in Seq({})
    OBVIOUS
  <2> QED
    BY <1>1, <2>1 DEF ModsOk, StackOk, IsSeq
<1>3. NamesOk /\ WaitOk
  BY <1>1, FirstPaths DEF Init, NamesOk, WaitOk
<1>4. PageOk
  <2>1. {inCheckLoaded, timer, expired, useInteractive} \subseteq BOOLEAN /\ issued \in Nat
    BY RequireAssumption DEF Init
  <2>2. scripts = {} /\ traced \in Seq(Handles)
    BY DEF Init
  <2> QED
    BY <2>1, <2>2 DEF PageOk
<1>4a. SeenOk
  BY DEF Init, SeenOk
<1>5. QueueInv
  BY <1>1 DEF Init, QueueInv
<1>6. RegInv /\ InitFrames /\ CallsInv
  BY <1>1 DEF RegInv, InitFrames, CallsInv, ForceOk
<1> QED
  BY <1>2, <1>3, <1>4, <1>4a, <1>5, <1>6 DEF TypeInv

(* The types of the run are those of the proof. *)
LEMMA Typed == TypeInv => TypeOK
<1> SUFFICES ASSUME TypeInv PROVE TypeOK
  OBVIOUS
<1>1. registry \in Seq(Handles) /\ waitAry \in Seq(Handles)
  BY DEF TypeInv, RegInv, WaitOk
<1>2. defined \subseteq Names \ {<< >>}
  BY RequireAssumption DEF TypeInv, NamesOk
<1> QED
  BY <1>1, <1>2 DEF TypeInv, WaitOk, PageOk, SeenOk, TypeOK

(* A script under way answers for one Module only, as its place belongs to one module. *)
LEMMA OwnScripts == OwnPlaces /\ TypeInv => OneModulePerScript
<1> SUFFICES ASSUME OwnPlaces, TypeInv, NEW j \in DOMAIN registry, NEW k \in DOMAIN registry, j # k,
                    isDefine(registry[j]), isDefine(registry[k])
             PROVE  mods[registry[j]].url # mods[registry[k]].url
  BY DEF OneModulePerScript
<1>1. PICK g \in Handles, h \in Handles : g = registry[j] /\ h = registry[k]
  BY DEF TypeInv, RegInv
<1>2. mods[g].id # mods[h].id /\ mods[g].url \in Places(mods[g].id) /\ mods[h].url \in Places(mods[h].id)
  BY <1>1 DEF TypeInv, RegInv
<1>3. mods[g].id \in Ids /\ mods[h].id \in Ids
  BY <1>1, HandleFacts, ModFields DEF TypeInv, isDefine
<1> QED
  BY <1>1, <1>2, <1>3 DEF OwnPlaces

(* Every variable of the loader keeps its type, a Module is looked up by one id, the queue of
   define holds what the scripts have put there, and execCb returns to the check that made it
   (Module.check, callGetModule, takeGlobalQueue). *)
THEOREM LoaderTyped == OwnPlaces => (Spec => [](TypeInv /\ CallsInv))
<1> SUFFICES ASSUME OwnPlaces PROVE Spec => [](TypeInv /\ CallsInv)
  OBVIOUS
<1>1. TypeInv /\ CallsInv /\ [Next]_vars => (TypeInv /\ CallsInv)'
  BY Doing, CallsKept
<1> QED
  BY <1>1, Begins, PTL DEF Spec

(* TypeOK, the types that the run checks. *)
THEOREM LoaderTypeOK == OwnPlaces => (Spec => []TypeOK)
<1> SUFFICES ASSUME OwnPlaces PROVE Spec => []TypeOK
  OBVIOUS
<1> QED
  BY LoaderTyped, Typed, PTL

(* No script that is under way can answer for two modules (nameToUrl, urlFetched,
   completeLoad), when the page gives every module places of its own. *)
THEOREM OneScriptEach == OwnPlaces => (Spec => []OneModulePerScript)
<1> SUFFICES ASSUME OwnPlaces PROVE Spec => []OneModulePerScript
  OBVIOUS
<1>1. TypeInv => OneModulePerScript
  BY OwnScripts
<1> QED
  BY <1>1, LoaderTyped, PTL

(* A call of define is for a module that is being defined, one for each    *)
Defines(j, h) == stack[j].op = "define" /\ stack[j].h = h
Ready(m) == {"inited", "enabled", "defining"} \subseteq m.is /\ "defined" \notin m.is
FlagInv ==
  /\ \A j \in DOMAIN stack : stack[j].op = "define" => Ready(mods[stack[j].h])
  /\ \A i, j \in DOMAIN stack :
       stack[i].op = "define" /\ stack[j].op = "define" /\ stack[i].h = stack[j].h => i = j
  /\ \A h \in Handles : /\ Is(h, "enabled") => Is(h, "waitPushed")
                        /\ Is(h, "defined") => Is(h, "enabled") /\ Is(h, "inited")

FlagsFit ==
  \A h \in Handles' :
    /\ "enabled" \in mods'[h].is => "waitPushed" \in mods'[h].is
    /\ "defined" \in mods'[h].is => {"enabled", "inited"} \subseteq mods'[h].is

(* FlagInv after a step, from what becomes of the calls of define. *)
LEMMA FlagStep ==
  ASSUME TypeInv, FlagInv, FlagsFit, NEW k, NEW d, NEW b, Came(k, d, b),
         \A j \in DOMAIN stack : j > b /\ stack[j].op = "define" => Ready(mods'[stack[j].h]),
         \A j \in 1..k : j \in DOMAIN stack' /\ stack'[j].op = "define" =>
           /\ Ready(mods'[stack'[j].h])
           /\ \A i \in DOMAIN stack : stack[i].op = "define" => stack[i].h # stack'[j].h
           /\ \A i \in 1..k : i \in DOMAIN stack' /\ stack'[i].op = "define" => i = j
  PROVE  FlagInv'
<1>0. k \in Nat /\ d \in Int /\ \A j \in DOMAIN stack' : j \in Nat \ {0}
  BY DEF Came
<1>1. \A j \in DOMAIN stack' : j > k => j + d \in DOMAIN stack /\ j + d > b /\ stack'[j] = stack[j + d]
  BY DEF Came
<1>2. \A j \in DOMAIN stack' : j <= k => j \in 1..k
  BY <1>0
<1>3. ASSUME NEW j \in DOMAIN stack', stack'[j].op = "define" PROVE Ready(mods'[stack'[j].h])
  BY <1>0, <1>1, <1>2, <1>3
<1>4. ASSUME NEW i \in DOMAIN stack', NEW j \in DOMAIN stack', stack'[i].op = "define", stack'[j].op = "define",
             stack'[i].h = stack'[j].h
      PROVE  i = j
  <2>1. CASE i > k /\ j > k
    <3>1. i + d = j + d
      BY <1>1, <1>4, <2>1 DEF FlagInv
    <3> QED
      BY <1>0, <3>1
  <2>2. CASE i <= k /\ j > k
    BY <1>1, <1>2, <1>4, <2>2
  <2>3. CASE i > k /\ j <= k
    BY <1>1, <1>2, <1>4, <2>3
  <2>4. CASE i <= k /\ j <= k
    BY <1>2, <1>4, <2>4
  <2> QED
    BY <1>0, <2>1, <2>2, <2>3, <2>4
<1> QED
  BY <1>3, <1>4 DEF FlagInv, Ready, FlagsFit, Is

(* Calls of define go on when their module keeps what it needs             *)
LEMMA FlagStill ==
  ASSUME TypeInv, FlagInv, FlagsFit, NEW k, NEW d, NEW b, Came(k, d, b),
         \A h \in Handles : Ready(mods[h]) => Ready(mods'[h]),
         \A j \in 1..k : j \in DOMAIN stack' => stack'[j].op # "define"
  PROVE  FlagInv'
<1>1. ASSUME NEW j \in DOMAIN stack, stack[j].op = "define" PROVE Ready(mods'[stack[j].h])
  <2>1. stack[j].h \in Handles
    BY <1>1 DEF TypeInv, StackOk, Frames, Good, Handles
  <2> QED
    BY <1>1, <2>1 DEF FlagInv
<1> QED
  BY <1>1, FlagStep

(* What a step does to the calls on top                                    *)
Puts(n) == Shifted(n) /\ \A j \in 1..n : j \in DOMAIN stack' => stack'[j].op # "define"

LEMMA FlagAt ==
  ASSUME TypeInv, FlagInv, FlagsFit, NEW op, At(op), NEW n \in Nat, Puts(n),
         \A h \in Handles : Ready(mods[h]) => Ready(mods'[h])
  PROVE  FlagInv'
<1>1. Came(n, 1 - n, 1)
  BY CameAt DEF Puts
<1> QED
  BY <1>1, FlagStill DEF Puts

LEMMA Puts0 == ASSUME Shifted(0) PROVE Puts(0)
BY DEF Puts
LEMMA Puts1 ==
  ASSUME Shifted(1), stack'[1].op # "define" PROVE Puts(1)
<1>1. \A j \in 1..1 : j = 1
  OBVIOUS
<1> QED
  BY <1>1 DEF Puts
LEMMA Puts2 ==
  ASSUME Shifted(2), stack'[1].op # "define", stack'[2].op # "define" PROVE Puts(2)
<1>1. \A j \in 1..2 : j = 1 \/ j = 2
  OBVIOUS
<1> QED
  BY <1>1 DEF Puts

(* The flags that a step gives to one Module                               *)
LEMMA FlagsOnly ==
  ASSUME TypeInv, TypeInv', FlagInv, NEW h \in Handles, OnlyMod(h), SameRest(h),
         "enabled" \in mods'[h].is => "waitPushed" \in mods'[h].is,
         "defined" \in mods'[h].is => {"enabled", "inited"} \subseteq mods'[h].is
  PROVE  FlagsFit
<1>1. Handles' = Handles
  BY OnlyKept DEF TypeInv
<1> QED
  BY <1>1 DEF FlagsFit, FlagInv, OnlyMod, Is

SameIs == \A h \in Handles : mods'[h].is = mods[h].is
NewEmpty == \A h \in Handles' : h \notin Handles => mods'[h].is = {}
LEMMA FlagsSame ==
  ASSUME FlagInv, SameIs, NewEmpty
  PROVE  FlagsFit /\ \A h \in Handles : Ready(mods[h]) => Ready(mods'[h])
BY DEF FlagsFit, FlagInv, SameIs, NewEmpty, Ready, Is

LEMMA FlagsAlike ==
  ASSUME TypeInv, FlagInv, SameMods
  PROVE  FlagsFit /\ \A h \in Handles : Ready(mods[h]) => Ready(mods'[h])
<1>1. Handles' = Handles
  BY SameKept DEF TypeInv
<1>2. \A h \in Handles : \A f \in {"enabled", "inited", "waitPushed", "defined", "defining"} :
        f \in mods'[h].is <=> f \in mods[h].is
  BY DEF SameMods, Flags
<1> QED
  BY <1>1, <1>2 DEF FlagsFit, FlagInv, Ready, Is

LEMMA OpOf == \A h, i : WireNext(h, i).op = "wire" /\ enable(h).op = "enable"
BY DEF WireNext, enable

(* FlagInv, step by step. *)
LEMMA FlagQuiet == ASSUME TypeInv, TypeInv', FlagInv, Quiet PROVE FlagInv'
<1>1. PICK k \in Nat, b \in Nat, d \in Int : Came(k, d, b) /\ \A j \in 1..k : j \in DOMAIN stack' => Mild(stack'[j])
  BY CameQuiet
<1>2. \A j \in 1..k : j \in DOMAIN stack' => stack'[j].op # "define"
  BY <1>1 DEF Mild, Keys
<1>3. FlagsFit /\ \A h \in Handles : Ready(mods[h]) => Ready(mods'[h])
  BY FlagsAlike DEF Quiet
<1> QED
  BY <1>1, <1>2, <1>3, FlagStill

LEMMA FlagInit == ASSUME TypeInv, TypeInv', FlagInv, DidInit PROVE FlagInv'
<1>1. PICK h \in Handles : Inited(h) /\ At("init")
  BY DEF DidInit
<1>2. FlagsFit
  BY <1>1, FlagsOnly DEF Inited, FlagInv, Is
<1>3. \A g \in Handles : Ready(mods[g]) => Ready(mods'[g])
  BY <1>1 DEF Inited, OnlyMod, Ready
<1>4. Puts(1)
  BY <1>1, Puts1 DEF Inited, enable, check
<1> QED
  BY <1>1, <1>2, <1>3, <1>4, FlagAt

LEMMA FlagEnable == ASSUME TypeInv, TypeInv', FlagInv, DidEnable PROVE FlagInv'
<1>1. PICK h \in Handles : Enabled(h) /\ At("enable")
  BY DEF DidEnable
<1>2. FlagsFit
  BY <1>1, FlagsOnly DEF Enabled, FlagInv, Is
<1>3. \A g \in Handles : Ready(mods[g]) => Ready(mods'[g])
  BY <1>1 DEF Enabled, OnlyMod, Ready
<1>4. Puts(1)
  BY <1>1, Puts1 DEF Enabled
<1> QED
  BY <1>1, <1>2, <1>3, <1>4, FlagAt

LEMMA FlagWire == ASSUME TypeInv, TypeInv', FlagInv, DidWire PROVE FlagInv'
<1>1. PICK h \in Handles : WiredAll(h) /\ At("wire")
  BY DEF DidWire
<1>2. FlagsFit
  BY <1>1, FlagsOnly DEF WiredAll, FlagInv, Is
<1>3. \A g \in Handles : Ready(mods[g]) => Ready(mods'[g])
  BY <1>1 DEF WiredAll, OnlyMod, Ready
<1>4. Puts(1)
  BY <1>1, Puts1 DEF WiredAll, check
<1> QED
  BY <1>1, <1>2, <1>3, <1>4, FlagAt

LEMMA FlagKept ==
  ASSUME TypeInv, FlagInv, SameIs, NewEmpty, NEW op, At(op), NEW n \in Nat, Puts(n)
  PROVE  FlagInv'
BY FlagsSame, FlagAt

LEMMA UnchangedIs == ASSUME UNCHANGED mods PROVE SameIs /\ NewEmpty
BY DEF SameIs, NewEmpty, Handles

LEMMA OnlyIs ==
  ASSUME TypeInv, TypeInv', NEW h \in Handles, OnlyMod(h), SameRest(h), mods'[h].is = mods[h].is
  PROVE  SameIs /\ NewEmpty
BY OnlyKept DEF SameIs, NewEmpty, OnlyMod, TypeInv

LEMMA FlagServe == ASSUME TypeInv, TypeInv', FlagInv, DidServe PROVE FlagInv'
<1>1. PICK h \in Handles, i \in Nat : Served(h, i) /\ At("wire")
  BY DEF DidServe
<1>2. SameIs /\ NewEmpty
  BY <1>1, UnchangedIs DEF Served
<1>3. Puts(1)
  BY <1>1, Puts1 DEF Served, WireNext
<1> QED
  BY <1>1, <1>2, <1>3, FlagKept

LEMMA FlagTake == ASSUME TypeInv, TypeInv', FlagInv, DidTake PROVE FlagInv'
<1>1. PICK h \in Handles, i \in Nat : Taken(h, i) /\ At("wire")
  BY DEF DidTake
<1>2. SameIs /\ NewEmpty
  BY <1>1, OnlyIs DEF Taken
<1>3. Puts(1) \/ Puts(2)
  BY <1>1, Puts1, Puts2, OpOf DEF Taken
<1> QED
  BY <1>1, <1>2, <1>3, FlagKept

LEMMA FlagListen == ASSUME TypeInv, TypeInv', FlagInv, DidListen PROVE FlagInv'
<1>1. PICK h \in Handles, i \in Nat, g \in Nat : Listening(h, i, g) /\ At("wire")
  BY DEF DidListen
<1>2. SameIs /\ NewEmpty
  BY <1>1 DEF Listening, SameIs, NewEmpty
<1>3. \/ Shifted(1) /\ stack'[1] = WireNext(h, i)
      \/ Shifted(2) /\ stack'[1] = enable(g) /\ stack'[2] = WireNext(h, i)
  BY <1>1 DEF Listening
<1>4. Puts(1) \/ Puts(2)
  BY <1>3, Puts1, Puts2, OpOf
<1> QED
  BY <1>1, <1>2, <1>4, FlagKept

LEMMA FlagFetch == ASSUME TypeInv, TypeInv', FlagInv, DidFetch PROVE FlagInv'
<1>1. PICK h \in Handles : Fetching(h) /\ At("check")
  BY DEF DidFetch
<1>2. FlagsFit
  BY <1>1, FlagsOnly DEF Fetching, FlagInv, Is
<1>3. \A g \in Handles : Ready(mods[g]) => Ready(mods'[g])
  BY <1>1 DEF Fetching, OnlyMod, Ready
<1>4. Puts(0) \/ Puts(1)
  BY <1>1, Puts0, Puts1 DEF Fetching, require
<1> QED
  BY <1>1, <1>2, <1>3, <1>4, FlagAt

LEMMA FlagStart == ASSUME TypeInv, TypeInv', FlagInv, DidStart PROVE FlagInv'
<1>1. PICK h \in Handles : Starting(h) /\ At("check")
  BY DEF DidStart
<1>2. FlagsFit
  BY <1>1, FlagsOnly DEF Starting, FlagInv, Is
<1>3. \A g \in Handles : Ready(mods[g]) => Ready(mods'[g])
  BY <1>1 DEF Starting, OnlyMod, Ready
<1>4. Came(2, 1 - 2, 1) /\ stack'[1].op = "execCb" /\ stack'[2].op = "define" /\ stack'[2].h = h
  BY <1>1, CameAt DEF Starting
<1>5. Ready(mods'[h])
  BY <1>1 DEF Starting, Ready, Is
<1>6. \A i \in DOMAIN stack : stack[i].op = "define" => stack[i].h # h
  BY <1>1 DEF Starting, FlagInv, Ready, Is
<1>7. \A j \in 1..2 : j = 1 \/ j = 2
  OBVIOUS
<1>8. ASSUME NEW j \in DOMAIN stack, stack[j].op = "define" PROVE Ready(mods'[stack[j].h])
  <2>1. stack[j].h \in Handles
    BY <1>8 DEF TypeInv, StackOk, Frames, Good, Handles
  <2> QED
    BY <1>3, <1>8, <2>1 DEF FlagInv
<1> QED
  BY <1>2, <1>4, <1>5, <1>6, <1>7, <1>8, FlagStep

LEMMA FlagExec == ASSUME TypeInv, TypeInv', FlagInv, DidExec PROVE FlagInv'
<1>1. PICK h \in Handles : Executed(h) /\ At("execCb")
  BY DEF DidExec
<1>2. SameIs /\ NewEmpty
  BY <1>1, UnchangedIs DEF Executed
<1>3. Puts(0) \/ Puts(1)
  BY <1>1, Puts0, Puts1 DEF Executed, require
<1> QED
  BY <1>1, <1>2, <1>3, FlagKept

LEMMA FlagThrow == ASSUME TypeInv, TypeInv', FlagInv, DidThrow PROVE FlagInv'
<1>1. PICK h \in Handles : Thrown(h) /\ At("execCb")
  BY DEF DidThrow
<1>2. FlagsFit /\ \A g \in Handles : Ready(mods[g]) => Ready(mods'[g])
  BY <1>1, FlagsAlike DEF Thrown
<1>3. \/ Came(0, 0, 0)
      \/ Came(1, 1, 2) /\ 1 \in DOMAIN stack' /\ stack'[1].op = "onError"
  BY <1>1, CameThrown DEF At, TypeInv
<1>4. \A j \in 1..1 : j = 1
  OBVIOUS
<1> QED
  BY <1>2, <1>3, <1>4, FlagStill

LEMMA FlagCall == ASSUME TypeInv, TypeInv', FlagInv, DidCall PROVE FlagInv'
<1>1. PICK h \in Handles : CalledBack(h) /\ At("execCb")
  BY DEF DidCall
<1> QED
  BY <1>1, UnchangedIs, Puts0, FlagKept DEF CalledBack

LEMMA FlagDefine == ASSUME TypeInv, TypeInv', FlagInv, DidDefine PROVE FlagInv'
<1>1. PICK h \in Handles : DefinedNow(h) /\ At("define")
  BY DEF DidDefine
<1>2. Top.op = "define" /\ Top.h = h /\ Top = stack[1] /\ 1 \in DOMAIN stack
  BY <1>1 DEF At, DefinedNow
<1>3. Ready(mods[h])
  BY <1>2 DEF FlagInv
<1>4. FlagsFit
  BY <1>1, <1>3, FlagsOnly DEF DefinedNow, FlagInv, Is, Ready
<1>5. PICK n \in {0, 1} : Puts(n)
  BY <1>1, Puts0, Puts1 DEF DefinedNow
<1>6. Came(n, 1 - n, 1)
  BY <1>1, <1>5, CameAt DEF Puts
<1>7. ASSUME NEW j \in DOMAIN stack, j > 1, stack[j].op = "define" PROVE Ready(mods'[stack[j].h])
  <2>1. stack[j].h \in Handles /\ Ready(mods[stack[j].h])
    BY <1>7 DEF TypeInv, StackOk, Frames, Good, Handles, FlagInv
  <2>2. stack[j].h # h
    BY <1>2, <1>7 DEF FlagInv
  <2> QED
    BY <1>1, <2>1, <2>2 DEF DefinedNow, OnlyMod
<1> QED
  BY <1>4, <1>5, <1>6, <1>7, FlagStep DEF Puts

LEMMA FlagNotify == ASSUME TypeInv, TypeInv', FlagInv, DidNotify PROVE FlagInv'
<1>1. PICK h \in Handles : Emitting(h) /\ At("notify")
  BY DEF DidNotify
<1>2. FlagsFit
  BY <1>1, FlagsOnly DEF Emitting, FlagInv, Is
<1>3. \A g \in Handles : Ready(mods[g]) => Ready(mods'[g])
  BY <1>1 DEF Emitting, OnlyMod, Ready
<1>4. Puts(1)
  BY <1>1, Puts1 DEF Emitting
<1> QED
  BY <1>1, <1>2, <1>3, <1>4, FlagAt

LEMMA FlagEmitted == ASSUME TypeInv, TypeInv', FlagInv, DidEmitted PROVE FlagInv'
<1>1. PICK h \in Handles : ToldAll(h) /\ At("emit")
  BY DEF DidEmitted
<1>2. FlagsFit
  BY <1>1, FlagsOnly DEF ToldAll, FlagInv, Is
<1>3. \A g \in Handles : Ready(mods[g]) => Ready(mods'[g])
  BY <1>1 DEF ToldAll, OnlyMod, Ready
<1>4. Puts(0)
  BY <1>1, Puts0 DEF ToldAll
<1> QED
  BY <1>1, <1>2, <1>3, <1>4, FlagAt

LEMMA FlagEmit == ASSUME TypeInv, TypeInv', FlagInv, DidEmit PROVE FlagInv'
<1>1. PICK h \in Handles, k \in Nat, i \in Nat, l \in Handles : Told(h, k, l, i) /\ At("emit")
  BY DEF DidEmit
<1>2. SameIs /\ NewEmpty
  BY <1>1, OnlyIs DEF Told
<1>3. Puts(2)
  BY <1>1, Puts2 DEF Told, check
<1> QED
  BY <1>1, <1>2, <1>3, FlagKept

LEMMA FlagPull ==
  ASSUME TypeInv, FlagInv, NEW op, At(op), NEW id, NEW h, NEW deps, NEW g, Pulling(id, h, deps, g), g.op # "define"
  PROVE  FlagInv'
<1>1. SameIs /\ NewEmpty
  BY DEF Pulling, Found, NewMod, SameIs, NewEmpty, Handles
<1>2. Shifted(2) /\ stack'[1].op # "define" /\ stack'[2].op # "define"
  BY DEF Pulling, init
<1> QED
  BY <1>1, <1>2, Puts2, FlagKept

LEMMA FlagQueue == ASSUME TypeInv, TypeInv', FlagInv, DidQueue PROVE FlagInv'
<1>1. CASE \E i \in Sourced : Pulls("require", i, Top)
  <2>1. PICK i \in Sourced, h \in Handles' : Pulling(i, h, DepNames[i], Top) /\ At("require") /\ Top.op # "define"
    BY <1>1 DEF Pulls, At
  <2> QED
    BY <2>1, FlagPull
<1>2. CASE \E i \in Sourced : Pulls("complete", i, NextComplete(i))
  <2>1. PICK i \in Sourced, h \in Handles' : Pulling(i, h, DepNames[i], NextComplete(i)) /\ At("complete")
    BY <1>2 DEF Pulls
  <2>2. NextComplete(i).op # "define"
    BY DEF NextComplete
  <2> QED
    BY <2>1, <2>2, FlagPull
<1> QED
  BY <1>1, <1>2 DEF DidQueue

LEMMA FlagEnd == ASSUME TypeInv, TypeInv', FlagInv, DidEnd PROVE FlagInv'
<1>1. At("complete") /\ UNCHANGED mods /\ Shifted(1) /\ stack'[1].op # "define"
  BY DEF DidEnd, QueueDone
<1> QED
  BY <1>1, Puts1, UnchangedIs, FlagKept

LEMMA FlagGive == ASSUME TypeInv, TypeInv', FlagInv, DidGive PROVE FlagInv'
<1>1. PICK id \in Ids, h \in Handles' : Pulling(id, h, ShimDeps(id), checkLoaded) /\ At("completed")
  BY DEF DidGive, Given
<1>2. checkLoaded.op # "define"
  BY DEF checkLoaded
<1> QED
  BY <1>1, <1>2, FlagPull

LEMMA FlagRequire == ASSUME TypeInv, TypeInv', FlagInv, DidRequire PROVE FlagInv'
<1>1. PICK h \in Handles' : NewRequire(h) /\ At("require")
  BY DEF DidRequire
<1>2. SameIs /\ NewEmpty
  BY <1>1 DEF NewRequire, SameIs, NewEmpty
<1>3. Shifted(2) /\ stack'[1].op # "define" /\ stack'[2].op # "define"
  BY <1>1 DEF NewRequire, init, checkLoaded
<1> QED
  BY <1>1, <1>2, <1>3, Puts2, FlagKept

LEMMA FlagForce == ASSUME TypeInv, TypeInv', FlagInv, DidForce PROVE FlagInv'
<1>1. PICK h \in Handles, i \in Nat : ForcedDep(h, i) /\ At("forced")
  BY DEF DidForce
<1>2. SameIs /\ NewEmpty
  BY <1>1, OnlyIs DEF ForcedDep
<1>3. Puts(1)
  BY <1>1, Puts1 DEF ForcedDep
<1> QED
  BY <1>1, <1>2, <1>3, FlagKept

LEMMA FlagMove == ASSUME TypeInv, TypeInv', FlagInv, DidMove PROVE FlagInv'
<1>1. PICK id \in Ids : MovedAway(id)
  BY DEF DidMove
<1>2. /\ UNCHANGED mods /\ stack # << >> /\ stack'[1] = require(<< id >>, NONE, NONE, NONE)
      /\ Shifted(1) \/ (Shifted(2) /\ Mild(stack'[2]))
  BY <1>1 DEF MovedAway
<1>3. PICK op : At(op)
  BY <1>2, TopGood DEF At, TypeInv
<1>4. stack'[1].op # "define" /\ (Mild(stack'[2]) => stack'[2].op # "define")
  BY <1>2 DEF require, Mild, Keys
<1>5. Puts(1) \/ Puts(2)
  BY <1>2, <1>4, Puts1, Puts2
<1> QED
  BY <1>2, <1>3, <1>5, UnchangedIs, FlagKept

LEMMA FlagFirst ==
  ASSUME TypeInv, FlagInv, UNCHANGED mods, stack = << >>, IsSeq(stack'), DOMAIN stack' = {1},
         stack'[1].op # "define"
  PROVE  FlagInv'
<1>1. Came(1, 0, 0)
  BY CameFirst
<1>2. FlagsFit /\ \A g \in Handles : Ready(mods[g]) => Ready(mods'[g])
  BY UnchangedIs, FlagsSame
<1>3. \A j \in 1..1 : j = 1
  OBVIOUS
<1> QED
  BY <1>1, <1>2, <1>3, FlagStill

LEMMA FlagEvent == ASSUME TypeInv, TypeInv', FlagInv, DidAsk \/ DidLoad \/ DidFail \/ DidRun PROVE FlagInv'
<1>1. ASSUME NEW r \in Requires, Asking(r) PROVE FlagInv'
  <2>1. stack'[1].op # "define"
    BY <1>1 DEF Asking, require
  <2> QED
    BY <1>1, <2>1, FlagFirst DEF Asking
<1>2. ASSUME NEW s \in scripts, Loaded(s) \/ Failing(s) PROVE FlagInv'
  <2>1. stack'[1].op # "define"
    BY <1>2 DEF Loaded, Failing
  <2> QED
    BY <1>2, <2>1, FlagFirst DEF Loaded, Failing
<1>3. ASSUME NEW s \in scripts, Running(s) PROVE FlagInv'
  <2>1. UNCHANGED << mods, stack >>
    BY <1>3 DEF Running
  <2> QED
    BY <2>1 DEF FlagInv, Ready, Is, Handles
<1> QED
  BY <1>1, <1>2, <1>3 DEF DidAsk, DidLoad, DidFail, DidRun

LEMMA FlagHolds == ASSUME TypeInv, TypeInv', FlagInv, Did PROVE FlagInv'
BY FlagQuiet, FlagInit, FlagEnable, FlagWire, FlagServe, FlagTake, FlagListen, FlagFetch, FlagStart,
   FlagExec, FlagThrow, FlagCall, FlagDefine, FlagNotify, FlagEmitted, FlagEmit, FlagQueue, FlagEnd,
   FlagGive, FlagRequire, FlagForce, FlagMove, FlagEvent DEF Did

(* A module that has not moved on to another place has one Module, and its *)
(* script comes once: as a script element, then as the call that its load  *)
(* or error event makes                                                    *)
Unmoved(m) == m \in DOMAIN Paths => paths[m] = Paths[m]
Objs(m) == {h \in Handles : mods[h].id = m}
About(f, m) == f.op \in {"complete", "completed", "scriptError"} /\ f.id = m
Asked(m) == \E s \in scripts : s.id = m
Told1(m) == \E j \in DOMAIN stack : About(stack[j], m)
Answered(m) == Asked(m) \/ Told1(m)
Failed1(m) == \E j \in DOMAIN stack : stack[j].op = "scriptError" /\ stack[j].id = m
Queued(m) ==
  \/ \E s \in scripts : s.executed /\ s.id = m
  \/ globalDefQueue # << >> /\ \E j \in DOMAIN stack : stack[j].op = "complete" /\ stack[j].id = m
Waiting(m) == (\E s \in scripts : s.id = m /\ ~s.executed) \/ Failed1(m)
Begun(h) == Is(h, "inited") \/ \E j \in DOMAIN stack : stack[j].op = "init" /\ stack[j].h = h
Single(m) ==
  /\ \A g, h \in Objs(m) : g = h
  /\ \A h \in Objs(m) : (Registered(h) \/ Is(h, "defined")) /\ (Is(h, "defined") => m \in defined)
OneToken(m) ==
  /\ \A s, t \in scripts : s.id = m /\ t.id = m => s = t
  /\ \A i, j \in DOMAIN stack : About(stack[i], m) /\ About(stack[j], m) => i = j
  /\ ~(Asked(m) /\ Told1(m))
Follows(m) ==
  /\ Answered(m) => Objs(m) # {}
  /\ \A h \in Objs(m) : Answered(m) \/ Begun(h) => mods[h].url \in urlFetched
  /\ Waiting(m) \/ Queued(m) => \A h \in Objs(m) : ~Begun(h)
Token(m) == Single(m) /\ OneToken(m) /\ Follows(m)
(* IE 6-8 fires no error event                                             *)
NoFails == useInteractive => \A j \in DOMAIN stack : stack[j].op # "scriptError"
LoadInv == (~useInteractive => \A m \in Ids : Unmoved(m) => Token(m)) /\ NoFails

(* A step that is not about the module m                                   *)
SameObjs(m) ==
  /\ Objs(m)' = Objs(m)
  /\ \A h \in Objs(m) :
       /\ mods'[h].url = mods[h].url
       /\ Registered(h) => Registered(h)' \/ "defined" \in mods'[h].is
       /\ Is(h, "defined") => "defined" \in mods'[h].is
       /\ "defined" \in mods'[h].is => Is(h, "defined") \/ m \in defined'
       /\ "inited" \in mods'[h].is => Begun(h)
       /\ mods[h].url \in urlFetched => mods[h].url \in urlFetched'
  /\ m \in defined => m \in defined'
SameScripts(m) ==
  /\ \A s \in scripts' : s.id = m => s \in scripts
  /\ globalDefQueue' # << >> => globalDefQueue # << >> \/ DOMAIN stack' = {}
NotAbout(f, m) == ~About(f, m) /\ (f.op = "init" => f.h \notin Objs(m))

(* A call about m is one that was under way before. *)
LEMMA OldFrame ==
  ASSUME NEW k, NEW d, NEW b, Came(k, d, b), NEW m,
         \A j \in 1..k : j \in DOMAIN stack' => NotAbout(stack'[j], m),
         NEW j \in DOMAIN stack', ~NotAbout(stack'[j], m)
  PROVE  j + d \in DOMAIN stack /\ stack'[j] = stack[j + d] /\ j \in Nat /\ d \in Int
<1>1. j \in Nat \ {0} /\ k \in Nat /\ d \in Int
  BY DEF Came
<1>2. j > k
  BY <1>1
<1> QED
  BY <1>1, <1>2 DEF Came

LEMMA SingleAside ==
  ASSUME NEW m, Single(m), SameObjs(m) PROVE Single(m)'
BY DEF Single, SameObjs, Is

LEMMA FramesAside ==
  ASSUME NEW m, NEW k, NEW d, NEW b, Came(k, d, b), \A j \in 1..k : j \in DOMAIN stack' => NotAbout(stack'[j], m)
  PROVE  /\ Told1(m)' => Told1(m)
         /\ Failed1(m)' => Failed1(m)
         /\ (\E j \in DOMAIN stack' : stack'[j].op = "complete" /\ stack'[j].id = m)
              => \E j \in DOMAIN stack : stack[j].op = "complete" /\ stack[j].id = m
         /\ \A h \in Objs(m) : (\E j \in DOMAIN stack' : stack'[j].op = "init" /\ stack'[j].h = h)
              => \E j \in DOMAIN stack : stack[j].op = "init" /\ stack[j].h = h
<1>1. ASSUME NEW j \in DOMAIN stack', ~NotAbout(stack'[j], m)
      PROVE  \E i \in DOMAIN stack : stack'[j] = stack[i]
  BY <1>1, OldFrame
<1>2. \A j \in DOMAIN stack' : About(stack'[j], m) => ~NotAbout(stack'[j], m)
  BY DEF NotAbout
<1>3. \A j \in DOMAIN stack' : stack'[j].op \in {"complete", "scriptError"} /\ stack'[j].id = m => About(stack'[j], m)
  BY DEF About
<1>4. \A j \in DOMAIN stack' : \A h \in Objs(m) : stack'[j].op = "init" /\ stack'[j].h = h => ~NotAbout(stack'[j], m)
  BY DEF NotAbout
<1>5. Told1(m)' => Told1(m)
  BY <1>1, <1>2 DEF Told1
<1>6. Failed1(m)' => Failed1(m)
  BY <1>1, <1>2, <1>3 DEF Failed1
<1>7. (\E j \in DOMAIN stack' : stack'[j].op = "complete" /\ stack'[j].id = m)
              => \E j \in DOMAIN stack : stack[j].op = "complete" /\ stack[j].id = m
  BY <1>1, <1>2, <1>3
<1>8. \A h \in Objs(m) : (\E j \in DOMAIN stack' : stack'[j].op = "init" /\ stack'[j].h = h)
              => \E j \in DOMAIN stack : stack[j].op = "init" /\ stack[j].h = h
  BY <1>1, <1>4
<1> QED
  BY <1>5, <1>6, <1>7, <1>8

(* A step that is not about m leaves it with one Module and one script. *)
LEMMA TokenAside ==
  ASSUME NEW m, Token(m), SameObjs(m), SameScripts(m), NEW k, NEW d, NEW b, Came(k, d, b),
         \A j \in 1..k : j \in DOMAIN stack' => NotAbout(stack'[j], m)
  PROVE  Token(m)'
<1>1. Single(m)'
  BY SingleAside DEF Token
<1>2. /\ Told1(m)' => Told1(m)
      /\ Failed1(m)' => Failed1(m)
      /\ (\E j \in DOMAIN stack' : stack'[j].op = "complete" /\ stack'[j].id = m)
              => \E j \in DOMAIN stack : stack[j].op = "complete" /\ stack[j].id = m
      /\ \A h \in Objs(m) : (\E j \in DOMAIN stack' : stack'[j].op = "init" /\ stack'[j].h = h)
              => \E j \in DOMAIN stack : stack[j].op = "init" /\ stack[j].h = h
  BY FramesAside
<1>3. Asked(m)' => Asked(m)
  BY DEF Asked, SameScripts
<1>4. Answered(m)' => Answered(m)
  BY <1>2, <1>3 DEF Answered
<1>5. Waiting(m)' => Waiting(m)
  BY <1>2 DEF Waiting, SameScripts
<1>6. Queued(m)' => Queued(m)
  BY <1>2 DEF Queued, SameScripts
<1>7. \A h \in Objs(m) : Begun(h)' => Begun(h)
  BY <1>2 DEF Begun, SameObjs, Is
<1>8. ASSUME NEW i \in DOMAIN stack', NEW j \in DOMAIN stack', About(stack'[i], m), About(stack'[j], m)
      PROVE  i = j
  <2>1. ~NotAbout(stack'[i], m) /\ ~NotAbout(stack'[j], m)
    BY <1>8 DEF NotAbout
  <2>2. i + d \in DOMAIN stack /\ stack'[i] = stack[i + d] /\ i \in Nat /\ d \in Int
    BY <2>1, OldFrame
  <2>3. j + d \in DOMAIN stack /\ stack'[j] = stack[j + d] /\ j \in Nat
    BY <2>1, OldFrame
  <2>4. i + d = j + d
    BY <1>8, <2>2, <2>3 DEF Token, OneToken
  <2> QED
    BY <2>2, <2>3, <2>4
<1>9. OneToken(m)'
  <2>1. \A s, t \in scripts' : s.id = m /\ t.id = m => s = t
    BY DEF Token, OneToken, SameScripts
  <2>2. ~(Asked(m)' /\ Told1(m)')
    BY <1>2, <1>3 DEF Token, OneToken
  <2> QED
    BY <1>8, <2>1, <2>2 DEF OneToken
<1>10. Follows(m)'
  <2>1. Objs(m)' = Objs(m) /\ \A h \in Objs(m) : mods'[h].url = mods[h].url
                                /\ (mods[h].url \in urlFetched => mods[h].url \in urlFetched')
    BY DEF SameObjs
  <2>2. Answered(m)' => Objs(m)' # {}
    BY <1>4, <2>1 DEF Token, Follows
  <2>3. \A h \in Objs(m)' : Answered(m)' \/ Begun(h)' => mods'[h].url \in urlFetched'
    BY <1>4, <1>7, <2>1 DEF Token, Follows
  <2>4. Waiting(m)' \/ Queued(m)' => \A h \in Objs(m)' : ~Begun(h)'
    BY <1>5, <1>6, <1>7, <2>1 DEF Token, Follows
  <2> QED
    BY <2>2, <2>3, <2>4 DEF Follows
<1> QED
  BY <1>1, <1>9, <1>10 DEF Token

(* Steps that are about no module: neither a script nor its call comes, no *)
(* module is made, removed or initialized, and no url is asked for         *)
Aside(f) == f.op \notin {"complete", "completed", "scriptError"} /\ (f.op = "init" => f.h \notin Handles)
SameUrls == UNCHANGED << paths, urlFetched, scripts, globalDefQueue >> /\ \A m \in defined : m \in defined'
SameHandles ==
  /\ \A h \in Handles :
       /\ h \in Handles' /\ mods'[h].id = mods[h].id /\ mods'[h].url = mods[h].url
       /\ Registered(h) => Registered(h)'
       /\ {"inited", "defined"} \cap mods'[h].is = {"inited", "defined"} \cap mods[h].is
  /\ \A h \in Handles' : h \notin Handles => mods'[h].id = << >>
AsideStack == \E k, d, b : Came(k, d, b) /\ \A j \in 1..k : j \in DOMAIN stack' => Aside(stack'[j])

LEMMA NoFailsKept ==
  ASSUME LoadInv, UNCHANGED useInteractive, NEW k, NEW d, NEW b, Came(k, d, b),
         \A j \in 1..k : j \in DOMAIN stack' => stack'[j].op # "scriptError"
  PROVE  NoFails'
<1> SUFFICES ASSUME useInteractive, NEW j \in DOMAIN stack' PROVE stack'[j].op # "scriptError"
  BY DEF NoFails
<1>1. j \in Nat \ {0} /\ k \in Nat
  BY DEF Came
<1>2. CASE j > k
  <2>1. j + d \in DOMAIN stack /\ stack'[j] = stack[j + d]
    BY <1>2 DEF Came
  <2> QED
    BY <2>1 DEF LoadInv, NoFails
<1>3. CASE ~(j > k)
  BY <1>1, <1>3
<1> QED
  BY <1>2, <1>3

(* A step that is about no module and fetches nothing keeps LoadInv. *)
LEMMA LoadAside ==
  ASSUME LoadInv, UNCHANGED useInteractive, SameUrls, SameHandles, AsideStack
  PROVE  LoadInv'
<1>0. NoFails'
  <2>1. PICK k, d, b : Came(k, d, b) /\ \A j \in 1..k : j \in DOMAIN stack' => Aside(stack'[j])
    BY DEF AsideStack
  <2> QED
    BY <2>1, NoFailsKept DEF Aside
<1> SUFFICES ASSUME ~useInteractive, NEW m \in Ids, Unmoved(m)' PROVE Token(m)'
  BY <1>0 DEF LoadInv
<1>1. Token(m)
  BY DEF LoadInv, Unmoved, SameUrls
<1>2. m # << >>
  BY RequireAssumption
<1>3. Objs(m)' = Objs(m)
  BY <1>2 DEF Objs, SameHandles
<1>4. SameObjs(m)
  BY <1>3 DEF SameObjs, Objs, SameHandles, SameUrls, Begun, Is
<1>5. SameScripts(m)
  BY DEF SameScripts, SameUrls
<1>6. PICK k, d, b : Came(k, d, b) /\ \A j \in 1..k : j \in DOMAIN stack' => Aside(stack'[j])
  BY DEF AsideStack
<1>7. \A j \in 1..k : j \in DOMAIN stack' => NotAbout(stack'[j], m)
  BY <1>6 DEF Aside, NotAbout, About, Objs
<1> QED
  BY <1>1, <1>4, <1>5, <1>6, <1>7, TokenAside

LEMMA AsideShifted ==
  ASSUME TypeInv, NEW op, At(op), NEW k \in Nat, Shifted(k), \A j \in 1..k : j \in DOMAIN stack' => Aside(stack'[j])
  PROVE  AsideStack
<1>1. Came(k, 1 - k, 1)
  BY CameShifted DEF TypeInv, At
<1> QED
  BY <1>1 DEF AsideStack

LEMMA AsideOne == ASSUME TypeInv, NEW op, At(op), Shifted(1), Aside(stack'[1]) PROVE AsideStack
<1>1. \A j \in 1..1 : j \in DOMAIN stack' => Aside(stack'[j])
  OBVIOUS
<1> QED
  BY <1>1, AsideShifted

LEMMA AsideTwo ==
  ASSUME TypeInv, NEW op, At(op), Shifted(2), Aside(stack'[1]), Aside(stack'[2]) PROVE AsideStack
<1>1. \A j \in 1..2 : j \in DOMAIN stack' => Aside(stack'[j])
  <2>1. 1..2 = {1, 2}
    OBVIOUS
  <2> QED
    BY <2>1
<1> QED
  BY <1>1, AsideShifted

LEMMA AsideOps ==
  /\ \A h, i : Aside(WireNext(h, i)) /\ Aside(enable(h)) /\ Aside(check(h, i)) /\ Aside([op |-> "wire", h |-> h, i |-> i])
  /\ \A h : Aside([op |-> "execCb", h |-> h]) /\ Aside([op |-> "notify", h |-> h]) /\ Aside(checkLoaded)
  /\ \A h, k : Aside([op |-> "emit", h |-> h, k |-> k])
  /\ \A a, b, c, e : Aside(require(a, b, c, e))
BY DEF Aside, WireNext, enable, check, require, checkLoaded

LEMMA SameUnchanged ==
  ASSUME UNCHANGED mods, \A h \in Handles : Registered(h) => Registered(h)' PROVE SameHandles
BY DEF SameHandles, Handles

LEMMA SameOnly ==
  ASSUME TypeInv, TypeInv', NEW h \in Handles, OnlyMod(h), SameRest(h), UNCHANGED registry,
         {"inited", "defined"} \cap mods'[h].is = {"inited", "defined"} \cap mods[h].is
  PROVE  SameHandles
<1>1. Handles' = Handles
  BY OnlyKept DEF OnlyMod, Handles, TypeInv
<1>2. \A g \in Handles : Registered(g)' = Registered(g)
  BY DEF Registered
<1> QED
  BY <1>1, <1>2 DEF SameHandles, OnlyMod, SameRest

LEMMA PlainUrls == Plain => SameUrls /\ UNCHANGED << registry, useInteractive >>
BY DEF Plain, SameUrls, names, world, queues

(* LoadInv, step by step: those that start, answer or end a load are about a module. *)
LEMMA LoadQuiet == ASSUME TypeInv, TypeInv', LoadInv, Quiet PROVE LoadInv'
<1>1. PICK k \in Nat, b \in Nat, d \in Int : Came(k, d, b) /\ \A j \in 1..k : j \in DOMAIN stack' => Mild(stack'[j])
  BY CameQuiet
<1>2. \A j \in 1..k : j \in DOMAIN stack' => Aside(stack'[j])
  BY <1>1 DEF Mild, Keys, Aside
<1>3. AsideStack
  BY <1>1, <1>2 DEF AsideStack
<1>4. SameUrls /\ UNCHANGED << registry, useInteractive >>
  BY DEF Quiet, SameUrls, names, queues
<1>5. Handles' = Handles
  BY DEF Quiet, SameMods, Handles
<1>6. {"inited", "defined"} \subseteq Flags
  BY DEF Flags
<1>7. SameHandles
  BY <1>4, <1>5, <1>6 DEF Quiet, SameMods, SameHandles, Registered
<1> QED
  BY <1>3, <1>4, <1>7, LoadAside

LEMMA LoadEnable == ASSUME TypeInv, TypeInv', LoadInv, DidEnable PROVE LoadInv'
<1>1. PICK h \in Handles : Enabled(h) /\ At("enable")
  BY DEF DidEnable
<1>2. SameUrls /\ UNCHANGED << registry, useInteractive >>
  BY DEF DidEnable, SameUrls, names, world, queues
<1>3. SameHandles
  BY <1>1, <1>2, SameOnly DEF Enabled
<1>4. AsideStack
  BY <1>1, AsideShifted, AsideOps DEF Enabled
<1> QED
  BY <1>2, <1>3, <1>4, LoadAside

LEMMA LoadWire == ASSUME TypeInv, TypeInv', LoadInv, DidWire PROVE LoadInv'
<1>1. PICK h \in Handles : WiredAll(h) /\ At("wire")
  BY DEF DidWire
<1>2. SameUrls /\ UNCHANGED << registry, useInteractive >>
  BY PlainUrls DEF DidWire
<1>3. SameHandles
  BY <1>1, <1>2, SameOnly DEF WiredAll
<1>4. AsideStack
  <2>1. Shifted(1) /\ stack'[1] = check(h, FALSE)
    BY <1>1 DEF WiredAll
  <2>2. Aside(stack'[1])
    BY <2>1, AsideOps
  <2> QED
    BY <1>1, <2>1, <2>2, AsideOne
<1> QED
  BY <1>2, <1>3, <1>4, LoadAside

LEMMA LoadServe == ASSUME TypeInv, TypeInv', LoadInv, DidServe PROVE LoadInv'
<1>1. PICK h \in Handles, i \in Nat : Served(h, i) /\ At("wire")
  BY DEF DidServe
<1>2. SameUrls /\ UNCHANGED << registry, useInteractive >>
  BY <1>1 DEF DidServe, Served, SameUrls, world, queues
<1>3. SameHandles
  BY <1>1, <1>2, SameUnchanged DEF Served, Registered
<1>4. AsideStack
  <2>1. Shifted(1) /\ stack'[1] = WireNext(h, i)
    BY <1>1 DEF Served
  <2>2. Aside(stack'[1])
    BY <2>1, AsideOps
  <2> QED
    BY <1>1, <2>1, <2>2, AsideOne
<1> QED
  BY <1>2, <1>3, <1>4, LoadAside

LEMMA LoadTake == ASSUME TypeInv, TypeInv', LoadInv, DidTake PROVE LoadInv'
<1>1. PICK h \in Handles, i \in Nat : Taken(h, i) /\ At("wire")
  BY DEF DidTake
<1>2. SameUrls /\ UNCHANGED << registry, useInteractive >>
  BY PlainUrls DEF DidTake
<1>3. SameHandles
  BY <1>1, <1>2, SameOnly DEF Taken
<1>4. \/ Shifted(1) /\ stack'[1] = WireNext(h, i)
      \/ Shifted(2) /\ stack'[2] = WireNext(h, i) /\ \E d \in Handles : stack'[1] = enable(d)
  BY <1>1 DEF Taken
<1>5. \/ Shifted(1) /\ Aside(stack'[1])
      \/ Shifted(2) /\ Aside(stack'[1]) /\ Aside(stack'[2])
  BY <1>4, AsideOps
<1>6. AsideStack
  BY <1>1, <1>5, AsideShifted
<1> QED
  BY <1>2, <1>3, <1>6, LoadAside

LEMMA LoadStart == ASSUME TypeInv, TypeInv', LoadInv, DidStart PROVE LoadInv'
<1>1. PICK h \in Handles : Starting(h) /\ At("check")
  BY DEF DidStart
<1>2. SameUrls /\ UNCHANGED << registry, useInteractive >>
  BY PlainUrls DEF DidStart
<1>3. SameHandles
  BY <1>1, <1>2, SameOnly DEF Starting
<1>4. Aside(stack'[2]) /\ Aside(stack'[1]) /\ Shifted(2)
  BY <1>1, AsideOps DEF Starting, Aside
<1>5. AsideStack
  BY <1>1, <1>4, AsideShifted
<1> QED
  BY <1>2, <1>3, <1>5, LoadAside

LEMMA LoadExec == ASSUME TypeInv, TypeInv', LoadInv, DidExec PROVE LoadInv'
<1>1. PICK h \in Handles : Executed(h) /\ At("execCb")
  BY DEF DidExec
<1>2. SameUrls /\ UNCHANGED << registry, useInteractive >>
  BY DEF DidExec, SameUrls, names, world, queues
<1>3. SameHandles
  BY <1>1, <1>2, SameUnchanged DEF Executed, Registered
<1>4. Shifted(0) \/ (Shifted(1) /\ Aside(stack'[1]))
  <2>1. CASE Shifted(0)
    BY <2>1
  <2>2. CASE /\ Shifted(1) /\ 1 \in DOMAIN stack' /\ mods[h].id \in DOMAIN Nested
             /\ stack'[1] = require(Nested[mods[h].id], mods[h].id, NONE, NONE)
    BY <2>2, AsideOps
  <2> QED
    BY <1>1, <2>1, <2>2 DEF Executed
<1>5. AsideStack
  BY <1>1, <1>4, AsideShifted
<1> QED
  BY <1>2, <1>3, <1>5, LoadAside

LEMMA LoadThrow == ASSUME TypeInv, TypeInv', LoadInv, DidThrow PROVE LoadInv'
<1>1. PICK h \in Handles : Thrown(h) /\ At("execCb")
  BY DEF DidThrow
<1>2. SameUrls /\ UNCHANGED << registry, useInteractive >>
  BY DEF DidThrow, SameUrls, names, world, queues
<1>3. SameHandles
  <2>1. SameMods /\ {"inited", "defined"} \subseteq Flags
    BY <1>1 DEF Thrown, Flags
  <2>2. Handles' = Handles
    BY <2>1 DEF SameMods, Handles
  <2> QED
    BY <1>2, <2>1, <2>2 DEF SameMods, SameHandles, Registered
<1>4. \/ stack' = << >> /\ Came(0, 0, 0)
      \/ stack' # << >> /\ Came(1, 1, 2) /\ 1 \in DOMAIN stack' /\ stack'[1].op = "onError"
  BY <1>1, CameThrown DEF TypeInv, At
<1>5. AsideStack
  <2>1. CASE Came(0, 0, 0)
    BY <2>1 DEF AsideStack
  <2>2. CASE Came(1, 1, 2) /\ stack'[1].op = "onError"
    BY <2>2 DEF AsideStack, Aside
  <2> QED
    BY <1>4, <2>1, <2>2
<1> QED
  BY <1>2, <1>3, <1>5, LoadAside

LEMMA LoadNotify == ASSUME TypeInv, TypeInv', LoadInv, DidNotify PROVE LoadInv'
<1>1. PICK h \in Handles : Emitting(h) /\ At("notify")
  BY DEF DidNotify
<1>2. SameUrls /\ UNCHANGED << registry, useInteractive >>
  BY PlainUrls DEF DidNotify
<1>3. SameHandles
  BY <1>1, <1>2, SameOnly DEF Emitting
<1>4. AsideStack
  BY <1>1, AsideShifted, AsideOps DEF Emitting
<1> QED
  BY <1>2, <1>3, <1>4, LoadAside

LEMMA LoadEmitted == ASSUME TypeInv, TypeInv', LoadInv, DidEmitted PROVE LoadInv'
<1>1. PICK h \in Handles : ToldAll(h) /\ At("emit")
  BY DEF DidEmitted
<1>2. SameUrls /\ UNCHANGED << registry, useInteractive >>
  BY PlainUrls DEF DidEmitted
<1>3. SameHandles
  BY <1>1, <1>2, SameOnly DEF ToldAll
<1>4. AsideStack
  BY <1>1, AsideShifted DEF ToldAll
<1> QED
  BY <1>2, <1>3, <1>4, LoadAside

LEMMA LoadEmit == ASSUME TypeInv, TypeInv', LoadInv, DidEmit PROVE LoadInv'
<1>1. PICK h \in Handles, k \in Nat, i \in Nat, l \in Handles : Told(h, k, l, i) /\ At("emit")
  BY DEF DidEmit
<1>2. SameUrls /\ UNCHANGED << registry, useInteractive >>
  BY PlainUrls DEF DidEmit
<1>3. SameHandles
  BY <1>1, <1>2, SameOnly DEF Told
<1>4. Shifted(2) /\ stack'[1] = check(l, FALSE) /\ stack'[2] = [op |-> "emit", h |-> h, k |-> k + 1]
  BY <1>1 DEF Told
<1>5. Aside(stack'[1]) /\ Aside(stack'[2])
  BY <1>4, AsideOps
<1>6. AsideStack
  BY <1>1, <1>4, <1>5, AsideTwo
<1> QED
  BY <1>2, <1>3, <1>6, LoadAside

LEMMA LoadForce == ASSUME TypeInv, TypeInv', LoadInv, DidForce PROVE LoadInv'
<1>1. PICK h \in Handles, i \in Nat : ForcedDep(h, i) /\ At("forced")
  BY DEF DidForce
<1>2. SameUrls /\ UNCHANGED << registry, useInteractive >>
  BY PlainUrls DEF DidForce
<1>3. SameHandles
  BY <1>1, <1>2, SameOnly DEF ForcedDep
<1>4. Shifted(1) /\ stack'[1].op = "forceDep"
  BY <1>1 DEF ForcedDep
<1>5. AsideStack
  BY <1>1, <1>4, AsideShifted DEF Aside
<1> QED
  BY <1>2, <1>3, <1>5, LoadAside

LEMMA LoadAsk == ASSUME TypeInv, TypeInv', LoadInv, DidAsk PROVE LoadInv'
<1>1. PICK r \in Requires : Asking(r) /\ UNCHANGED << registry, names, queues, wait, useInteractive, scripts, answers >>
  BY DEF DidAsk
<1>2. SameUrls /\ UNCHANGED << registry, useInteractive >>
  BY <1>1 DEF SameUrls, names, queues
<1>3. SameHandles
  BY <1>1, <1>2, SameUnchanged DEF Asking, Registered
<1>4. AsideStack
  <2>1. Came(1, 0, 0)
    BY <1>1, CameFirst DEF Asking
  <2>2. Aside(stack'[1])
    BY <1>1, AsideOps DEF Asking
  <2> QED
    BY <2>1, <2>2 DEF AsideStack
<1> QED
  BY <1>2, <1>3, <1>4, LoadAside

LEMMA LoadRequire == ASSUME TypeInv, TypeInv', LoadInv, DidRequire PROVE LoadInv'
<1>1. PICK h \in Handles' : NewRequire(h) /\ At("require")
  BY DEF DidRequire
<1>2. SameUrls /\ UNCHANGED useInteractive
  BY DEF DidRequire, SameUrls, names, world, queues
<1>3. h \notin Handles /\ Handles' = Handles \cup {h} /\ mods'[h].id = << >>
      /\ \A g \in Handles : mods'[g] = mods[g] /\ (Registered(g)' <=> Registered(g))
  BY <1>1 DEF NewRequire
<1>4. SameHandles
  BY <1>3 DEF SameHandles
<1>5. Shifted(2) /\ stack'[1] = init(h, Top.deps, Top.callback, Top.errback, TRUE) /\ stack'[2] = checkLoaded
  BY <1>1 DEF NewRequire
<1>6. Aside(stack'[1])
  BY <1>3, <1>5 DEF Aside, init
<1>7. Aside(stack'[2])
  BY <1>5, AsideOps
<1>8. AsideStack
  BY <1>1, <1>5, <1>6, <1>7, AsideTwo
<1> QED
  BY <1>2, <1>4, <1>8, LoadAside

LEMMA LoadEach ==
  ASSUME LoadInv, UNCHANGED useInteractive, NoFails',
         \A m \in Ids : ~useInteractive /\ Unmoved(m)' => Unmoved(m) /\ (Token(m) => Token(m)')
  PROVE  LoadInv'
BY DEF LoadInv

LEMMA NoInit ==
  ASSUME TypeInv', 1 \in DOMAIN stack' => stack'[1].op # "init"
  PROVE  \A j \in DOMAIN stack' : stack'[j].op # "init"
BY DEF TypeInv, InitFrames

(* What SameHandles says of the objects of a module                        *)
LEMMA ObjsSame ==
  ASSUME NEW m \in Ids, SameHandles, \A i \in defined : i \in defined', \A u \in urlFetched : u \in urlFetched'
  PROVE  SameObjs(m)
<1>1. m # << >>
  BY RequireAssumption
<1>2. Objs(m)' = Objs(m)
  BY <1>1 DEF Objs, SameHandles
<1> QED
  BY <1>2 DEF SameObjs, Objs, SameHandles, Begun, Is

LEMMA LoadInit == ASSUME TypeInv, TypeInv', LoadInv, DidInit PROVE LoadInv'
<1>1. PICK h \in Handles : Inited(h) /\ At("init")
  BY DEF DidInit
<1>2. SameUrls /\ UNCHANGED << registry, useInteractive >>
  BY PlainUrls DEF DidInit
<1>3. Begun(h)
  BY <1>1 DEF Inited, At, Begun
<1>4. Handles' = Handles
  BY <1>1, OnlyKept DEF Inited, OnlyMod, Handles, TypeInv
<1>5. ASSUME NEW m \in Ids, Token(m), Unmoved(m)' PROVE Token(m)'
  <2>1. \A g \in Handles :
          /\ mods'[g].id = mods[g].id /\ mods'[g].url = mods[g].url
          /\ "defined" \in mods'[g].is <=> Is(g, "defined")
          /\ "inited" \in mods'[g].is => Begun(g)
          /\ Registered(g)' = Registered(g)
    BY <1>1, <1>2, <1>3 DEF Inited, OnlyMod, SameRest, Is, Begun, Registered
  <2>2. Objs(m)' = Objs(m)
    BY <1>4, <2>1 DEF Objs
  <2>3. SameObjs(m)
    BY <1>2, <2>1, <2>2 DEF SameObjs, SameUrls, Objs, Is
  <2>4. SameScripts(m)
    BY <1>2 DEF SameScripts, SameUrls
  <2>5. Came(1, 0, 1)
    <3>1. Came(1, 1 - 1, 1)
      BY <1>1, CameShifted DEF Inited, TypeInv, At
    <3> QED
      BY <3>1
  <2>6. NotAbout(stack'[1], m)
    BY <1>1 DEF Inited, NotAbout, About, enable, check
  <2> QED
    BY <1>5, <2>3, <2>4, <2>5, <2>6, TokenAside
<1>6. \A m \in Ids : Unmoved(m)' => Unmoved(m)
  BY <1>2 DEF SameUrls, Unmoved
<1>7. NoFails'
  <2>1. Came(1, 1 - 1, 1)
    BY <1>1, CameShifted DEF Inited, TypeInv, At
  <2>2. stack'[1].op # "scriptError"
    BY <1>1 DEF Inited, enable, check
  <2> QED
    BY <1>2, <2>1, <2>2, NoFailsKept
<1> QED
  BY <1>2, <1>5, <1>6, <1>7, LoadEach

LEMMA LoadDefine == ASSUME TypeInv, TypeInv', LoadInv, DidDefine PROVE LoadInv'
<1>1. PICK h \in Handles : DefinedNow(h) /\ At("define") /\ UNCHANGED << undefEvents, urlFetched, paths, world, answers >>
  BY DEF DidDefine
<1>2. UNCHANGED << urlFetched, paths, scripts, globalDefQueue, useInteractive >>
  BY <1>1 DEF world, queues
<1>4. Handles' = Handles
  BY <1>1, OnlyKept DEF DefinedNow, OnlyMod, Handles, TypeInv
<1>5. \A g \in Handles : Registered(g) => g = h \/ Registered(g)'
  BY <1>1, UnregisterFacts DEF TypeInv, Registered, DefinedNow
<1>6. ASSUME NEW m \in Ids, Token(m), Unmoved(m)' PROVE Token(m)'
  <2>1. \A g \in Handles :
          /\ mods'[g].id = mods[g].id /\ mods'[g].url = mods[g].url
          /\ "inited" \in mods'[g].is <=> Is(g, "inited")
          /\ Is(g, "defined") => "defined" \in mods'[g].is
          /\ "defined" \in mods'[g].is => g = h \/ Is(g, "defined")
          /\ Registered(g) => Registered(g)' \/ "defined" \in mods'[g].is
    BY <1>1, <1>5 DEF DefinedNow, OnlyMod, SameRest, Is
  <2>2. Objs(m)' = Objs(m)
    BY <1>4, <2>1 DEF Objs
  <2>3. defined \subseteq defined' /\ (h \in Objs(m) => m \in defined')
    BY <1>1, RequireAssumption DEF DefinedNow, definedWith, isDefine, Objs
  <2>4. SameObjs(m)
    BY <1>2, <2>1, <2>2, <2>3 DEF SameObjs, Objs, Begun
  <2>5. SameScripts(m)
    BY <1>2 DEF SameScripts
  <2>6. PICK k \in {0, 1} : Shifted(k) /\ (k = 1 => NotAbout(stack'[1], m))
    BY <1>1 DEF DefinedNow, NotAbout, About
  <2>7. Came(k, 1 - k, 1)
    BY <1>1, <2>6, CameShifted DEF TypeInv, At
  <2> QED
    BY <1>6, <2>4, <2>5, <2>6, <2>7, TokenAside
<1>7. \A m \in Ids : Unmoved(m)' => Unmoved(m)
  BY <1>2 DEF Unmoved
<1>8. NoFails'
  <2>1. PICK k \in {0, 1} : Shifted(k) /\ (k = 1 => stack'[1].op # "scriptError")
    BY <1>1 DEF DefinedNow
  <2>2. Came(k, 1 - k, 1)
    BY <1>1, <2>1, CameShifted DEF TypeInv, At
  <2> QED
    BY <1>2, <2>1, <2>2, NoFailsKept
<1> QED
  BY <1>2, <1>6, <1>7, <1>8, LoadEach

(* load() of a module: its script is asked for at most once                *)
LEMMA LoadUrl ==
  ASSUME TypeInv, TypeInv', LoadInv, NEW h \in Handles, isDefine(h), load(h), SameHandles, AsideStack,
         UNCHANGED << paths, defined, globalDefQueue, useInteractive >>,
         1 \in DOMAIN stack => stack[1].op # "init"
  PROVE  LoadInv'
<1>1. CASE mods[h].url \in urlFetched
  <2>1. SameUrls
    BY <1>1 DEF load, SameUrls
  <2> QED
    BY <2>1, LoadAside
<1>2. CASE mods[h].url \notin urlFetched
  <2> DEFINE new == [id |-> mods[h].id, url |-> mods[h].url, executed |-> FALSE]
  <2>1. scripts' = scripts \cup {new} /\ urlFetched' = urlFetched \cup {mods[h].url}
    BY <1>2 DEF load
  <2>2. new.id = mods[h].id /\ ~new.executed
    OBVIOUS
  <2> HIDE DEF new
  <2>3. ASSUME NEW m \in Ids, Token(m), Unmoved(m)' PROVE Token(m)'
    <3>1. SameObjs(m)
      BY <2>1, ObjsSame
    <3>2. PICK k, d, b : Came(k, d, b) /\ \A j \in 1..k : j \in DOMAIN stack' => Aside(stack'[j])
      BY DEF AsideStack
    <3>3. \A j \in 1..k : j \in DOMAIN stack' => NotAbout(stack'[j], m)
      BY <3>2 DEF Aside, NotAbout, About, Objs
    <3>4. CASE mods[h].id # m
      <4>1. SameScripts(m)
        BY <2>1, <2>2, <3>4 DEF SameScripts
      <4> QED
        BY <2>3, <3>1, <3>2, <3>3, <4>1, TokenAside
    <3>5. CASE mods[h].id = m
      <4>1. h \in Objs(m) /\ ~Answered(m) /\ ~Begun(h)
        BY <1>2, <2>3, <3>5 DEF Objs, Token, Follows
      <4>2. /\ Told1(m)' => Told1(m)
            /\ Failed1(m)' => Failed1(m)
            /\ (\E j \in DOMAIN stack' : stack'[j].op = "complete" /\ stack'[j].id = m)
                  => \E j \in DOMAIN stack : stack[j].op = "complete" /\ stack[j].id = m
            /\ \A g \in Objs(m) : (\E j \in DOMAIN stack' : stack'[j].op = "init" /\ stack'[j].h = g)
                  => \E j \in DOMAIN stack : stack[j].op = "init" /\ stack[j].h = g
        BY <3>2, <3>3, FramesAside
      <4>3. ~Told1(m)'
        BY <4>1, <4>2 DEF Answered
      <4>4. \A g \in Objs(m) : g = h
        BY <2>3, <4>1 DEF Token, Single
      <4>5. Single(m)'
        BY <2>3, <3>1, SingleAside DEF Token
      <4>6. \A s \in scripts : s.id # m
        BY <4>1 DEF Answered, Asked
      <4>7. OneToken(m)'
        <5>1. \A s, t \in scripts' : s.id = m /\ t.id = m => s = t
          BY <2>1, <4>6
        <5> QED
          BY <4>3, <5>1 DEF OneToken, Told1
      <4>8. ~Begun(h)'
        BY <3>1, <4>1, <4>2 DEF Begun, SameObjs, Is
      <4>9. Objs(m)' = {h} /\ mods'[h].url = mods[h].url
        BY <3>1, <4>1, <4>4 DEF SameObjs
      <4>10. Follows(m)'
        BY <2>1, <4>8, <4>9 DEF Follows
      <4> QED
        BY <4>5, <4>7, <4>10 DEF Token
    <3> QED
      BY <3>4, <3>5
  <2>4. \A m \in Ids : Unmoved(m)' => Unmoved(m)
    BY DEF Unmoved
  <2>5. NoFails'
    <3>1. PICK k, d, b : Came(k, d, b) /\ \A j \in 1..k : j \in DOMAIN stack' => Aside(stack'[j])
      BY DEF AsideStack
    <3> QED
      BY <3>1, NoFailsKept DEF Aside
  <2> QED
    BY <2>3, <2>4, <2>5, LoadEach
<1> QED
  BY <1>1, <1>2

LEMMA LoadFetch == ASSUME TypeInv, TypeInv', LoadInv, DidFetch PROVE LoadInv'
<1>1. PICK h \in Handles : /\ Fetching(h) /\ At("check")
                           /\ UNCHANGED << registry, defined, undefEvents, paths, queues, wait, useInteractive, issued, answers >>
  BY DEF DidFetch
<1>2. UNCHANGED << registry, paths, defined, globalDefQueue, useInteractive >>
  BY <1>1 DEF queues
<1>3. SameHandles
  BY <1>1, <1>2, SameOnly DEF Fetching
<1>4. CASE /\ mods[h].id \in DOMAIN Shim /\ UNCHANGED << urlFetched, scripts >>
           /\ Shifted(1) /\ 1 \in DOMAIN stack'
           /\ stack'[1] = require(Shim[mods[h].id], mods[h].id, << "load", h >>, NONE)
  <2>1. SameUrls
    BY <1>2, <1>4 DEF SameUrls
  <2>2. Aside(stack'[1])
    BY <1>4, AsideOps
  <2>3. AsideStack
    BY <1>1, <1>4, <2>2, AsideOne
  <2> QED
    BY <1>2, <1>3, <2>1, <2>3, LoadAside
<1>5. CASE load(h) /\ Shifted(0)
  <2>1. AsideStack
    BY <1>1, <1>5, AsideShifted
  <2>2. stack[1].op # "init" /\ isDefine(h)
    BY <1>1 DEF At, Fetching
  <2> QED
    BY <1>2, <1>3, <1>5, <2>1, <2>2, LoadUrl
<1> QED
  BY <1>1, <1>4, <1>5 DEF Fetching

LEMMA LoadCall == ASSUME TypeInv, TypeInv', LoadInv, DidCall PROVE LoadInv'
<1>1. PICK h \in Handles : /\ CalledBack(h) /\ At("execCb")
                           /\ UNCHANGED << registry, defined, undefEvents, paths, queues, wait, useInteractive, issued >>
  BY DEF DidCall
<1>2. UNCHANGED << registry, paths, defined, globalDefQueue, useInteractive >>
  BY <1>1 DEF queues
<1>3. SameHandles
  BY <1>1, <1>2, SameUnchanged DEF CalledBack, Registered
<1>4. AsideStack
  BY <1>1, AsideShifted DEF CalledBack
<1>5. \/ UNCHANGED << urlFetched, scripts >>
      \/ \E g \in Handles : isDefine(g) /\ load(g)
  BY <1>1 DEF CalledBack
<1>6. CASE UNCHANGED << urlFetched, scripts >>
  <2>1. SameUrls
    BY <1>2, <1>6 DEF SameUrls
  <2> QED
    BY <1>2, <1>3, <1>4, <2>1, LoadAside
<1>7. ASSUME NEW g \in Handles, isDefine(g), load(g) PROVE LoadInv'
  <2>1. stack[1].op # "init"
    BY <1>1 DEF At
  <2> QED
    BY <1>2, <1>3, <1>4, <1>7, <2>1, LoadUrl
<1> QED
  BY <1>5, <1>6, <1>7

(* An object is made for a module only when it has none                    *)
LEMMA NoObjs ==
  ASSUME TypeInv, NEW m \in Ids, Token(m), Lookup(m) = 0, m \notin defined
  PROVE  Objs(m) = {}
<1> SUFFICES ASSUME NEW h \in Objs(m) PROVE FALSE
  OBVIOUS
<1>1. h \in Handles /\ mods[h].id = m /\ ~Is(h, "defined")
  BY DEF Objs, Token, Single
<1>2. Registered(h)
  BY DEF Token, Single, Is
<1> QED
  BY <1>1, <1>2, LookupFacts DEF Registered, TypeInv

LEMMA LoadListen == ASSUME TypeInv, TypeInv', LoadInv, DidListen PROVE LoadInv'
<1>1. PICK h \in Handles, i \in Nat, g \in Nat : Listening(h, i, g) /\ At("wire")
  BY DEF DidListen
<1>2. SameUrls /\ UNCHANGED << defined, useInteractive, urlFetched, paths >>
  BY DEF DidListen, SameUrls, names, world, queues
<1>3. PICK id \in Ids : id = mods[h].deps[i] /\ ~Available(id)
  BY <1>1 DEF Listening, AtDep
<1>4. \A f : f = WireNext(h, i) \/ f = enable(g) => Aside(f) /\ f.op # "init"
  BY AsideOps, OpOf
<1>5. /\ AsideStack /\ 1 \in DOMAIN stack' /\ stack'[1].op # "init"
  <2>1. CASE Shifted(1) /\ 1 \in DOMAIN stack' /\ stack'[1] = WireNext(h, i)
    BY <1>1, <1>4, <2>1, AsideOne
  <2>2. CASE Shifted(2) /\ {1, 2} \subseteq DOMAIN stack' /\ stack'[1] = enable(g) /\ stack'[2] = WireNext(h, i)
    BY <1>1, <1>4, <2>2, AsideTwo
  <2> QED
    BY <1>1, <2>1, <2>2 DEF Listening
<1>6. /\ Handles' = Handles \cup {g}
      /\ \A x \in Handles : /\ mods'[x].id = mods[x].id /\ mods'[x].url = mods[x].url /\ mods'[x].is = mods[x].is
                            /\ Registered(x)' <=> Registered(x)
  BY <1>1 DEF Listening
<1>7. CASE g \in Handles
  <2>1. SameHandles
    BY <1>6, <1>7 DEF SameHandles
  <2> QED
    BY <1>2, <1>5, <2>1, LoadAside
<1>8. CASE g \notin Handles
  <2>1. Lookup(id) = 0 /\ mods'[g].id = id /\ mods'[g].is = {} /\ Registered(g)'
    BY <1>1, <1>3, <1>8 DEF Listening
  <2>2. id \notin defined
    BY <1>3, <2>1 DEF Available
  <2>3. ASSUME NEW m \in Ids, Token(m), Unmoved(m)' PROVE Token(m)'
    <3>1. PICK k, d, b : Came(k, d, b) /\ \A j \in 1..k : j \in DOMAIN stack' => Aside(stack'[j])
      BY <1>5 DEF AsideStack
    <3>2. \A j \in 1..k : j \in DOMAIN stack' => NotAbout(stack'[j], m)
      BY <3>1 DEF Aside, NotAbout, About, Objs
    <3>3. CASE id # m
      <4>1. Objs(m)' = Objs(m)
        BY <1>6, <2>1, <3>3 DEF Objs
      <4>2. SameObjs(m)
        BY <1>2, <1>6, <4>1 DEF SameObjs, Objs, Is, Begun
      <4>3. SameScripts(m)
        BY <1>2 DEF SameScripts, SameUrls
      <4> QED
        BY <2>3, <3>1, <3>2, <4>2, <4>3, TokenAside
    <3>4. CASE id = m
      <4>1. Objs(m) = {} /\ ~Answered(m)
        BY <2>1, <2>2, <2>3, <3>4, NoObjs DEF Token, Follows
      <4>2. Objs(m)' = {g}
        BY <1>6, <2>1, <3>4, <4>1 DEF Objs
      <4>3. ~Told1(m)' /\ ~Asked(m)'
        BY <1>2, <3>1, <3>2, <4>1, FramesAside DEF Answered, Asked, SameUrls
      <4>4. Single(m)'
        BY <2>1, <4>2 DEF Single, Is
      <4>5. OneToken(m)'
        BY <4>3 DEF OneToken, Told1, Asked
      <4>6. ~Begun(g)'
        BY <1>5, <2>1, NoInit DEF Begun, Is
      <4>7. Follows(m)'
        BY <4>2, <4>3, <4>6 DEF Follows, Answered
      <4> QED
        BY <4>4, <4>5, <4>7 DEF Token
    <3> QED
      BY <3>3, <3>4
  <2>4. \A m \in Ids : Unmoved(m)' => Unmoved(m)
    BY <1>2 DEF Unmoved
  <2>5. NoFails'
    <3>1. PICK k, d, b : Came(k, d, b) /\ \A j \in 1..k : j \in DOMAIN stack' => Aside(stack'[j])
      BY <1>5 DEF AsideStack
    <3> QED
      BY <1>2, <3>1, NoFailsKept DEF Aside
  <2> QED
    BY <1>2, <2>3, <2>4, <2>5, LoadEach
<1> QED
  BY <1>7, <1>8

(* The object that a call of init is for, of a module that is about        *)
LEMMA FoundObjs ==
  ASSUME NEW id \in Ids, NEW h, Found(id, h), NEW m \in Ids, m # id,
         UNCHANGED << defined, urlFetched >>
  PROVE  SameObjs(m)
<1>1. Handles' = Handles \/ Handles' = Handles \cup {h}
  BY DEF Found, Handles
<1>2. Objs(m)' = Objs(m)
  BY <1>1 DEF Objs, Found
<1> QED
  BY <1>2 DEF SameObjs, Objs, Found, Is, Begun

LEMMA LoadQueue == ASSUME TypeInv, TypeInv', FlagInv, LoadInv, DidQueue PROVE LoadInv'
<1>1. PICK i \in Sourced : \/ Pulls("require", i, Top)
                           \/ Top.id \in Ids /\ Pulls("complete", i, NextComplete(i))
  BY DEF DidQueue
<1>2. UNCHANGED << names, wait, useInteractive, scripts, issued, answers >> /\ EntryTaken(i) /\ i \in Ids
  BY <1>1 DEF Pulls, Sourced
<1>3. UNCHANGED << defined, urlFetched, paths, useInteractive, scripts >> /\ globalDefQueue' = << >>
  BY <1>2 DEF names, EntryTaken
<1>4. ASSUME ~useInteractive, NEW m \in Ids, Token(m), Unmoved(m)' PROVE Token(m)'
  <2>1. stack = << [op |-> "complete", id |-> i, found |-> FALSE] >> /\ globalDefQueue # << >>
    BY <1>2, <1>4 DEF EntryTaken
  <2>2. Len(stack) = 1 /\ stack[1].op = "complete" /\ stack[1].id = i /\ DOMAIN stack = {1}
    BY <2>1
  <2>3. Top = stack[1]
    <3>1. stack # << >> /\ StackOk
      BY <2>1 DEF TypeInv
    <3> QED
      BY <3>1, TopGood
  <2>4. Pulls("complete", i, NextComplete(i))
    BY <1>1, <2>2, <2>3 DEF Pulls, At
  <2>5. PICK h \in Handles' : Pulling(i, h, DepNames[i], NextComplete(i)) /\ At("complete")
    BY <2>4 DEF Pulls
  <2>6. /\ Found(i, h) /\ Shifted(2) /\ {1, 2} \subseteq DOMAIN stack'
        /\ stack'[1].op = "init" /\ stack'[1].h = h /\ stack'[2].op = "complete" /\ stack'[2].id = i
    BY <2>2, <2>3, <2>5 DEF Pulling, init, NextComplete
  <2>7. DOMAIN stack' = {1, 2}
    <3>1. Len(stack') = 2
      BY <2>2, <2>6 DEF Shifted
    <3>2. PICK S : stack' \in Seq(S)
      BY <2>6 DEF Shifted, IsSeq
    <3>3. DOMAIN stack' = 1..2
      BY <3>1, <3>2
    <3> QED
      BY <3>3
  <2>8. CASE m # i
    <3>1. SameObjs(m)
      BY <1>2, <1>3, <2>6, <2>8, FoundObjs
    <3>2. SameScripts(m)
      BY <1>3 DEF SameScripts
    <3>3. Came(2, 1 - 2, 1)
      BY <2>5, <2>6, CameShifted DEF TypeInv, At
    <3>4. h \notin Objs(m)
      BY <2>6, <2>8 DEF Objs, Found
    <3>5. NotAbout(stack'[1], m) /\ NotAbout(stack'[2], m)
      BY <2>6, <2>8, <3>4 DEF NotAbout, About
    <3>6. \A j \in 1..2 : j \in DOMAIN stack' => NotAbout(stack'[j], m)
      BY <2>7, <3>5
    <3> QED
      BY <1>4, <3>1, <3>2, <3>3, <3>6, TokenAside
  <2>9. CASE m = i
    <3>1. Told1(m) /\ Queued(m) /\ Answered(m)
      BY <2>1, <2>2, <2>9 DEF Told1, About, Queued, Answered
    <3>2. ~Asked(m) /\ \A s \in scripts : s.id # m
      BY <1>4, <3>1 DEF Token, OneToken, Asked
    <3>3. Objs(m) # {} /\ \A g \in Objs(m) : ~Begun(g) /\ mods[g].url \in urlFetched
      BY <1>4, <3>1 DEF Token, Follows
    <3>4. \A g \in Objs(m) : Registered(g)
      BY <1>4, <3>3 DEF Token, Single, FlagInv, Begun, Is, Objs
    <3>5. Lookup(m) # 0
      BY <3>3, <3>4, LookupFacts DEF Objs, Registered, TypeInv
    <3>6. UNCHANGED << mods, registry >>
      BY <2>6, <2>9, <3>5 DEF Found
    <3>7. Single(m)'
      BY <1>3, <1>4, <3>6 DEF Token, Single, Objs, Handles, Registered, Is
    <3>8. ~Asked(m)' /\ \A s \in scripts' : s.id # m
      BY <1>3, <3>2 DEF Asked
    <3>9. \A j \in DOMAIN stack' : About(stack'[j], m) => j = 2
      BY <2>6, <2>7 DEF About
    <3>10. OneToken(m)'
      BY <3>8, <3>9 DEF OneToken
    <3>11. ~Failed1(m)'
      BY <2>6, <2>7 DEF Failed1
    <3>12. ~Waiting(m)' /\ ~Queued(m)'
      BY <1>3, <3>8, <3>11 DEF Waiting, Queued
    <3>13. Objs(m)' = Objs(m)
      BY <3>6 DEF Objs, Handles
    <3>14. Follows(m)'
      BY <1>3, <3>3, <3>6, <3>12, <3>13 DEF Follows
    <3> QED
      BY <3>7, <3>10, <3>14 DEF Token
  <2> QED
    BY <2>8, <2>9
<1>5. \A m \in Ids : Unmoved(m)' => Unmoved(m)
  BY <1>3 DEF Unmoved
<1>6. NoFails'
  <2>1. PICK g, op : /\ At(op) /\ op # "scriptError" /\ \E h \in Handles' : Pulling(i, h, DepNames[i], g)
                     /\ g = Top \/ g = NextComplete(i)
    BY <1>1 DEF Pulls
  <2>2. Shifted(2) /\ stack'[1].op = "init" /\ stack'[2] = g /\ g.op # "scriptError"
    BY <2>1 DEF Pulling, init, NextComplete, At
  <2>3. Came(2, 1 - 2, 1)
    BY <2>1, <2>2, CameShifted DEF TypeInv, At
  <2>4. \A j \in 1..2 : j \in DOMAIN stack' => stack'[j].op # "scriptError"
    <3>1. 1..2 = {1, 2}
      OBVIOUS
    <3> QED
      BY <2>2, <3>1
  <2> QED
    BY <1>3, <2>3, <2>4, NoFailsKept
<1> QED
  BY <1>3, <1>4, <1>5, <1>6, LoadEach

LEMMA LoadEnd == ASSUME TypeInv, TypeInv', LoadInv, DidEnd PROVE LoadInv'
<1>1. /\ QueueDone /\ At("complete")
      /\ UNCHANGED << registry, names, queues, wait, useInteractive, scripts, issued, answers >>
  BY DEF DidEnd
<1>2. UNCHANGED << mods, registry, defined, urlFetched, paths, useInteractive, scripts, globalDefQueue >>
  BY <1>1 DEF names, queues, QueueDone
<1>3. /\ Shifted(1) /\ 1 \in DOMAIN stack' /\ 1 \in DOMAIN stack
      /\ stack'[1].op = "completed" /\ stack'[1].id = stack[1].id /\ stack[1].op = "complete"
  BY <1>1 DEF QueueDone, At
<1>4. Came(1, 1 - 1, 1)
  BY <1>1, <1>3, CameShifted DEF TypeInv, At
<1>5. \A j \in DOMAIN stack' : j \in Nat \ {0} /\ j \in DOMAIN stack /\ (j = 1 \/ stack'[j] = stack[j])
  BY <1>3, <1>4 DEF Came
<1>6. ASSUME ~useInteractive, NEW m \in Ids, Token(m), Unmoved(m)' PROVE Token(m)'
  <2>1. globalDefQueue = << >>
    BY <1>1, <1>6 DEF QueueDone
  <2>2. \A j \in DOMAIN stack' : About(stack'[j], m) => About(stack[j], m)
    BY <1>3, <1>5 DEF About
  <2>3. Told1(m)' => Told1(m)
    BY <1>5, <2>2 DEF Told1
  <2>4. Failed1(m)' => Failed1(m)
    BY <1>3, <1>5 DEF Failed1
  <2>5. OneToken(m)'
    BY <1>2, <1>5, <1>6, <2>2, <2>3 DEF Token, OneToken, Asked
  <2>6. Single(m)'
    BY <1>2, <1>6 DEF Token, Single, Objs, Handles, Registered, Is
  <2>7. \A j \in DOMAIN stack' : stack'[j].op # "init"
    BY <1>3, NoInit
  <2>8. \A h \in Objs(m) : Begun(h)' => Begun(h)
    BY <1>2, <2>7 DEF Begun, Is
  <2>9. (Waiting(m)' => Waiting(m)) /\ (Queued(m)' => Queued(m)) /\ (Answered(m)' => Answered(m))
    BY <1>2, <2>1, <2>3, <2>4 DEF Waiting, Queued, Answered, Asked
  <2>10. Objs(m)' = Objs(m)
    BY <1>2 DEF Objs, Handles
  <2>11. Follows(m)'
    BY <1>2, <1>6, <2>8, <2>9, <2>10 DEF Token, Follows
  <2> QED
    BY <2>5, <2>6, <2>11 DEF Token
<1>7. \A m \in Ids : Unmoved(m)' => Unmoved(m)
  BY <1>2 DEF Unmoved
<1>8. NoFails'
  BY <1>2, <1>3, <1>4, NoFailsKept
<1> QED
  BY <1>2, <1>6, <1>7, <1>8, LoadEach

LEMMA LoadGive == ASSUME TypeInv, TypeInv', LoadInv, DidGive PROVE LoadInv'
<1>1. PICK id \in Ids : Given(id) /\ At("completed") /\ UNCHANGED << names, wait, world, answers >>
  BY DEF DidGive
<1>2. UNCHANGED << defined, urlFetched, paths, useInteractive, scripts, globalDefQueue >>
  BY <1>1 DEF names, world, queues
<1>3. PICK h \in Handles' : Pulling(id, h, ShimDeps(id), checkLoaded)
  BY <1>1 DEF Given
<1>4. /\ Found(id, h) /\ Shifted(2) /\ {1, 2} \subseteq DOMAIN stack' /\ 1 \in DOMAIN stack
      /\ stack'[1].op = "init" /\ stack'[1].h = h /\ stack'[2].op = "checkLoaded"
      /\ stack[1].op = "completed" /\ stack[1].id = id
  BY <1>1, <1>3 DEF Pulling, init, checkLoaded, Given, At
<1>5. Came(2, 1 - 2, 1)
  BY <1>1, <1>4, CameShifted DEF TypeInv, At
<1>6. \A j \in DOMAIN stack' : j = 1 \/ j = 2 \/ \E l \in DOMAIN stack : l # 1 /\ stack'[j] = stack[l]
  <2> SUFFICES ASSUME NEW j \in DOMAIN stack', j # 1, j # 2 PROVE \E l \in DOMAIN stack : l # 1 /\ stack'[j] = stack[l]
    OBVIOUS
  <2>1. j \in Nat \ {0}
    BY <1>5 DEF Came
  <2>2. j > 2
    BY <2>1
  <2>3. j + (1 - 2) \in DOMAIN stack /\ j + (1 - 2) > 1 /\ stack'[j] = stack[j + (1 - 2)]
    BY <1>5, <2>2 DEF Came
  <2> QED
    BY <2>1, <2>3
<1>7. Lookup(id) # 0 /\ UNCHANGED << mods, registry >>
  BY <1>1, <1>4 DEF Given, Found
<1>8. ASSUME NEW m \in Ids, Token(m), Unmoved(m)' PROVE Token(m)'
  <2>1. CASE m # id
    <3>1. SameObjs(m)
      BY <1>2, <1>4, <2>1, FoundObjs
    <3>2. SameScripts(m)
      BY <1>2 DEF SameScripts
    <3>3. h \notin Objs(m)
      BY <1>4, <2>1 DEF Objs, Found
    <3>4. NotAbout(stack'[1], m) /\ NotAbout(stack'[2], m)
      BY <1>4, <2>1, <3>3 DEF NotAbout, About
    <3>5. \A j \in 1..2 : j \in DOMAIN stack' => NotAbout(stack'[j], m)
      <4>1. 1..2 = {1, 2}
        OBVIOUS
      <4> QED
        BY <3>4, <4>1
    <3> QED
      BY <1>5, <1>8, <3>1, <3>2, <3>5, TokenAside
  <2>2. CASE m = id
    <3>1. About(stack[1], m) /\ Told1(m) /\ Answered(m)
      BY <1>4, <2>2 DEF Told1, About, Answered
    <3>2. ~Asked(m) /\ \A s \in scripts : s.id # m
      BY <1>8, <3>1 DEF Token, OneToken, Asked
    <3>3. \A l \in DOMAIN stack : About(stack[l], m) => l = 1
      BY <1>4, <1>8, <3>1 DEF Token, OneToken
    <3>4. \A j \in DOMAIN stack' : ~About(stack'[j], m)
      BY <1>4, <1>6, <3>3 DEF About
    <3>5. ~Told1(m)' /\ ~Failed1(m)'
      BY <3>4 DEF Told1, Failed1, About
    <3>6. \A j \in DOMAIN stack' : ~(stack'[j].op = "complete" /\ stack'[j].id = m)
      BY <3>4 DEF About
    <3>7. ~Asked(m)' /\ ~Waiting(m)' /\ ~Queued(m)'
      BY <1>2, <3>2, <3>5, <3>6 DEF Asked, Waiting, Queued
    <3>8. OneToken(m)'
      BY <1>2, <1>8, <3>5, <3>7 DEF OneToken, Token, Told1
    <3>9. Single(m)'
      BY <1>2, <1>7, <1>8 DEF Token, Single, Objs, Handles, Registered, Is
    <3>10. Objs(m)' = Objs(m)
      BY <1>7 DEF Objs, Handles
    <3>11. Follows(m)'
      BY <1>2, <1>7, <1>8, <3>1, <3>5, <3>7, <3>10 DEF Token, Follows, Answered
    <3> QED
      BY <3>8, <3>9, <3>11 DEF Token
  <2> QED
    BY <2>1, <2>2
<1>9. \A m \in Ids : Unmoved(m)' => Unmoved(m)
  BY <1>2 DEF Unmoved
<1>10. NoFails'
  <2>1. \A j \in 1..2 : j \in DOMAIN stack' => stack'[j].op # "scriptError"
    <3>1. 1..2 = {1, 2}
      OBVIOUS
    <3> QED
      BY <1>4, <3>1
  <2> QED
    BY <1>2, <1>5, <2>1, NoFailsKept
<1> QED
  BY <1>2, <1>8, <1>9, <1>10, LoadEach

(* A script's load or error event, or its execution                        *)
LEMMA LoadFirst ==
  ASSUME TypeInv, TypeInv', LoadInv, NEW s \in scripts, scripts' = scripts \ {s}, UNCHANGED mods,
         UNCHANGED << registry, names, queues, useInteractive >>, stack = << >>,
         IsSeq(stack'), DOMAIN stack' = {1}, stack'[1].id = s.id,
         \/ stack'[1].op = "complete" /\ s.executed
         \/ stack'[1].op = "scriptError" /\ ~s.executed /\ ~useInteractive
  PROVE  LoadInv'
<1>1. Came(1, 0, 0)
  BY CameFirst
<1>2. UNCHANGED << defined, urlFetched, paths, globalDefQueue >>
  BY DEF names, queues
<1>3. SameHandles
  BY SameUnchanged DEF Registered
<1>4. ASSUME NEW m \in Ids, Token(m), Unmoved(m)' PROVE Token(m)'
  <2>1. SameObjs(m)
    BY <1>2, <1>3, ObjsSame
  <2>2. CASE m # s.id
    <3>1. SameScripts(m)
      BY <1>2 DEF SameScripts
    <3>2. NotAbout(stack'[1], m)
      BY <2>2 DEF NotAbout, About
    <3> QED
      BY <1>1, <1>4, <2>1, <3>1, <3>2, TokenAside
  <2>3. CASE m = s.id
    <3>1. Answered(m) /\ (s.executed => Queued(m)) /\ (~s.executed => Waiting(m))
      BY <2>3 DEF Answered, Asked, Queued, Waiting
    <3>2. \A t \in scripts' : t.id # m
      BY <1>4, <2>3 DEF Token, OneToken
    <3>3. Objs(m) # {} /\ \A h \in Objs(m) : ~Begun(h) /\ mods[h].url \in urlFetched
      BY <1>4, <3>1 DEF Token, Follows
    <3>4. \A j \in DOMAIN stack' : stack'[j].op # "init"
      BY NoInit
    <3>5. \A h \in Objs(m) : ~Begun(h)'
      BY <3>3, <3>4 DEF Begun, Is
    <3>6. OneToken(m)'
      BY <3>2 DEF OneToken, Asked
    <3>7. Single(m)'
      BY <1>4, <2>1, SingleAside DEF Token
    <3>8. Objs(m)' = Objs(m)
      BY DEF Objs, Handles
    <3>9. Follows(m)'
      BY <1>2, <3>3, <3>5, <3>8 DEF Follows
    <3> QED
      BY <3>6, <3>7, <3>9 DEF Token
  <2> QED
    BY <2>2, <2>3
<1>5. \A m \in Ids : Unmoved(m)' => Unmoved(m)
  BY <1>2 DEF Unmoved
<1>6. NoFails'
  BY DEF NoFails
<1> QED
  BY <1>4, <1>5, <1>6, LoadEach

LEMMA LoadLoad == ASSUME TypeInv, TypeInv', LoadInv, DidLoad PROVE LoadInv'
<1>1. PICK s \in scripts : Loaded(s) /\ UNCHANGED << registry, names, queues, wait, useInteractive, issued, answers >>
  BY DEF DidLoad
<1>2. stack'[1].id = s.id /\ stack'[1].op = "complete" /\ s.executed
  BY <1>1 DEF Loaded
<1> QED
  BY <1>1, <1>2, LoadFirst DEF Loaded

LEMMA LoadFail == ASSUME TypeInv, TypeInv', LoadInv, DidFail PROVE LoadInv'
<1>1. PICK s \in scripts : Failing(s) /\ UNCHANGED << registry, names, queues, wait, useInteractive, issued, answers >>
  BY DEF DidFail
<1>2. stack'[1].id = s.id /\ stack'[1].op = "scriptError" /\ ~s.executed /\ ~useInteractive
  BY <1>1 DEF Failing
<1> QED
  BY <1>1, <1>2, LoadFirst DEF Failing

LEMMA LoadRun == ASSUME TypeInv, TypeInv', LoadInv, DidRun PROVE LoadInv'
<1>1. PICK s \in scripts : Running(s) /\ UNCHANGED << registry, names, wait, useInteractive, issued, called >>
  BY DEF DidRun
<1>2. UNCHANGED << mods, registry, stack, defined, urlFetched, paths, useInteractive >> /\ stack = << >>
  BY <1>1 DEF names, Running
<1>3. PICK t : t = [s EXCEPT !.executed = TRUE]
  OBVIOUS
<1>4. s \in scripts /\ s \in Script /\ ~s.executed /\ scripts' = (scripts \ {s}) \cup {t}
  BY <1>1, <1>3 DEF Running, TypeInv, PageOk
<1>5. t.id = s.id /\ t.executed
  BY <1>3, <1>4 DEF Script
<1>6. DOMAIN stack' = {} /\ DOMAIN stack = {} /\ IsSeq(stack')
  <2>1. DOMAIN << >> = {}
    OBVIOUS
  <2> QED
    BY <1>2, <2>1 DEF TypeInv, StackOk
<1>7. Came(0, 0, 0)
  BY <1>6 DEF Came
<1>8. SameHandles
  BY <1>2, SameUnchanged DEF Registered
<1>9. ASSUME NEW m \in Ids, Token(m), Unmoved(m)' PROVE Token(m)'
  <2>1. SameObjs(m)
    BY <1>2, <1>8, ObjsSame
  <2>2. CASE m # s.id
    <3>1. SameScripts(m)
      BY <1>4, <1>5, <1>6, <2>2 DEF SameScripts
    <3>2. \A j \in 1..0 : j \in DOMAIN stack' => NotAbout(stack'[j], m)
      OBVIOUS
    <3> QED
      BY <1>7, <1>9, <2>1, <3>1, <3>2, TokenAside
  <2>3. CASE m = s.id
    <3>1. Answered(m) /\ Waiting(m)
      BY <1>4, <2>3 DEF Answered, Asked, Waiting
    <3>2. \A a \in scripts' : a.id = m => a = t
      BY <1>4, <1>9, <2>3 DEF Token, OneToken
    <3>3. Objs(m) # {} /\ \A h \in Objs(m) : ~Begun(h) /\ mods[h].url \in urlFetched
      BY <1>9, <3>1 DEF Token, Follows
    <3>4. \A h \in Objs(m) : ~Begun(h)'
      BY <1>2, <3>3 DEF Begun, Is
    <3>5. ~Told1(m)'
      BY <1>6 DEF Told1
    <3>6. OneToken(m)'
      BY <1>6, <3>2, <3>5 DEF OneToken
    <3>7. Single(m)'
      BY <1>9, <2>1, SingleAside DEF Token
    <3>8. Objs(m)' = Objs(m)
      BY <1>2 DEF Objs, Handles
    <3>9. Follows(m)'
      BY <1>2, <3>3, <3>4, <3>8 DEF Follows
    <3> QED
      BY <3>6, <3>7, <3>9 DEF Token
  <2> QED
    BY <2>2, <2>3
<1>10. \A m \in Ids : Unmoved(m)' => Unmoved(m)
  BY <1>2 DEF Unmoved
<1>11. NoFails'
  BY <1>6 DEF NoFails
<1> QED
  BY <1>2, <1>9, <1>10, <1>11, LoadEach

(* A path that has moved on is shorter than it was at the start            *)
LEMMA Shorter ==
  ASSUME NEW q \in MovedPaths, NEW p \in DOMAIN Paths
  PROVE  Len(q[p]) \in Nat /\ Len(q[p]) <= Len(Paths[p]) /\ q[p] \in Seq(Names) /\ Len(Paths[p]) \in Nat
<1>1. q[p] \in Rests(p) /\ Paths[p] \in Seq(Names)
  BY RequireAssumption DEF MovedPaths
<1>2. PICK k \in 1..Len(Paths[p]) : q[p] = SubSeq(Paths[p], k, Len(Paths[p]))
  BY <1>1 DEF Rests
<1>3. PICK n \in Nat : n = Len(Paths[p])
  BY <1>1
<1>4. k \in 1..n /\ q[p] = SubSeq(Paths[p], k, n)
  BY <1>2, <1>3
<1>5. SubSeq(Paths[p], k, n) \in Seq(Names) /\ Len(SubSeq(Paths[p], k, n)) = n - k + 1
  BY <1>1, <1>3, <1>4, SubSeqProperties
<1> QED
  BY <1>3, <1>4, <1>5

(* A module that has moved to its second place has done so for good. *)
LEMMA MovedShorter ==
  ASSUME TypeInv, NEW id \in Ids, HasPathFallback(id), paths' = [paths EXCEPT ![id] = Tail(@)]
  PROVE  id \in DOMAIN Paths /\ ~Unmoved(id)' /\ \A m \in Ids : Unmoved(m)' => Unmoved(m)
<1>1. paths \in MovedPaths /\ id \in DOMAIN paths /\ DOMAIN paths = DOMAIN Paths
  BY DEF TypeInv, NamesOk, HasPathFallback, MovedPaths
<1>2. Len(paths[id]) \in Nat /\ Len(paths[id]) <= Len(Paths[id]) /\ paths[id] \in Seq(Names) /\ Len(Paths[id]) \in Nat
  BY <1>1, Shorter
<1>3. paths'[id] = Tail(paths[id]) /\ \A m \in DOMAIN Paths : m # id => paths'[m] = paths[m]
  BY <1>1
<1>4. paths[id] # << >> /\ Len(Tail(paths[id])) = Len(paths[id]) - 1
  BY <1>2 DEF HasPathFallback
<1>5. paths'[id] # Paths[id]
  <2>1. PICK a \in Nat, b \in Nat : a = Len(paths[id]) /\ b = Len(Paths[id])
    BY <1>2
  <2>2. Len(paths'[id]) = a - 1 /\ a <= b
    BY <1>2, <1>3, <1>4, <2>1
  <2>3. a - 1 # b
    BY <2>1, <2>2
  <2> QED
    BY <2>1, <2>2, <2>3
<1> QED
  BY <1>1, <1>3, <1>5 DEF Unmoved

LEMMA LoadMove == ASSUME OwnPlaces, TypeInv, TypeInv', LoadInv, DidMove PROVE LoadInv'
<1>1. PICK id \in Ids : MovedAway(id) /\ UNCHANGED << world, answers >>
  BY DEF DidMove
<1>2. UNCHANGED << mods, useInteractive, scripts, globalDefQueue >>
  BY <1>1 DEF MovedAway, world, queues
<1>3. HasPathFallback(id) /\ paths' = [paths EXCEPT ![id] = Tail(@)] /\ undef(id, paths')
  BY <1>1 DEF MovedAway
<1>4. ~Unmoved(id)' /\ \A m \in Ids : Unmoved(m)' => Unmoved(m)
  BY <1>3, MovedShorter
<1>5. /\ defined' = defined \ {id} /\ urlFetched' = urlFetched \ {nameToUrl(id, paths')}
      /\ registry' = registry \/ (registry' = Unregister(Lookup(id)) /\ Lookup(id) # 0)
  <2>1. /\ defined' = defined \ {id} /\ urlFetched' = urlFetched \ {nameToUrl(id, paths')}
        /\ IF Lookup(id) # 0 THEN removeWaiting(id) ELSE UNCHANGED << registry, wait >>
    BY <1>3 DEF undef
  <2>2. CASE Lookup(id) # 0 /\ removeWaiting(id)
    BY <2>1, <2>2 DEF removeWaiting
  <2> QED
    BY <2>1, <2>2
<1>6. \A h \in Handles : Registered(h) => Registered(h)' \/ mods[h].id = id
  <2>1. CASE registry' = registry
    BY <2>1 DEF Registered
  <2>2. CASE registry' = Unregister(Lookup(id)) /\ Lookup(id) # 0
    <3>1. mods[Lookup(id)].id = id
      BY <2>2, LookupFacts DEF TypeInv
    <3>2. \A h \in Handles : Registered(h) => Registered(h)' \/ h = Lookup(id)
      BY <2>2, UnregisterFacts DEF TypeInv, Registered
    <3> QED
      BY <3>1, <3>2
  <2> QED
    BY <1>5, <2>1, <2>2
<1>7. nameToUrl(id, paths') \in Places(id)
  BY DEF TypeInv, NamesOk, Places
<1>8. PICK k \in {1, 2} : Shifted(k) /\ 1 \in DOMAIN stack' /\ Aside(stack'[1]) /\ (k = 2 => Aside(stack'[2]))
  <2>1. Aside(stack'[1])
    BY <1>1, AsideOps DEF MovedAway
  <2> QED
    BY <1>1, <2>1 DEF MovedAway, Mild, Keys, Aside
<1>9. Came(k, 1 - k, 1)
  BY <1>1, <1>8, CameShifted DEF MovedAway, TypeInv
<1>10. ASSUME NEW m \in Ids, Token(m), Unmoved(m)' PROVE Token(m)'
  <2>1. m # id /\ m # << >>
    BY <1>4, <1>10, RequireAssumption
  <2>2. \A h \in Objs(m) : mods[h].url \in Places(m)
    BY <2>1 DEF Objs, TypeInv, RegInv, isDefine
  <2>3. \A h \in Objs(m) : mods[h].url # nameToUrl(id, paths')
    BY <1>7, <2>1, <2>2 DEF OwnPlaces
  <2>4. Objs(m)' = Objs(m)
    BY <1>2 DEF Objs, Handles
  <2>5. SameObjs(m)
    BY <1>2, <1>5, <1>6, <2>1, <2>3, <2>4 DEF SameObjs, Is, Begun, Objs
  <2>6. SameScripts(m)
    BY <1>2 DEF SameScripts
  <2>7. \A j \in 1..k : j \in DOMAIN stack' => NotAbout(stack'[j], m)
    <3>1. 1..1 = {1} /\ 1..2 = {1, 2}
      OBVIOUS
    <3> QED
      BY <1>8, <3>1 DEF Aside, NotAbout, About, Objs
  <2> QED
    BY <1>9, <1>10, <2>5, <2>6, <2>7, TokenAside
<1>11. NoFails'
  <2>1. \A j \in 1..k : j \in DOMAIN stack' => stack'[j].op # "scriptError"
    <3>1. 1..1 = {1} /\ 1..2 = {1, 2}
      OBVIOUS
    <3> QED
      BY <1>8, <3>1 DEF Aside
  <2> QED
    BY <1>2, <1>9, <2>1, NoFailsKept
<1> QED
  BY <1>2, <1>4, <1>10, <1>11, LoadEach

LEMMA LoadHolds ==
  ASSUME OwnPlaces, TypeInv, TypeInv', FlagInv, LoadInv, Did
  PROVE  LoadInv'
BY LoadQuiet, LoadInit, LoadEnable, LoadWire, LoadServe, LoadTake, LoadListen, LoadFetch, LoadStart,
   LoadExec, LoadThrow, LoadCall, LoadDefine, LoadNotify, LoadEmitted, LoadEmit, LoadQueue, LoadEnd,
   LoadGive, LoadRequire, LoadForce, LoadMove, LoadAsk, LoadLoad, LoadFail, LoadRun DEF Did

(* The modules that waitAry holds are those that wait: waitCount is the    *)
(* number of those not defined yet                                         *)
InWait(h) == \E k \in DOMAIN waitAry : waitAry[k] = h
Awaited == {h \in Handles : InWait(h) /\ ~Is(h, "defined")}
WaitInv ==
  /\ waitCount = Cardinality(Awaited)
  /\ \A j, k \in DOMAIN waitAry : waitAry[j] = waitAry[k] => j = k
  /\ \A h \in Handles :
       /\ InWait(h) => Is(h, "waitPushed")
       /\ Is(h, "inited") => Registered(h) \/ Is(h, "defined")
       /\ Is(h, "waitPushed") /\ Registered(h) => InWait(h) \/ Is(h, "defined")

(* Finitely many modules wait. *)
LEMMA AwaitedFinite == ASSUME ModsOk PROVE IsFiniteSet(Awaited) /\ Cardinality(Awaited) \in Nat
<1>1. Len(mods) \in Nat
  BY HandleFacts
<1>2. IsFiniteSet(1..Len(mods))
  BY <1>1, FS_Interval
<1>3. Awaited \subseteq 1..Len(mods)
  BY DEF Awaited, Handles
<1>4. IsFiniteSet(Awaited)
  BY <1>2, <1>3, FS_Subset
<1> QED
  BY <1>4, FS_CardinalityType

(* What waitCount counts by positions is the number of modules that wait. *)
LEMMA WaitCounted == TypeInv /\ WaitInv => WaitCountExact
<1> SUFFICES ASSUME TypeInv, WaitInv PROVE WaitCountExact
  OBVIOUS
<1> DEFINE K == {k \in DOMAIN waitAry : ~Is(waitAry[k], "defined")}
           f == [k \in K |-> waitAry[k]]
<1>1. waitAry \in Seq(Handles) /\ ModsOk
  BY DEF TypeInv, WaitOk
<1>2. \A k \in K : waitAry[k] \in Awaited
  BY <1>1 DEF Awaited, InWait
<1>3. \A h \in Awaited : \E k \in K : waitAry[k] = h
  BY DEF Awaited, InWait
<1>4. f \in Bijection(K, Awaited)
  <2>1. f \in [K -> Awaited]
    BY <1>2
  <2>2. \A j, k \in K : f[j] = f[k] => j = k
    BY DEF WaitInv
  <2>3. \A h \in Awaited : \E k \in K : f[k] = h
    BY <1>3
  <2> HIDE DEF f, K
  <2> QED
    BY <2>1, <2>2, <2>3, Fun_IsBij
<1>5. IsFiniteSet(Awaited)
  BY <1>1, AwaitedFinite
<1>6. Cardinality(K) = Cardinality(Awaited)
  <2> HIDE DEF f, K
  <2>1. ExistsBijection(K, Awaited)
    BY <1>4 DEF ExistsBijection
  <2>2. IsFiniteSet(K)
    BY <1>5, <2>1, FS_Bijection, Fun_ExistsBijSymmetric
  <2> QED
    BY <1>5, <2>1, <2>2, FS_Bijection
<1> QED
  BY <1>6 DEF WaitInv, WaitCountExact

(* Steps that change nothing that waitAry depends on                       *)
WaitFlags == {"inited", "defined", "waitPushed"}
SameFlags(h) == \A f \in WaitFlags : f \in mods'[h].is <=> f \in mods[h].is
SameWaiting ==
  /\ \A h \in Handles : h \in Handles' /\ (Registered(h)' <=> Registered(h)) /\ SameFlags(h)
  /\ \A h \in Handles' : h \notin Handles => mods'[h].is = {}

(* A step that changes neither waitAry nor what it depends on. *)
LEMMA WaitSame == ASSUME TypeInv, WaitInv, UNCHANGED wait, SameWaiting PROVE WaitInv'
<1>1. waitAry' = waitAry /\ waitCount' = waitCount /\ waitAry \in Seq(Handles)
  BY DEF wait, TypeInv, WaitOk
<1>2. \A h \in Handles :
        /\ h \in Handles' /\ (Registered(h)' <=> Registered(h))
        /\ "inited" \in mods'[h].is <=> Is(h, "inited")
        /\ "defined" \in mods'[h].is <=> Is(h, "defined")
        /\ "waitPushed" \in mods'[h].is <=> Is(h, "waitPushed")
  BY DEF SameWaiting, SameFlags, WaitFlags, Is
<1>3. \A h : InWait(h)' <=> InWait(h)
  BY <1>1 DEF InWait
<1>4. \A h : InWait(h) => h \in Handles
  BY <1>1 DEF InWait
<1>5. Awaited' = Awaited
  BY <1>2, <1>3, <1>4 DEF Awaited, Is
<1>6. \A h \in Handles' : h \notin Handles => ~InWait(h)' /\ mods'[h].is = {}
  BY <1>3, <1>4 DEF SameWaiting
<1> QED
  BY <1>1, <1>2, <1>3, <1>5, <1>6 DEF WaitInv, Is

LEMMA WaitUnchanged ==
  ASSUME TypeInv, WaitInv, UNCHANGED << mods, registry, wait >> PROVE WaitInv'
<1>1. SameWaiting
  BY DEF SameWaiting, SameFlags, Handles, Registered
<1> QED
  BY <1>1, WaitSame

LEMMA WaitOnly ==
  ASSUME TypeInv, TypeInv', WaitInv, NEW h \in Handles, OnlyMod(h), UNCHANGED << registry, wait >>, SameFlags(h)
  PROVE  WaitInv'
<1>1. Handles' = Handles
  BY DEF OnlyMod, Handles
<1>2. SameWaiting
  BY <1>1 DEF SameWaiting, SameFlags, OnlyMod, Registered
<1> QED
  BY <1>2, WaitSame

(* A step that finds a Module, or makes one                                *)
LEMMA WaitFound ==
  ASSUME TypeInv, WaitInv, UNCHANGED wait, NEW id, NEW h, Found(id, h)
  PROVE  WaitInv'
<1>1. Handles' = Handles \/ (Handles' = Handles \cup {h} /\ mods'[h].is = {})
  BY DEF Found, Handles, NewMod
<1>2. SameWaiting
  BY <1>1 DEF Found, SameWaiting, SameFlags
<1> QED
  BY <1>2, WaitSame

(* WaitInv, step by step. *)
LEMMA WaitQuiet == ASSUME TypeInv, WaitInv, Quiet PROVE WaitInv'
<1>1. SameMods /\ UNCHANGED << registry, wait >>
  BY DEF Quiet
<1>2. Handles' = Handles
  BY <1>1, SameKept DEF TypeInv
<1>3. \A h \in Handles : SameFlags(h)
  BY <1>1 DEF SameMods, SameFlags, WaitFlags, Flags
<1>4. SameWaiting
  BY <1>1, <1>2, <1>3 DEF SameWaiting, Registered
<1> QED
  BY <1>1, <1>4, WaitSame

(* init() registers the module that waits and enters it in waitAry once. *)
LEMMA WaitInit == ASSUME TypeInv, TypeInv', WaitInv, DidInit PROVE WaitInv'
<1>1. PICK h \in Handles : Inited(h) /\ Plain
  BY DEF DidInit
<1>2. /\ waitAry' = waitAry /\ waitCount' = waitCount /\ registry' = registry /\ Registered(h)
      /\ OnlyMod(h) /\ mods'[h].is = mods[h].is \cup {"inited"} /\ Handles' = Handles
  BY <1>1 DEF Inited, Plain, wait, OnlyMod, Handles
<1>3. \A g \in Handles : mods'[g].is = IF g = h THEN mods[g].is \cup {"inited"} ELSE mods[g].is
  BY <1>2 DEF OnlyMod
<1>4. \A g \in Handles :
        /\ "defined" \in mods'[g].is <=> Is(g, "defined")
        /\ "waitPushed" \in mods'[g].is <=> Is(g, "waitPushed")
        /\ "inited" \in mods'[g].is => g = h \/ Is(g, "inited")
  <2> SUFFICES ASSUME NEW g \in Handles
               PROVE  /\ "defined" \in mods'[g].is <=> Is(g, "defined")
                      /\ "waitPushed" \in mods'[g].is <=> Is(g, "waitPushed")
                      /\ "inited" \in mods'[g].is => g = h \/ Is(g, "inited")
    OBVIOUS
  <2>1. mods'[g].is = mods[g].is \/ (g = h /\ mods'[g].is = mods[g].is \cup {"inited"})
    BY <1>3
  <2>2. CASE mods'[g].is = mods[g].is
    BY <2>2 DEF Is
  <2>3. CASE g = h /\ mods'[g].is = mods[g].is \cup {"inited"}
    BY <2>3 DEF Is
  <2> QED
    BY <2>1, <2>2, <2>3
<1>5. \A g : (InWait(g)' <=> InWait(g)) /\ (Registered(g)' <=> Registered(g))
  BY <1>2 DEF InWait, Registered
<1>6. Awaited' = Awaited
  BY <1>2, <1>4, <1>5 DEF Awaited, Is
<1> QED
  BY <1>2, <1>4, <1>5, <1>6 DEF WaitInv, Is

LEMMA FlagsAside ==
  ASSUME NEW h \in Handles, NEW f, f \notin WaitFlags,
         mods'[h].is = mods[h].is \cup {f} \/ mods'[h].is = mods[h].is \ {f} \/ mods'[h].is = mods[h].is
  PROVE  SameFlags(h)
BY DEF SameFlags

LEMMA FlagNames == {"enabling", "fetched", "defining", "emitted", "complete"} \cap WaitFlags = {}
BY DEF WaitFlags

LEMMA WaitOne ==
  ASSUME TypeInv, TypeInv', WaitInv, NEW h \in Handles, OnlyMod(h), UNCHANGED << registry, wait >>,
         NEW f \in {"enabling", "fetched", "defining", "emitted", "complete"},
         mods'[h].is = mods[h].is \cup {f} \/ mods'[h].is = mods[h].is \ {f} \/ mods'[h].is = mods[h].is
  PROVE  WaitInv'
BY FlagNames, FlagsAside, WaitOnly

LEMMA WaitMarks ==
  ASSUME TypeInv, TypeInv', WaitInv,
         DidWire \/ DidTake \/ DidFetch \/ DidStart \/ DidNotify \/ DidEmitted \/ DidEmit \/ DidForce
  PROVE  WaitInv'
<1>1. CASE DidWire
  BY <1>1, WaitOne DEF DidWire, WiredAll, Plain
<1>2. CASE DidTake
  BY <1>2, WaitOne DEF DidTake, Taken, Plain
<1>3. CASE DidFetch
  BY <1>3, WaitOne DEF DidFetch, Fetching
<1>4. CASE DidStart
  BY <1>4, WaitOne DEF DidStart, Starting, Plain
<1>5. CASE DidNotify
  BY <1>5, WaitOne DEF DidNotify, Emitting, Plain
<1>6. CASE DidEmitted
  BY <1>6, WaitOne DEF DidEmitted, ToldAll, Plain
<1>7. CASE DidEmit
  BY <1>7, WaitOne DEF DidEmit, Told, Plain
<1>8. CASE DidForce
  BY <1>8, WaitOne DEF DidForce, ForcedDep, Plain
<1> QED
  BY <1>1, <1>2, <1>3, <1>4, <1>5, <1>6, <1>7, <1>8

LEMMA WaitNothing ==
  ASSUME TypeInv, WaitInv, DidServe \/ DidExec \/ DidCall \/ DidEnd \/ DidAsk \/ DidLoad \/ DidFail \/ DidRun
  PROVE  WaitInv'
<1>1. UNCHANGED << mods, registry, wait >>
  BY DEF DidServe, Served, DidExec, Executed, DidCall, CalledBack, DidEnd, QueueDone, DidAsk, Asking,
         DidLoad, Loaded, DidFail, Failing, DidRun, Running
<1> QED
  BY <1>1, WaitUnchanged

LEMMA WaitThrow == ASSUME TypeInv, WaitInv, DidThrow PROVE WaitInv'
<1>1. SameMods /\ UNCHANGED << registry, wait >>
  BY DEF DidThrow, Thrown
<1>2. Handles' = Handles
  BY <1>1, SameKept DEF TypeInv
<1>3. \A h \in Handles : SameFlags(h)
  BY <1>1 DEF SameMods, SameFlags, WaitFlags, Flags
<1>4. SameWaiting
  BY <1>1, <1>2, <1>3 DEF SameWaiting, Registered
<1> QED
  BY <1>1, <1>4, WaitSame

LEMMA WaitNew == ASSUME TypeInv, WaitInv, DidListen \/ DidQueue \/ DidGive \/ DidRequire PROVE WaitInv'
<1>1. CASE DidListen
  <2>1. PICK h \in Handles, i \in Nat, g \in Nat : Listening(h, i, g) /\ UNCHANGED wait
    BY <1>1 DEF DidListen
  <2>2. SameWaiting
    BY <2>1 DEF Listening, SameWaiting, SameFlags
  <2> QED
    BY <2>1, <2>2, WaitSame
<1>2. CASE DidQueue
  <2>1. PICK i, h, d, g : Pulling(i, h, d, g) /\ UNCHANGED wait
    BY <1>2 DEF DidQueue, Pulls
  <2> QED
    BY <2>1, WaitFound DEF Pulling
<1>3. CASE DidGive
  <2>1. PICK i, h, d, g : Pulling(i, h, d, g) /\ UNCHANGED wait
    BY <1>3 DEF DidGive, Given
  <2> QED
    BY <2>1, WaitFound DEF Pulling
<1>4. CASE DidRequire
  <2>1. PICK h \in Handles' : NewRequire(h) /\ UNCHANGED wait
    BY <1>4 DEF DidRequire
  <2>2. SameWaiting
    BY <2>1 DEF NewRequire, SameWaiting, SameFlags
  <2> QED
    BY <2>1, <2>2, WaitSame
<1> QED
  BY <1>1, <1>2, <1>3, <1>4

(* A Module that is enabled for the first time joins those that wait      *)

(* enable() enters a module in waitAry at most once. *)
LEMMA WaitEnable == ASSUME TypeInv, TypeInv', FlagInv, WaitInv, DidEnable PROVE WaitInv'
<1>0. ModsOk /\ waitAry \in Seq(Handles) /\ Len(waitAry) \in Nat
  BY DEF TypeInv, WaitOk
<1>1. PICK h \in Handles : Enabled(h) /\ registry' = registry
  BY DEF DidEnable
<1>2. /\ OnlyMod(h) /\ mods'[h].is = mods[h].is \cup {"enabled", "waitPushed", "enabling"} /\ Handles' = Handles
      /\ \A g : Registered(g)' <=> Registered(g)
  BY <1>1 DEF Enabled, OnlyMod, Handles, Registered
<1>3. CASE Is(h, "waitPushed")
  <2>1. SameFlags(h)
    BY <1>2, <1>3 DEF SameFlags, WaitFlags, Is
  <2>2. UNCHANGED wait
    BY <1>1, <1>3 DEF Enabled
  <2> QED
    BY <1>1, <1>2, <2>1, <2>2, WaitOnly
<1>4. CASE ~Is(h, "waitPushed")
  <2>1. waitAry' = Append(waitAry, h) /\ waitCount' = waitCount + 1
    BY <1>1, <1>4 DEF Enabled
  <2>2. ~InWait(h) /\ ~Is(h, "defined")
    BY <1>4 DEF WaitInv, FlagInv
  <2>3. \A g \in Handles :
          /\ "defined" \in mods'[g].is <=> Is(g, "defined")
          /\ "waitPushed" \in mods'[g].is <=> (Is(g, "waitPushed") \/ g = h)
          /\ "inited" \in mods'[g].is <=> Is(g, "inited")
    BY <1>2 DEF OnlyMod, Is
  <2>4. /\ DOMAIN waitAry = 1..Len(waitAry) /\ DOMAIN waitAry' = 1..(Len(waitAry) + 1)
        /\ waitAry'[Len(waitAry) + 1] = h /\ \A k \in 1..Len(waitAry) : waitAry'[k] = waitAry[k]
    BY <1>0, <2>1
  <2>5. \A g : InWait(g)' <=> InWait(g) \/ g = h
    <3>1. ASSUME NEW g PROVE InWait(g)' => InWait(g) \/ g = h
      BY <1>0, <2>4 DEF InWait
    <3>2. ASSUME NEW g, InWait(g) \/ g = h PROVE InWait(g)'
      <4>1. CASE InWait(g)
        BY <4>1, <1>0, <2>4 DEF InWait
      <4>2. CASE g = h
        BY <4>2, <1>0, <2>4 DEF InWait
      <4> QED
        BY <3>2, <4>1, <4>2
    <3> QED
      BY <3>1, <3>2
  <2>6. Awaited' = Awaited \cup {h}
    BY <1>2, <2>2, <2>3, <2>5 DEF Awaited, Is
  <2>7. h \notin Awaited
    BY <2>2 DEF Awaited
  <2>8. Cardinality(Awaited') = Cardinality(Awaited) + 1
    BY <1>0, <2>6, <2>7, AwaitedFinite, FS_AddElement
  <2>9. \A j, k \in DOMAIN waitAry' : waitAry'[j] = waitAry'[k] => j = k
    <3>1. \A k \in 1..Len(waitAry) : waitAry[k] # h
      BY <2>2, <2>4 DEF InWait
    <3>2. \A j, k \in 1..Len(waitAry) : waitAry[j] = waitAry[k] => j = k
      BY <2>4 DEF WaitInv
    <3>3. \A j \in 1..(Len(waitAry) + 1) : j \in 1..Len(waitAry) \/ j = Len(waitAry) + 1
      BY <1>0
    <3> QED
      BY <2>4, <3>1, <3>2, <3>3
  <2>10. waitCount' = Cardinality(Awaited')
    BY <2>1, <2>8 DEF WaitInv
  <2>11. \A g \in Handles :
          /\ InWait(g)' => "waitPushed" \in mods'[g].is
          /\ "inited" \in mods'[g].is => Registered(g)' \/ "defined" \in mods'[g].is
          /\ "waitPushed" \in mods'[g].is /\ Registered(g)' => InWait(g)' \/ "defined" \in mods'[g].is
    BY <1>2, <2>3, <2>5 DEF WaitInv
  <2> QED
    BY <1>2, <2>9, <2>10, <2>11 DEF WaitInv, Is
<1> QED
  BY <1>3, <1>4

(* The module that is defined waits, and then no longer                    *)

(* A module that is defined no longer waits: waitCount is one less, the entry stays. *)
LEMMA WaitDefine == ASSUME TypeInv, TypeInv', FlagInv, WaitInv, DidDefine PROVE WaitInv'
<1>0. ModsOk /\ RegInv /\ waitAry \in Seq(Handles) /\ waitCount \in Int
  BY DEF TypeInv, WaitOk
<1>1. PICK h \in Handles : DefinedNow(h) /\ At("define")
  BY DEF DidDefine
<1>2. /\ OnlyMod(h) /\ mods'[h].is = (mods[h].is \ {"defining"}) \cup {"defined"} /\ Handles' = Handles
      /\ registry' = Unregister(h) /\ waitCount' = waitCount - 1
      /\ waitAry' = IF waitCount' = 0 THEN << >> ELSE waitAry
  BY <1>1 DEF DefinedNow, OnlyMod, Handles
<1>3. Is(h, "inited") /\ Is(h, "enabled") /\ ~Is(h, "defined")
  <2>1. Top.op = "define" /\ Top.h = h /\ Top = stack[1] /\ 1 \in DOMAIN stack
    BY <1>1 DEF At, DefinedNow
  <2> QED
    BY <2>1 DEF FlagInv, Ready, Is
<1>4. InWait(h)
  <2>1. Registered(h)
    BY <1>3 DEF WaitInv
  <2>2. Is(h, "waitPushed")
    BY <1>3 DEF FlagInv
  <2> QED
    BY <1>3, <2>1, <2>2 DEF WaitInv
<1>5. ASSUME NEW g \in Handles
      PROVE  /\ "defined" \in mods'[g].is <=> (Is(g, "defined") \/ g = h)
             /\ "waitPushed" \in mods'[g].is <=> Is(g, "waitPushed")
             /\ "inited" \in mods'[g].is <=> Is(g, "inited")
  <2>1. CASE g = h
    BY <1>2, <2>1 DEF Is
  <2>2. CASE g # h
    BY <1>2, <2>2 DEF Is, OnlyMod
  <2> QED
    BY <2>1, <2>2
<1>6. \A g \in Handles : /\ Registered(g)' => Registered(g)
                         /\ Registered(g) /\ g # h => Registered(g)'
  BY <1>0, <1>2, UnregisterFacts DEF Registered
<1>7. PICK A : A = Awaited \ {h}
  OBVIOUS
<1>8. IsFiniteSet(A) /\ Cardinality(A) = waitCount - 1
  <2>1. h \in Awaited /\ IsFiniteSet(Awaited)
    BY <1>0, <1>3, <1>4, AwaitedFinite DEF Awaited
  <2> QED
    BY <1>7, <2>1, FS_RemoveElement, FS_Subset DEF WaitInv
<1>9. \A g \in Handles : g \in A <=> (InWait(g) /\ ~Is(g, "defined") /\ g # h)
  BY <1>7 DEF Awaited
<1>10. \A g \in Handles : g \in Awaited' <=> (InWait(g)' /\ ~Is(g, "defined") /\ g # h)
  BY <1>2, <1>5 DEF Awaited, Is
<1>11. A \subseteq Handles /\ Awaited' \subseteq Handles
  BY <1>2, <1>7 DEF Awaited
<1>12. CASE waitCount' = 0
  <2>1. A = {} /\ waitAry' = << >>
    BY <1>2, <1>8, <1>12, FS_EmptySet
  <2>2. DOMAIN waitAry' = {}
    BY <2>1
  <2>3. \A g : ~InWait(g)'
    BY <2>2 DEF InWait
  <2>4. Awaited' = {}
    BY <1>10, <1>11, <2>3
  <2>5. waitCount' = Cardinality(Awaited')
    BY <1>12, <2>4, FS_EmptySet
  <2>6. \A g \in Handles :
          /\ "inited" \in mods'[g].is => Registered(g)' \/ "defined" \in mods'[g].is
          /\ "waitPushed" \in mods'[g].is /\ Registered(g)' => "defined" \in mods'[g].is
    BY <1>5, <1>6, <1>9, <2>1 DEF WaitInv
  <2> QED
    BY <1>2, <2>2, <2>3, <2>5, <2>6 DEF WaitInv, Is
<1>13. CASE waitCount' # 0
  <2>1. waitAry' = waitAry
    BY <1>2, <1>13
  <2>2. \A g : InWait(g)' <=> InWait(g)
    BY <2>1 DEF InWait
  <2>3. Awaited' = A
    BY <1>9, <1>10, <1>11, <2>2
  <2>4. waitCount' = Cardinality(Awaited')
    BY <1>2, <1>8, <2>3
  <2>5. \A g \in Handles :
          /\ InWait(g)' => "waitPushed" \in mods'[g].is
          /\ "inited" \in mods'[g].is => Registered(g)' \/ "defined" \in mods'[g].is
          /\ "waitPushed" \in mods'[g].is /\ Registered(g)' => InWait(g)' \/ "defined" \in mods'[g].is
    BY <1>5, <1>6, <2>2 DEF WaitInv
  <2> QED
    BY <1>2, <2>1, <2>4, <2>5 DEF WaitInv, Is
<1> QED
  BY <1>12, <1>13

-----------------------------------------------------------------------------
(* A path that can move on has not done so yet                             *)
LEMMA FirstPlace ==
  ASSUME TypeInv, TwoPlaces, NEW id \in Ids, HasPathFallback(id)
  PROVE  Unmoved(id)
<1>1. id \in DOMAIN Paths /\ paths[id] \in Rests(id) /\ Len(paths[id]) > 1
  BY DEF TypeInv, NamesOk, MovedPaths, HasPathFallback
<1>2. Paths[id] \in Seq(Names) /\ Len(Paths[id]) \in Nat /\ Len(Paths[id]) <= 2
  BY <1>1, RequireAssumption DEF TwoPlaces
<1>3. PICK k \in 1..Len(Paths[id]) : paths[id] = SubSeq(Paths[id], k, Len(Paths[id]))
  BY <1>1 DEF Rests
<1>4. Len(paths[id]) = Len(Paths[id]) - k + 1
  BY <1>2, <1>3
<1>5. k = 1
  BY <1>1, <1>2, <1>3, <1>4
<1>6. SubSeq(Paths[id], 1, Len(Paths[id])) = Paths[id]
  BY <1>2
<1> QED
  BY <1>3, <1>5, <1>6 DEF Unmoved

(* A module that is forgotten has no source yet                            *)

(* A module that moves to its only fallback has not been initialized: its first script has
   failed or has not come. *)
LEMMA ForgottenEarly ==
  ASSUME TypeInv, TwoPlaces, LoadInv, NEW id \in Ids, MovedAway(id), Missing(id), Lookup(id) # 0
  PROVE  ~Is(Lookup(id), "inited")
<1>1. PICK g : g = Lookup(id)
  OBVIOUS
<1>2. g \in Handles /\ Registered(g) /\ mods[g].id = id
  BY <1>1, LookupFacts DEF TypeInv
<1>3. CASE Top.op = "scriptError" /\ Top.id = id
  <2>1. 1 \in DOMAIN stack /\ stack[1].op = "scriptError" /\ stack[1].id = id
    BY <1>3, TopGood DEF TypeInv, MovedAway, Top
  <2>2. ~useInteractive
    BY <2>1 DEF LoadInv, NoFails
  <2>3. Token(id)
    BY <2>2, FirstPlace DEF LoadInv, MovedAway
  <2>4. Waiting(id)
    BY <2>1 DEF Waiting, Failed1
  <2>5. g \in Objs(id)
    BY <1>2 DEF Objs
  <2> QED
    BY <1>1, <2>3, <2>4, <2>5 DEF Token, Follows, Begun
<1>4. CASE \E h \in Handles : Registered(h) /\ mods[h].id = id /\ ~Is(h, "inited")
  <2>1. PICK h \in Handles : Registered(h) /\ mods[h].id = id /\ ~Is(h, "inited")
    BY <1>4
  <2>2. h = g
    BY <1>2, <2>1, RequireAssumption DEF TypeInv, RegInv, Registered, isDefine
  <2> QED
    BY <1>1, <2>1, <2>2
<1> QED
  BY <1>3, <1>4 DEF Missing

(* The entry that removeWaiting takes out of waitAry                       *)
TakenOut(k) ==
  /\ k \in DOMAIN waitAry /\ waitAry' = Cut(waitAry, k, k)
  /\ waitCount' = IF ~Is(waitAry[k], "defined") THEN waitCount - 1 ELSE waitCount

(* removeWaiting takes the entry of the module out of waitAry and counts it down only when
   it was counted. *)
LEMMA RemovedWaiting ==
  ASSUME WaitOk, NEW id, removeWaiting(id)
  PROVE  /\ registry' = Unregister(Lookup(id))
         /\ \/ UNCHANGED wait /\ \A k \in DOMAIN waitAry : mods[waitAry[k]].id # id
            \/ \E k \in DOMAIN waitAry : mods[waitAry[k]].id = id /\ TakenOut(k)
<1> DEFINE ks == {k \in DOMAIN waitAry : mods[waitAry[k]].id = id}
           k  == CHOOSE j \in ks : \A l \in ks : j <= l
<1>1. /\ registry' = Unregister(Lookup(id))
      /\ waitAry' = IF ks = {} THEN waitAry ELSE Cut(waitAry, k, k)
      /\ waitCount' = IF ks # {} /\ ~Is(waitAry[k], "defined") THEN waitCount - 1 ELSE waitCount
  BY DEF removeWaiting
<1>2. \A j : j \in ks <=> (j \in DOMAIN waitAry /\ mods[waitAry[j]].id = id)
  OBVIOUS
<1>3. ks # {} => k \in ks
  <2> SUFFICES ASSUME ks # {} PROVE k \in ks
    OBVIOUS
  <2>1. ks \subseteq Nat
    BY DEF WaitOk
  <2> HIDE DEF ks
  <2>2. \E j \in ks : \A l \in ks : j <= l
    BY <2>1, LeastOf
  <2> QED
    BY <2>2
<1> HIDE DEF ks, k
<1>4. CASE ks = {}
  BY <1>1, <1>2, <1>4 DEF wait
<1>5. CASE ks # {}
  <2>1. k \in DOMAIN waitAry /\ mods[waitAry[k]].id = id
    BY <1>2, <1>3, <1>5
  <2>2. TakenOut(k)
    BY <1>1, <1>5, <2>1 DEF TakenOut
  <2> QED
    BY <1>1, <2>1, <2>2
<1> QED
  BY <1>4, <1>5

(* The others stay in waitAry                                              *)
LEMMA Remaining ==
  ASSUME TypeInv, WaitInv, NEW k \in DOMAIN waitAry, TakenOut(k)
  PROVE  /\ \A g : InWait(g)' <=> (InWait(g) /\ g # waitAry[k])
         /\ \A i, j \in DOMAIN waitAry' : waitAry'[i] = waitAry'[j] => i = j
<1>1. waitAry \in Seq(Handles) /\ Len(waitAry) \in Nat /\ DOMAIN waitAry = 1..Len(waitAry)
  BY DEF TypeInv, WaitOk
<1>2. /\ DOMAIN waitAry' = 1..(Len(waitAry) - 1)
      /\ \A j \in 1..(Len(waitAry) - 1) : waitAry'[j] = IF j < k THEN waitAry[j] ELSE waitAry[j + 1]
  BY <1>1, CutFacts DEF TakenOut
<1>3. \A i, j \in 1..Len(waitAry) : waitAry[i] = waitAry[j] => i = j
  BY <1>1 DEF WaitInv
<1>4. \A j \in 1..(Len(waitAry) - 1) : \E i \in 1..Len(waitAry) : i # k /\ waitAry'[j] = waitAry[i]
  <2> SUFFICES ASSUME NEW j \in 1..(Len(waitAry) - 1)
               PROVE  \E i \in 1..Len(waitAry) : i # k /\ waitAry'[j] = waitAry[i]
    OBVIOUS
  <2>1. CASE j < k
    BY <1>1, <1>2, <2>1
  <2>2. CASE ~(j < k)
    <3>1. j + 1 \in 1..Len(waitAry) /\ j + 1 # k
      BY <1>1, <2>2
    <3> QED
      BY <1>2, <2>2, <3>1
  <2> QED
    BY <2>1, <2>2
<1>5. \A i \in 1..Len(waitAry) : i # k => \E j \in 1..(Len(waitAry) - 1) : waitAry'[j] = waitAry[i]
  <2> SUFFICES ASSUME NEW i \in 1..Len(waitAry), i # k
               PROVE  \E j \in 1..(Len(waitAry) - 1) : waitAry'[j] = waitAry[i]
    OBVIOUS
  <2>1. CASE i < k
    <3>1. i \in 1..(Len(waitAry) - 1)
      BY <1>1, <2>1
    <3> QED
      BY <1>2, <2>1, <3>1
  <2>2. CASE i > k
    <3>1. i - 1 \in 1..(Len(waitAry) - 1) /\ ~(i - 1 < k) /\ (i - 1) + 1 = i
      BY <1>1, <2>2
    <3> QED
      BY <1>2, <3>1
  <2> QED
    BY <1>1, <2>1, <2>2
<1>6. \A g : InWait(g)' <=> (InWait(g) /\ g # waitAry[k])
  <2>1. \A g : InWait(g) <=> \E i \in 1..Len(waitAry) : waitAry[i] = g
    BY <1>1 DEF InWait
  <2>2. \A g : InWait(g)' <=> \E j \in 1..(Len(waitAry) - 1) : waitAry'[j] = g
    BY <1>2 DEF InWait
  <2>3. ASSUME NEW g, InWait(g)' PROVE InWait(g) /\ g # waitAry[k]
    <3>1. PICK j \in 1..(Len(waitAry) - 1) : waitAry'[j] = g
      BY <2>2, <2>3
    <3>2. PICK i \in 1..Len(waitAry) : i # k /\ waitAry[i] = g
      BY <1>4, <3>1
    <3> QED
      BY <1>1, <1>3, <2>1, <3>2
  <2>4. ASSUME NEW g, InWait(g), g # waitAry[k] PROVE InWait(g)'
    <3>1. PICK i \in 1..Len(waitAry) : waitAry[i] = g /\ i # k
      BY <2>1, <2>4
    <3> QED
      BY <1>5, <2>2, <3>1
  <2> QED
    BY <2>3, <2>4
<1>7. ASSUME NEW i \in 1..(Len(waitAry) - 1), NEW j \in 1..(Len(waitAry) - 1), waitAry'[i] = waitAry'[j]
      PROVE  i = j
  <2>1. /\ i \in 1..Len(waitAry) /\ i + 1 \in 1..Len(waitAry)
        /\ j \in 1..Len(waitAry) /\ j + 1 \in 1..Len(waitAry)
    BY <1>1
  <2>2. CASE i < k /\ j < k
    BY <1>2, <1>3, <1>7, <2>1, <2>2
  <2>3. CASE i < k /\ ~(j < k)
    <3>1. i = j + 1
      BY <1>2, <1>3, <1>7, <2>1, <2>3
    <3> QED
      BY <1>1, <2>3, <3>1
  <2>4. CASE ~(i < k) /\ j < k
    <3>1. i + 1 = j
      BY <1>2, <1>3, <1>7, <2>1, <2>4
    <3> QED
      BY <1>1, <2>4, <3>1
  <2>5. CASE ~(i < k) /\ ~(j < k)
    <3>1. i + 1 = j + 1
      BY <1>2, <1>3, <1>7, <2>1, <2>5
    <3> QED
      BY <3>1
  <2> QED
    BY <2>2, <2>3, <2>4, <2>5
<1> QED
  BY <1>2, <1>6, <1>7

(* So removeWaiting leaves no initialized Module behind that is neither registered nor defined. *)
LEMMA WaitMove == ASSUME TypeInv, TypeInv', TwoPlaces, LoadInv, WaitInv, DidMove PROVE WaitInv'
<1>0. ModsOk /\ RegInv /\ WaitOk /\ waitAry \in Seq(Handles) /\ waitCount \in Int
  BY DEF TypeInv, WaitOk
<1>1. PICK id \in Ids : MovedAway(id) /\ Missing(id)
  BY DEF DidMove
<1>2. mods' = mods /\ Handles' = Handles /\ undef(id, paths')
  BY <1>1 DEF MovedAway, Handles
<1>3. CASE Lookup(id) = 0
  BY <1>2, <1>3, WaitUnchanged DEF undef
<1>4. CASE Lookup(id) # 0
  <2>1. removeWaiting(id)
    BY <1>2, <1>4 DEF undef
  <2>2. PICK h : h = Lookup(id)
    OBVIOUS
  <2>3. h \in Handles /\ Registered(h) /\ mods[h].id = id /\ ~Is(h, "inited") /\ registry' = Unregister(h)
    BY <1>0, <1>1, <1>4, <2>1, <2>2, LookupFacts, ForgottenEarly, RemovedWaiting
  <2>4. \A g \in Handles : /\ Registered(g)' => Registered(g) /\ g # h
                           /\ Registered(g) /\ g # h => Registered(g)'
    BY <1>0, <2>3, UnregisterFacts DEF Registered
  <2>5. \A g \in Handles : Registered(g) /\ mods[g].id = id => g = h
    BY <1>0, <2>3, RequireAssumption DEF RegInv, Registered, isDefine
  <2>6. CASE UNCHANGED wait
    <3>1. waitAry' = waitAry /\ waitCount' = waitCount
      BY <2>6 DEF wait
    <3>2. \A g : InWait(g)' <=> InWait(g)
      BY <3>1 DEF InWait
    <3>3. Awaited' = Awaited
      BY <1>2, <3>2 DEF Awaited, Is
    <3> QED
      BY <1>2, <2>3, <2>4, <3>1, <3>2, <3>3 DEF WaitInv, Is
  <2>7. ASSUME NEW k \in DOMAIN waitAry, mods[waitAry[k]].id = id, TakenOut(k) PROVE WaitInv'
    <3>1. PICK w : w = waitAry[k]
      OBVIOUS
    <3>2. w \in Handles /\ InWait(w) /\ mods[w].id = id
      BY <1>0, <2>7, <3>1 DEF InWait
    <3>3. /\ \A g : InWait(g)' <=> (InWait(g) /\ g # w)
          /\ \A i, j \in DOMAIN waitAry' : waitAry'[i] = waitAry'[j] => i = j
      BY <2>7, <3>1, Remaining
    <3>4. Awaited' = Awaited \ {w}
      BY <1>2, <3>3 DEF Awaited, Is
    <3>5. IsFiniteSet(Awaited) /\ waitCount = Cardinality(Awaited)
      BY <1>0, AwaitedFinite DEF WaitInv
    <3>6. waitCount' = Cardinality(Awaited')
      <4>1. CASE Is(w, "defined")
        <5>1. Awaited' = Awaited
          BY <3>4, <4>1 DEF Awaited
        <5>2. waitCount' = waitCount
          BY <2>7, <3>1, <4>1 DEF TakenOut
        <5> QED
          BY <3>5, <5>1, <5>2
      <4>2. CASE ~Is(w, "defined")
        <5>1. w \in Awaited
          BY <3>2, <4>2 DEF Awaited
        <5>2. waitCount' = waitCount - 1
          BY <2>7, <3>1, <4>2 DEF TakenOut
        <5>3. Cardinality(Awaited \ {w}) = Cardinality(Awaited) - 1
          BY <3>5, <5>1, FS_RemoveElement
        <5> QED
          BY <3>4, <3>5, <5>2, <5>3
      <4> QED
        BY <4>1, <4>2
    <3>7. \A g \in Handles :
            /\ InWait(g)' => Is(g, "waitPushed")
            /\ Is(g, "inited") => Registered(g)' \/ Is(g, "defined")
            /\ Is(g, "waitPushed") /\ Registered(g)' => InWait(g)' \/ Is(g, "defined")
      BY <2>3, <2>4, <2>5, <3>2, <3>3 DEF WaitInv
    <3> QED
      BY <1>2, <3>3, <3>6, <3>7 DEF WaitInv, Is
  <2> QED
    BY <1>0, <2>1, <2>6, <2>7, RemovedWaiting
<1> QED
  BY <1>3, <1>4

(* WaitInv is kept by every step. *)
LEMMA WaitHolds ==
  ASSUME TwoPlaces, TypeInv, TypeInv', FlagInv, LoadInv, WaitInv, Did PROVE WaitInv'
BY WaitQuiet, WaitInit, WaitMarks, WaitNothing, WaitThrow, WaitNew, WaitEnable, WaitDefine, WaitMove DEF Did

(* The first state: nothing waits. *)
LEMMA NothingYet == Init => FlagInv /\ LoadInv /\ WaitInv
<1> SUFFICES ASSUME Init PROVE FlagInv /\ LoadInv /\ WaitInv
  OBVIOUS
<1>1. /\ mods = << >> /\ stack = << >> /\ waitAry = << >> /\ waitCount = 0 /\ scripts = {}
      /\ globalDefQueue = << >> /\ Handles = {} /\ DOMAIN stack = {} /\ DOMAIN waitAry = {}
  BY DEF Init, Handles
<1>2. FlagInv
  BY <1>1 DEF FlagInv
<1>3. \A m : Objs(m) = {}
  BY <1>1 DEF Objs
<1>4. \A m : ~Asked(m) /\ ~Told1(m) /\ ~Waiting(m) /\ ~Queued(m)
  BY <1>1 DEF Asked, Told1, Waiting, Failed1, Queued
<1>5. \A m : Token(m)
  BY <1>1, <1>3, <1>4 DEF Token, Single, OneToken, Follows, Answered
<1>6. LoadInv
  BY <1>1, <1>5 DEF LoadInv, NoFails
<1>7. WaitInv
  <2>1. Awaited = {}
    BY <1>1 DEF Awaited
  <2> QED
    BY <1>1, <2>1, FS_EmptySet DEF WaitInv
<1> QED
  BY <1>2, <1>6, <1>7

(* Outside IE 6-8, a module that has not moved to another place has at most one Module and
   one script, and the load event of that script comes once and finds the Module there
   (getModule, Module.load, completeLoad); define() is under way at most once per module,
   and only while the flag defining is set (Module.check). *)
THEOREM LoaderLoads == OwnPlaces => (Spec => [](TypeInv /\ FlagInv /\ LoadInv))
<1> SUFFICES ASSUME OwnPlaces PROVE Spec => [](TypeInv /\ FlagInv /\ LoadInv)
  OBVIOUS
<1> DEFINE I == TypeInv /\ CallsInv /\ FlagInv /\ LoadInv
<1>1. I /\ [Next]_vars => I'
  BY Doing, CallsKept, FlagHolds, LoadHolds
<1>2. Init => I
  BY Begins, NothingYet
<1>3. I => TypeInv /\ FlagInv /\ LoadInv
  OBVIOUS
<1> QED
  BY <1>1, <1>2, <1>3, PTL DEF Spec

(* waitCount is exactly the number of modules in waitAry that are not defined, whatever
   scripts fail, time out, come late, throw or move to a fallback (enable, check,
   removeWaiting): checkLoaded looks for cycles and for modules never loaded when it should.
   A path with two fallbacks refutes it. *)
THEOREM LoaderBookkeeping == OwnPlaces /\ TwoPlaces => (Spec => []BookkeepingExact)
<1> SUFFICES ASSUME OwnPlaces, TwoPlaces PROVE Spec => []BookkeepingExact
  OBVIOUS
<1> DEFINE I == TypeInv /\ CallsInv /\ FlagInv /\ LoadInv /\ WaitInv
<1>1. I /\ [Next]_vars => I'
  BY Doing, CallsKept, FlagHolds, LoadHolds, WaitHolds
<1>2. Init => I
  BY Begins, NothingYet
<1>3. I => BookkeepingExact
  BY Typed, WaitCounted DEF BookkeepingExact
<1> QED
  BY <1>1, <1>2, <1>3, PTL DEF Spec

=============================================================================
