------------------------------- MODULE QUnit -------------------------------
(***************************************************************************)
(* The test runner of the fuelux widgets (fuelux/lib/qunit/qunit.js).      *)
(*                                                                         *)
(* Tests are queued as steps (init, setup, run, teardown, finish) that     *)
(* process() takes off one by one.  A test that waits for a callback calls *)
(* stop(), which blocks the queue; start() unblocks it 13 ms later.  The   *)
(* timers, the callbacks of the tests and the timeout come in any order,   *)
(* each when no other code runs; process() calls itself through            *)
(* synchronize(), hence a stack of the loops under way.                    *)
(*                                                                         *)
(* Left out: the HTML report and its controls, messages and stack traces,  *)
(* setup and teardown functions of a module, notrycatch, QUnit.init()      *)
(* called by a page, calls of the logging callbacks other than done.       *)
(* config.noglobals is set.                                                *)
(***************************************************************************)
EXTENDS Integers, Sequences, FiniteSetsExt

CONSTANTS
  Tests,      \* 1..n, in the order the page registers them
  Late,       \* those it registers after it is loaded
  Spares,     \* numbers for the tests "global failure"
  Module,     \* test -> the name of its module
  Body,       \* test -> what it does, see Bodies
  Matching,   \* tests whose name contains the filter
  Inverted,   \* the filter starts with "!"
  OnlyModule, \* config.module, or NONE
  testTimeout,\* config.testTimeout is set
  Failed,     \* sequences of tests that may have failed in the run before
  MaxYields,  \* how often process() uses up its time
  NONE

All == Tests \cup Spares

\* A test makes assertions, stops the queue, leaks a global variable, dies;
\* later its callbacks make assertions and call start.
Bodies ==
  [asserts : Seq(BOOLEAN), expected : Nat \cup {NONE}, stops : Nat,
   leaks : BOOLEAN, dies : BOOLEAN,
   later : Seq([asserts : Seq(BOOLEAN), starts : Nat])]

ASSUME QUnitAssumption ==
  /\ Tests = 1..Cardinality(Tests) /\ Late \subseteq Tests
  /\ Spares \subseteq Nat /\ Spares \cap Tests = {}
  /\ DOMAIN Module = All /\ DOMAIN Body = Tests
  /\ \A t \in Tests : Body[t] \in Bodies
  /\ Matching \subseteq Tests /\ NONE \notin All
  /\ {Inverted, testTimeout} \subseteq BOOLEAN /\ MaxYields \in Nat

VARIABLES
  queue,          \* config.queue: << step, test >>
  blocking, semaphore, autorun, depth,
  current,        \* config.current
  stack,          \* loops of process and calls of synchronize, the top first
  startTimers,    \* pending timers of start()
  nextTimers,     \* last -> pending timers of process(last)
  timeout,        \* config.timeout is running
  pending,        \* callbacks to come: << test, k >>
  phase,          \* test -> how far it is
  assertions,     \* test -> << [by, ok], ... >>
  stats,          \* config.stats
  previousModule, moduleStats,
  globals, pollution,
  storage,        \* keys of sessionStorage, in order
  order,          \* the tests in the order they ran
  failedBefore,   \* the tests that failed in the run before
  registered, loaded, doneCalls, yields,
  early           \* the queue was restarted under a test that was waiting

control == << queue, blocking, semaphore, autorun, depth, stack >>
timers == << startTimers, nextTimers, timeout >>
results == << assertions, stats, previousModule, moduleStats, storage, order >>
window == << globals, pollution >>
page == << failedBefore, registered, loaded, doneCalls, yields, early >>
vars == << control, timers, results, window, page, current, pending, phase >>

-----------------------------------------------------------------------------
(* Registering a test.                                                     *)

validTest(t) ==
  \/ t \in Spares
  \/ /\ OnlyModule \in {NONE, Module[t]}
     /\ (t \in Matching) # Inverted

Steps(t) == << << "setup", t >>, << "run", t >>, << "teardown", t >>, << "finish", t >> >>

Process(last) == [op |-> "process", last |-> last]
Synchronize(steps, last) == [op |-> "synchronize", steps |-> steps, last |-> last]

\* Test.queue: a test that failed the last time comes at once, another one
\* when the rest of the queue has been looked at.
queueTest(t) ==
  << Synchronize(<< << "init", t >> >>, FALSE),
     IF \E i \in DOMAIN storage : storage[i] = t
       THEN Synchronize(Steps(t), FALSE)
       ELSE Synchronize(<< << "later", t >> >>, TRUE) >>

Register(t) ==
  /\ stack = << >> /\ t = registered + 1 /\ (t \in Late <=> loaded)
  /\ registered' = t
  /\ phase' = [phase EXCEPT ![t] = IF validTest(t) THEN "queued" ELSE "skipped"]
  /\ stack' = IF validTest(t) THEN queueTest(t) ELSE << >>
  /\ UNCHANGED << queue, blocking, semaphore, autorun, depth, timers, results, window,
                  failedBefore, loaded, doneCalls, yields, early, current, pending >>

\* QUnit.load: unblock, and start().
Load ==
  /\ stack = << >> /\ ~loaded /\ \A t \in Tests \ Late : t <= registered
  /\ loaded' = TRUE /\ blocking' = FALSE
  /\ startTimers' = startTimers + 1
  /\ UNCHANGED << queue, semaphore, autorun, depth, stack, nextTimers, timeout,
                  results, window, failedBefore, registered, doneCalls, yields, early,
                  current, pending, phase >>

-----------------------------------------------------------------------------
(* The queue.                                                              *)

Calling(op) == stack # << >> /\ Head(stack).op = op
Calls(fs) == stack' = fs \o Tail(stack)

\* Does synchronize run the queue itself?
processesAlways == ~blocking
processesNow == autorun /\ ~blocking

SynchronizeStep ==
  /\ Calling("synchronize")
  /\ LET top == Head(stack)
         rest == IF Len(top.steps) = 1 THEN << >>
                 ELSE << [top EXCEPT !.steps = Tail(@)] >>
     IN /\ queue' = Append(queue, Head(top.steps))
        /\ IF processesNow
             THEN Calls(<< Process(top.last) >> \o rest) /\ depth' = depth + 1
             ELSE Calls(rest) /\ UNCHANGED depth
  /\ UNCHANGED << blocking, semaphore, autorun, timers, results, window, page,
                  current, pending, phase >>

\* process takes the first step of the queue.
Taking(step) ==
  /\ Calling("process") /\ queue # << >> /\ ~blocking
  /\ Head(queue)[1] = step
  /\ queue' = Tail(queue)

\* It has been busy for longer than updateRate: go on after 13 ms.
Yield ==
  /\ Calling("process") /\ queue # << >> /\ ~blocking
  /\ nextTimers' = [nextTimers EXCEPT ![Head(stack).last] = @ + 1]
  /\ depth' = depth - 1 /\ Calls(<< >>)
  /\ yields < MaxYields /\ yields' = yields + 1
  /\ UNCHANGED << queue, blocking, semaphore, autorun, startTimers, timeout, results,
                  window, failedBefore, registered, loaded, doneCalls, early,
                  current, pending, phase >>

\* What done() leaves in the storage of a run without failures.  The loop
\* counts twice, and on a list that gets shorter.
ClearFrom[s \in Seq(All), i \in Nat] ==
  IF i >= Len(s) THEN s
  ELSE ClearFrom[SubSeq(s, 1, i) \o SubSeq(s, i + 2, Len(s)), i + 2]

\* done() is called by the outermost loop when nothing is left.
ReportsDoneWaiting(last) == last /\ depth' = 0
ReportsDone(last) == last /\ ~blocking /\ queue = << >> /\ depth' = 0

\* From now on a new test is processed when it is queued.
done ==
  /\ autorun' = TRUE
  /\ doneCalls' = doneCalls + 1
  /\ storage' = IF stats.bad = 0 THEN ClearFrom[storage, 0] ELSE storage

ProcessEnds ==
  /\ Calling("process") /\ (queue = << >> \/ blocking)
  /\ depth' = depth - 1 /\ Calls(<< >>)
  /\ IF ReportsDone(Head(stack).last) THEN done
       ELSE UNCHANGED << autorun, doneCalls, storage >>
  /\ UNCHANGED << queue, blocking, semaphore, timers, assertions, stats,
                  previousModule, moduleStats, order, window, failedBefore,
                  registered, loaded, yields, early, current, pending, phase >>

-----------------------------------------------------------------------------
(* The steps of a test.                                                    *)

Passes(t, oks) == [i \in DOMAIN oks |-> [by |-> t, ok |-> oks[i]]]
Failure(t) == << [by |-> t, ok |-> FALSE] >>
Fails(s) == Cardinality({i \in DOMAIN s : ~s[i].ok})

InitStep ==
  /\ Taking("init")
  /\ UNCHANGED << blocking, semaphore, autorun, depth, stack, timers, results,
                  window, page, current, pending, phase >>

LaterStep ==
  /\ Taking("later")
  /\ stack' = << Synchronize(Steps(Head(queue)[2]), FALSE) >> \o stack
  /\ UNCHANGED << blocking, semaphore, autorun, depth, timers, results, window,
                  page, current, pending, phase >>

saveGlobal == pollution' = globals

\* A new module starts with fresh counts; the globals are noted once.
SetupStep ==
  /\ Taking("setup")
  /\ LET t == Head(queue)[2]
     IN /\ current' = t
        /\ phase' = [phase EXCEPT ![t] = "setup"]
        /\ previousModule' = Module[t]
        /\ moduleStats' = IF Module[t] = previousModule THEN moduleStats
                          ELSE [all |-> 0, bad |-> 0]
        /\ IF pollution = NONE THEN saveGlobal ELSE UNCHANGED pollution
  /\ UNCHANGED << blocking, semaphore, autorun, depth, stack, timers, assertions,
                  stats, storage, order, globals, page, pending >>

\* start(n), as new values of semaphore and of the number of timers.
startedOften(s, n) ==
  IF n = 0 THEN [semaphore |-> s, timers |-> 0]
  ELSE [semaphore |-> 0, timers |-> 1]

started(s, n) ==
  IF n = 0 THEN [semaphore |-> s, timers |-> 0]
  ELSE [semaphore |-> IF s - n < 0 THEN 0 ELSE s - n,
        timers |-> IF s - n > 0 THEN 0 ELSE 1]

\* stop() sets the timeout again each time.
timedOnce(stops) == testTimeout /\ stops = 1
timed(stops) == testTimeout /\ stops > 0

\* The body runs: stop, assertions, and what it leaves for later.  One that
\* dies restarts the queue it has blocked, and is forgiven its globals.
RunStep ==
  /\ Taking("run")
  /\ LET t == Head(queue)[2]
         b == IF t \in Spares
                THEN [asserts |-> << FALSE >>, stops |-> 0, leaks |-> FALSE,
                      dies |-> FALSE, later |-> << >>]
                ELSE Body[t]
         stopped == started(semaphore + b.stops,
                            IF b.dies /\ b.stops > 0 THEN 1 ELSE 0)
     IN /\ current' = t
        /\ phase' = [phase EXCEPT ![t] = "run"]
        /\ order' = Append(order, t)
        /\ assertions' = [assertions EXCEPT ![t] =
             @ \o Passes(t, b.asserts) \o IF b.dies THEN Failure(t) ELSE << >>]
        /\ globals' = IF b.leaks THEN globals \cup {t} ELSE globals
        /\ pollution' = IF b.dies THEN globals' ELSE pollution
        /\ blocking' = (b.stops > 0)
        /\ semaphore' = stopped.semaphore
        /\ startTimers' = startTimers + stopped.timers
        /\ timeout' = (timeout \/ timed(b.stops))
        /\ pending' = pending \cup {<< t, k >> : k \in DOMAIN b.later}
        /\ early' = (early \/ (b.dies /\ b.stops > 0))
  /\ UNCHANGED << autorun, depth, stack, nextTimers, stats, previousModule,
                  moduleStats, storage, failedBefore, registered, loaded, doneCalls, yields >>

\* A global more than before is a failure of this test, one less too.
checkPollution(t) ==
  /\ assertions' = [assertions EXCEPT ![t] =
       @ \o (IF globals \ pollution # {} THEN Failure(t) ELSE << >>)
         \o (IF pollution \ globals # {} THEN Failure(t) ELSE << >>)]
  /\ saveGlobal

TeardownStep ==
  /\ Taking("teardown")
  /\ LET t == Head(queue)[2]
     IN /\ current' = t
        /\ phase' = [phase EXCEPT ![t] = "teardown"]
        /\ checkPollution(t)
  /\ UNCHANGED << blocking, semaphore, autorun, depth, stack, timers, stats,
                  previousModule, moduleStats, storage, order, globals, page, pending >>

\* The number of assertions must be the expected one, or not zero.
Unexpected(t) ==
  LET expected == IF t \in Spares THEN NONE ELSE Body[t].expected
  IN IF expected = NONE THEN assertions[t] = << >> ELSE Len(assertions[t]) # expected

Counted(counts, s) == [all |-> counts.all + Len(s), bad |-> counts.bad + Fails(s)]

keyOf(t) == SelectSeq(storage, LAMBDA s : s # t)

FinishStep ==
  /\ Taking("finish")
  /\ LET t == Head(queue)[2]
         s == assertions[t] \o IF Unexpected(t) THEN Failure(t) ELSE << >>
     IN /\ current' = NONE
        /\ phase' = [phase EXCEPT ![t] = "finished"]
        /\ assertions' = [assertions EXCEPT ![t] = s]
        /\ stats' = Counted(stats, s)
        /\ moduleStats' = Counted(moduleStats, s)
        /\ storage' = IF Fails(s) > 0 THEN Append(keyOf(t), t) ELSE keyOf(t)
  /\ UNCHANGED << blocking, semaphore, autorun, depth, stack, timers, previousModule,
                  order, window, page, pending >>

-----------------------------------------------------------------------------
(* Timers and callbacks.                                                   *)

\* 13 ms after start(): unless somebody stopped again, go on.
StartTimer ==
  /\ stack = << >> /\ startTimers > 0
  /\ startTimers' = startTimers - 1
  /\ IF semaphore > 0
       THEN UNCHANGED << timeout, blocking, stack, depth >>
       ELSE /\ timeout' = FALSE /\ blocking' = FALSE
            /\ stack' = << Process(TRUE) >> /\ depth' = depth + 1
  /\ UNCHANGED << queue, semaphore, autorun, nextTimers, results, window, page,
                  current, pending, phase >>

NextTimer(last) ==
  /\ stack = << >> /\ nextTimers[last] > 0
  /\ nextTimers' = [nextTimers EXCEPT ![last] = @ - 1]
  /\ stack' = << Process(last) >> /\ depth' = depth + 1
  /\ UNCHANGED << queue, blocking, semaphore, autorun, startTimers, timeout,
                  results, window, page, current, pending, phase >>

\* The test that is waiting has waited long enough.
TimeoutFires ==
  /\ stack = << >> /\ timeout
  /\ timeout' = FALSE
  /\ assertions' = [assertions EXCEPT ![current] = @ \o Failure(current)]
  /\ semaphore' = 0 /\ startTimers' = startTimers + 1
  /\ early' = TRUE
  /\ UNCHANGED << queue, blocking, autorun, depth, stack, nextTimers, stats,
                  previousModule, moduleStats, storage, order, window, failedBefore,
                  registered, loaded, doneCalls, yields, current, pending, phase >>

\* A callback of test t: its assertions go to whatever test is current.
Callback(t, k) ==
  /\ stack = << >> /\ << t, k >> \in pending
  /\ current # NONE \/ Body[t].later[k].asserts = << >>
  /\ LET c == Body[t].later[k]
         now == started(semaphore, c.starts)
     IN /\ assertions' = IF current = NONE THEN assertions
                         ELSE [assertions EXCEPT ![current] = @ \o Passes(t, c.asserts)]
        /\ semaphore' = now.semaphore
        /\ startTimers' = startTimers + now.timers
  /\ pending' = pending \ {<< t, k >>}
  /\ UNCHANGED << queue, blocking, autorun, depth, stack, nextTimers, timeout, stats,
                  previousModule, moduleStats, storage, order, window, page, current, phase >>

\* Between two tests an assertion throws; window.onerror turns the error into
\* a test of its own.
CallbackOutside(t, k) ==
  /\ stack = << >> /\ << t, k >> \in pending
  /\ current = NONE /\ Body[t].later[k].asserts # << >>
  /\ \E g \in Spares :
       /\ phase[g] = "new" /\ \A h \in Spares : h < g => phase[h] # "new"
       /\ phase' = [phase EXCEPT ![g] = "queued"]
       /\ stack' = queueTest(g)
  /\ pending' = pending \ {<< t, k >>}
  /\ UNCHANGED << queue, blocking, semaphore, autorun, depth, timers, results, window,
                  page, current >>

-----------------------------------------------------------------------------
Init ==
  /\ queue = << >> /\ blocking = TRUE /\ semaphore = 0
  /\ autorun = FALSE /\ depth = 0 /\ stack = << >>
  /\ current = NONE
  /\ startTimers = 0 /\ nextTimers = [b \in BOOLEAN |-> 0] /\ timeout = FALSE
  /\ pending = {} /\ phase = [t \in All |-> "new"]
  /\ assertions = [t \in All |-> << >>]
  /\ stats = [all |-> 0, bad |-> 0]
  /\ previousModule = NONE /\ moduleStats = [all |-> 0, bad |-> 0]
  /\ globals = {} /\ pollution = NONE
  /\ storage \in Failed /\ order = << >>
  /\ failedBefore = {storage[i] : i \in DOMAIN storage} /\ yields = 0
  /\ registered = 0 /\ loaded = FALSE /\ doneCalls = 0 /\ early = FALSE

Step ==
  \/ SynchronizeStep \/ Yield \/ ProcessEnds
  \/ InitStep \/ LaterStep \/ SetupStep \/ RunStep \/ TeardownStep \/ FinishStep

Timer == StartTimer \/ (\E last \in BOOLEAN : NextTimer(last)) \/ TimeoutFires

Next ==
  \/ Step \/ Timer \/ Load
  \/ \E t \in Tests : Register(t)
  \/ \E c \in pending : Callback(c[1], c[2]) \/ CallbackOutside(c[1], c[2])

Spec == Init /\ [][Next]_vars

\* The page is loaded, code runs on, timers fire.  Nothing is assumed of the
\* callbacks the tests wait for.
FairSpec ==
  /\ Spec
  /\ WF_vars(Step) /\ WF_vars(Load) /\ \A t \in Tests : WF_vars(Register(t))
  /\ WF_vars(StartTimer) /\ \A b \in BOOLEAN : WF_vars(NextTimer(b))
  /\ WF_vars(TimeoutFires)

-----------------------------------------------------------------------------
(* Properties.                                                             *)

\* Every variable has its type; the semaphore of stop and start and the depth
\* of process are never negative, and a timeout runs only for a test.
TypeOK ==
  /\ semaphore \in Nat /\ depth \in Nat /\ startTimers \in Nat
  /\ {blocking, autorun, timeout, loaded, early} \subseteq BOOLEAN
  /\ current \in All \cup {NONE}
  /\ timeout => current # NONE
  /\ \A c \in pending : c[1] \in Tests /\ c[2] \in DOMAIN Body[c[1]].later
  /\ \A t \in All : phase[t] \in {"new", "skipped", "queued", "setup", "run",
                                  "teardown", "finished"}

Finished == {t \in All : phase[t] = "finished"}

\* The totals of the report are those of the tests that have finished, each
\* counted once, late failures included (finish, pushFailure).
StatsExact ==
  /\ stats.all = MapThenSumSet(LAMBDA t : Len(assertions[t]), Finished)
  /\ stats.bad = MapThenSumSet(LAMBDA t : Fails(assertions[t]), Finished)

\* What a test did wrong.
LaterAsserts(t) ==
  UNION {{<< k, i >> : i \in DOMAIN Body[t].later[k].asserts} : k \in DOMAIN Body[t].later}
Guilty(t) ==
  \/ Body[t].dies \/ Body[t].leaks
  \/ \E i \in DOMAIN Body[t].asserts : ~Body[t].asserts[i]
  \/ \E ki \in LaterAsserts(t) : ~Body[t].later[ki[1]].asserts[ki[2]]
  \/ LET n == Len(Body[t].asserts) + Cardinality(LaterAsserts(t))
     IN IF Body[t].expected = NONE THEN n = 0 ELSE n # Body[t].expected

\* A test fails if and only if it did something wrong itself: assertions of
\* callbacks, global variables and counts are never put down to another one.
\* Once the queue was restarted under a waiting test, by the timeout or
\* because it died, its late callbacks may hit the next test.
VerdictJust ==
  ~early => \A t \in Tests \cap Finished : Fails(assertions[t]) > 0 <=> Guilty(t)

\* Bodies for which the verdicts can be just: each stop() of a test has a
\* callback that calls start() once, and of the tests registered after load
\* there is one only, or none leaks.  A start() too many lets the queue go on
\* before all callbacks have come, and tests registered once the run is over
\* may be under way at the same time and see each other's global variables.
OneLate == \A t, u \in Late : t = u
NoLeaks == \A t \in Tests : ~Body[t].leaks
Orderly ==
  /\ \A t \in Tests : /\ Len(Body[t].later) = Body[t].stops
                      /\ \A k \in DOMAIN Body[t].later : Body[t].later[k].starts = 1
  /\ OneLate \/ NoLeaks

\* Up to the end of the run one test is set up, run and finished before the
\* next one.
OneAtATime ==
  ~autorun => Cardinality({t \in All : phase[t] \in {"setup", "run", "teardown"}}) <= 1

\* Tests that failed in the run before come first (config.reorder).
FailedFirst ==
  \A i, j \in DOMAIN order :
    i < j /\ {order[i], order[j]} \subseteq Tests \ Late /\ order[j] \in failedBefore
      => order[i] \in failedBefore

\* done() is not called while a test waits or is queued.
DoneMeansAll ==
  [][doneCalls' > doneCalls
       => \A t \in All : phase[t] \in {"new", "skipped", "finished"}]_vars

\* Every test that is queued is finished, and with it all the others, also
\* when the callbacks it waits for never come (stop, its timeout, process).
AllFinish ==
  (\E t \in All : phase[t] = "queued")
     ~> (\A t \in All : phase[t] \in {"new", "skipped", "finished"})

\* The report is just: to every test what it did, and to the totals every test,
\* however timers, timeouts and callbacks interleave.
ReportJust == TypeOK /\ StatsExact /\ VerdictJust

\* Tests run one after the other, and those that failed before run first.
RunsInOrder == OneAtATime /\ FailedFirst
=============================================================================
