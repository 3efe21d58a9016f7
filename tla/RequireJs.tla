----------------------------- MODULE RequireJs -----------------------------
(***************************************************************************)
(* The script loader of the web console (js/require.js, RequireJS 2.0.2),  *)
(* one context of it in a browser.                                         *)
(*                                                                         *)
(* The browser runs one handler at a time: a call of require, a script     *)
(* that executes, a load or error event, the 50 ms timer of checkLoaded.   *)
(* A handler is a tree of synchronous calls (enable, check, emit, ...),    *)
(* modelled by a call stack: each step executes the call on top and puts   *)
(* the calls it makes, in order, in its place.  Events wait for the stack  *)
(* to be empty.  An exception that nothing catches empties the stack and   *)
(* leaves every flag as it is at that moment.                              *)
(*                                                                         *)
(* Left out: loader plugins, configure() after the start, enforceDefine,   *)
(* the optimizer and web worker branches, undef() called by the page, and  *)
(* the missing script of IE 6-8, which that browser reports as loaded.     *)
(***************************************************************************)
EXTENDS ModuleNames, FiniteSets

CONSTANTS
  Ids,         \* the modules of the page
  Site,        \* url -> the module whose source is there
  Kind,        \* id -> "anon", "named" or "plain": how its source calls define
  DepNames,    \* id -> the names its source asks for
  Nested,      \* id -> the names its factory requires while it runs
  Throwing,    \* ids whose factory may throw
  Requires,    \* 1..n: the calls of require the page makes, in this order
  AskedNames,  \* require -> the names it asks for
  Errback,     \* the requires that pass an error callback
  Paths,       \* config.paths at the start: prefix -> urls to try in turn
  Shim,        \* config.shim: id -> the names to load before its script
  Browsers,    \* values of useInteractive: TRUE for IE 6-8
  MaxExpire,   \* how often the wait time may run out
  MaxDepth     \* calls the browser can nest

VARIABLES
  mods,            \* the Module objects, in the order they were made
  registry,        \* handles of the registered ones, in the order of the keys
  defined,         \* ids that are keys of defined
  undefEvents,     \* id -> listeners kept for the next Module of that id
  urlFetched,
  defQueue,        \* calls of define to be taken in, and those not yet
  globalDefQueue,  \* known to belong to this context
  waitAry, waitCount,
  inCheckLoaded,
  timer,           \* checkLoadedTimeoutId is set
  paths,           \* config.paths now
  useInteractive,
  expired,         \* waitSeconds have passed since the last fetch
  scripts,         \* script elements whose load or error event is to come
  issued,          \* number of require calls made
  expiries,
  stack,           \* the calls under way, the top one first
  traced, uninited,  \* the objects forceExec passes along
  runs,            \* id -> executions of its source
  called, errors,  \* require -> calls of its callback, of its errback
  failed           \* ids that an error or an exception has named

names  == << defined, undefEvents, urlFetched, paths >>
queues == << defQueue, globalDefQueue >>
wait   == << waitAry, waitCount >>
sweep  == << inCheckLoaded, timer >>
page   == << useInteractive, expired, scripts, issued, expiries >>
cycle  == << traced, uninited >>
seen   == << runs, called, errors, failed >>
vars   == << mods, registry, names, queues, wait, sweep, page, stack, cycle, seen >>

\* The ids of the names in a list of dependencies.
normalizeAll(deps, base) == [i \in DOMAIN deps |-> normalize(deps[i], base, TRUE)]

\* Names that are served without a module.
handlers == {<< "require" >>, << "exports" >>, << "module" >>}

\* The modules that a list of dependencies names.
IdsIn(deps, base) == {normalizeAll(deps, base)[i] : i \in DOMAIN deps} \ handlers

\* Ids has every id that a script of the page can ask for, those of missing
\* modules too.  A factory that throws is one that a script defines.
ASSUME RequireAssumption ==
  /\ Ids \subseteq Names /\ << >> \notin Ids
  /\ \A u \in DOMAIN Site : Site[u] \in Ids
  /\ Kind \in [Ids -> {"anon", "named", "plain"}]
  /\ Throwing \subseteq {i \in Ids : Kind[i] # "plain"}
  /\ DepNames \in [Ids -> Seq(Names)] /\ AskedNames \in [Requires -> Seq(Names)]
  /\ DOMAIN Nested \cup DOMAIN Shim \subseteq Ids
  /\ \A i \in DOMAIN Nested : Nested[i] \in Seq(Names) /\ IdsIn(Nested[i], i) \subseteq Ids
  /\ \A i \in DOMAIN Shim : Shim[i] \in Seq(Names) /\ IdsIn(Shim[i], i) \subseteq Ids
  /\ \A i \in Ids : IdsIn(DepNames[i], i) \subseteq Ids
  /\ \A r \in Requires : IdsIn(AskedNames[r], NONE) \subseteq Ids
  /\ Paths \in [DOMAIN Paths -> Seq(Names) \ {<< >>}]
  /\ \A i \in DOMAIN Paths \cap Ids : IdsIn(<< i >>, NONE) \subseteq Ids
  /\ Requires \subseteq Nat /\ Errback \subseteq Requires
  /\ NONE \notin {<< "user", r >> : r \in Requires}
  /\ Browsers \subseteq BOOLEAN
  /\ MaxExpire \in Nat /\ MaxDepth \in Nat \ {0}

-----------------------------------------------------------------------------
(* Modules, names and listeners.                                           *)

NoEvents == [defined |-> << >>, error |-> << >>]

\* A new Module.  A call of require makes one without an id.
Module(id, base, events) ==
  [id |-> id, base |-> base,
   url |-> IF id = << >> THEN << >> ELSE nameToUrl(id, paths),
   is |-> {}, deps |-> << >>, depCount |-> 0, depMatched |-> {},
   onDefined |-> events.defined, onError |-> events.error,
   errback |-> NONE, callback |-> NONE]

Handles == 1..Len(mods)
Is(h, flag) == flag \in mods[h].is
isDefine(h) == mods[h].id # << >>
Registered(h) == \E k \in DOMAIN registry : registry[k] = h

\* registry[id], 0 when there is none.
Lookup(id) ==
  LET hs == {registry[k] : k \in DOMAIN registry}
  IN IF \E h \in hs : mods[h].id = id
       THEN CHOOSE h \in hs : mods[h].id = id ELSE 0

Unregister(h) ==
  LET k == CHOOSE j \in DOMAIN registry : registry[j] = h
  IN IF Registered(h) THEN Cut(registry, k, k) ELSE registry

EventsFor(id) == IF id \in DOMAIN undefEvents THEN undefEvents[id] ELSE NoEvents

\* defineDep: a dependency counts once, however often it is announced.
defineDepTwice(m, i) ==
  [m EXCEPT !.depMatched = @ \cup {i}, !.depCount = @ - 1]

defineDep(m, i) ==
  IF i \in m.depMatched THEN m
  ELSE [m EXCEPT !.depMatched = @ \cup {i}, !.depCount = @ - 1]

\* getModule that makes a module anew as long as its script has not run.
getModuleAnew(id) ==
  LET h == Lookup(id)
  IN IF h # 0 /\ Is(h, "inited") THEN [h |-> h, mods |-> mods, registry |-> registry]
     ELSE [h |-> Len(mods) + 1,
           mods |-> Append(mods, Module(id, id, EventsFor(id))),
           registry |-> Append(registry, Len(mods) + 1)]

\* getModule(makeModuleMap(id)), as a handle and the objects after it.
getModule(id) ==
  LET h == Lookup(id)
  IN IF h # 0 THEN [h |-> h, mods |-> mods, registry |-> registry]
     ELSE [h |-> Len(mods) + 1,
           mods |-> Append(mods, Module(id, id, EventsFor(id))),
           registry |-> Append(registry, Len(mods) + 1)]

-----------------------------------------------------------------------------
(* The call stack.                                                         *)

Top == Head(stack)
Calling(op) == stack # << >> /\ Len(stack) <= MaxDepth /\ Head(stack).op = op
Calls(fs) == stack' = fs \o Tail(stack)
Return == stack' = Tail(stack)
Throw == stack' = << >>

check(h, silent) == [op |-> "check", h |-> h, silent |-> silent]
enable(h) == [op |-> "enable", h |-> h]
init(h, deps, callback, errback, enabled) ==
  [op |-> "init", h |-> h, deps |-> deps, callback |-> callback,
   errback |-> errback, enabled |-> enabled]
require(deps, base, callback, errback) ==
  [op |-> "require", deps |-> deps, base |-> base, callback |-> callback,
   errback |-> errback]
onError(ids) == [op |-> "onError", ids |-> ids, notified |-> FALSE]
checkLoaded == [op |-> "checkLoaded"]

\* The browser gives up on a call that is nested too deep.
Overflow ==
  /\ stack # << >> /\ Len(stack) > MaxDepth
  /\ Throw
  /\ UNCHANGED << mods, registry, names, queues, wait, sweep, page, cycle, seen >>

-----------------------------------------------------------------------------
(* Module.prototype: init, enable, check, fetch, emit.                     *)

RunInit ==
  /\ Calling("init")
  /\ LET h == Top.h
         m == mods[h]
         errback == CASE Top.errback # NONE -> Top.errback
                      [] Top.errback = NONE /\ m.onError # << >> -> << "emit", h >>
                      [] OTHER -> NONE
     IN IF Is(h, "inited")
          THEN Return /\ UNCHANGED mods
          ELSE /\ mods' = [mods EXCEPT ![h] =
                    [m EXCEPT !.deps = normalizeAll(Top.deps, m.base), !.callback = Top.callback,
                              !.errback = errback, !.is = @ \cup {"inited"},
                              !.onError = IF Top.errback = NONE THEN @
                                          ELSE Append(@, errback)]]
               /\ Calls(IF Top.enabled \/ Is(h, "enabled")
                          THEN << enable(h) >> ELSE << check(h, FALSE) >>)
  /\ UNCHANGED << registry, names, queues, wait, sweep, page, cycle, seen >>

RunEnable ==
  /\ Calling("enable")
  /\ LET h == Top.h
     IN /\ mods' = [mods EXCEPT ![h].is = @ \cup {"enabled", "waitPushed", "enabling"}]
        /\ IF Is(h, "waitPushed")
             THEN UNCHANGED wait
             ELSE waitAry' = Append(waitAry, h) /\ waitCount' = waitCount + 1
        /\ Calls(<< [op |-> "wire", h |-> h, i |-> 1] >>)
  /\ UNCHANGED << registry, names, queues, sweep, page, cycle, seen >>

\* enable() is through with the dependencies of the module.
WireEnd ==
  /\ Calling("wire") /\ Top.i > Len(mods[Top.h].deps)
  /\ mods' = [mods EXCEPT ![Top.h].is = @ \ {"enabling"}]
  /\ Calls(<< check(Top.h, FALSE) >>)
  /\ UNCHANGED << registry, names, queues, wait, sweep, page, cycle, seen >>

WireNext(h, i) == [op |-> "wire", h |-> h, i |-> i + 1]

\* A dependency on require, exports or module is served on the spot.
WireHandler ==
  /\ Calling("wire") /\ Top.i <= Len(mods[Top.h].deps)
  /\ mods[Top.h].deps[Top.i] \in handlers
  /\ defined' = IF mods[Top.h].deps[Top.i] = << "exports" >> /\ isDefine(Top.h)
                  THEN defined \cup {mods[Top.h].id} ELSE defined
  /\ Calls(<< WireNext(Top.h, Top.i) >>)
  /\ UNCHANGED << mods, registry, undefEvents, urlFetched, paths, queues, wait,
                  sweep, page, cycle, seen >>

\* Any other dependency: listen for it, or take its value if it is there, and
\* enable it.
WireDep ==
  /\ Calling("wire") /\ Top.i <= Len(mods[Top.h].deps)
  /\ mods[Top.h].deps[Top.i] \notin handlers
  /\ LET h  == Top.h
         i  == Top.i
         id == mods[h].deps[i]
         there == id \in defined /\ (Lookup(id) = 0 \/ Is(Lookup(id), "complete"))
         got == getModule(id)
         counted == [mods EXCEPT ![h].depCount = @ + 1]
         dep == IF there THEN Lookup(id) ELSE got.h
     IN /\ IF there
             THEN /\ mods' = [counted EXCEPT ![h] = defineDep(@, i)]
                  /\ UNCHANGED registry
             ELSE /\ mods' = [got.mods EXCEPT
                       ![h].depCount = @ + 1,
                       ![got.h].onDefined = Append(@, << h, i >>),
                       ![got.h].onError = IF mods[h].errback = NONE THEN @
                                          ELSE Append(@, mods[h].errback)]
                  /\ registry' = got.registry
        /\ Calls((IF dep # 0 /\ "enabled" \notin mods'[dep].is
                    THEN << enable(dep) >> ELSE << >>)
                 \o << WireNext(h, i) >>)
  /\ UNCHANGED << names, queues, wait, sweep, page, cycle, seen >>

\* check() has nothing to do.
CheckSkip ==
  /\ Calling("check")
  /\ LET h == Top.h
     IN \/ ~Is(h, "enabled") \/ Is(h, "enabling")
        \/ ~Is(h, "inited") /\ Is(h, "fetched")
        \/ Is(h, "inited") /\ ~Is(h, "error") /\ Is(h, "defining")
  /\ Return
  /\ UNCHANGED << mods, registry, names, queues, wait, sweep, page, cycle, seen >>

\* load(): a script element, unless the url was asked for before.
load(h) ==
  /\ urlFetched' = urlFetched \cup {mods[h].url}
  /\ scripts' = IF mods[h].url \in urlFetched THEN scripts
                ELSE scripts \cup {[id |-> mods[h].id, url |-> mods[h].url,
                                    executed |-> FALSE]}

\* check() of a module that is not there: fetch(), which restarts the wait
\* time.  A shim first requires what its script needs.
Fetch ==
  /\ Calling("check")
  /\ LET h == Top.h
     IN /\ Is(h, "enabled") /\ ~Is(h, "enabling")
        /\ ~Is(h, "inited") /\ ~Is(h, "fetched")
        /\ mods' = [mods EXCEPT ![h].is = @ \cup {"fetched"}]
        /\ expired' = FALSE
        /\ IF mods[h].id \in DOMAIN Shim
             THEN /\ Calls(<< require(Shim[mods[h].id], mods[h].id, << "load", h >>, NONE) >>)
                  /\ UNCHANGED << urlFetched, scripts >>
             ELSE Return /\ load(h)
  /\ UNCHANGED << registry, defined, undefEvents, paths, queues, wait, sweep,
                  useInteractive, issued, expiries, cycle, seen >>

CheckError ==
  /\ Calling("check")
  /\ LET h == Top.h
     IN /\ Is(h, "enabled") /\ ~Is(h, "enabling")
        /\ Is(h, "inited") /\ Is(h, "error")
        /\ Calls(<< [op |-> "emitError", h |-> h, k |-> 1] >>)
  /\ UNCHANGED << mods, registry, names, queues, wait, sweep, page, cycle, seen >>

notify(h, silent) == IF silent THEN << >> ELSE << [op |-> "notify", h |-> h] >>

\* check() of a module whose script is there: define it when nothing is
\* missing, then tell the listeners.
CheckDefine ==
  /\ Calling("check")
  /\ LET h == Top.h
         run == mods[h].depCount < 1 /\ ~Is(h, "defined")
     IN /\ Is(h, "enabled") /\ ~Is(h, "enabling")
        /\ Is(h, "inited") /\ ~Is(h, "error") /\ ~Is(h, "defining")
        /\ mods' = [mods EXCEPT ![h].is = IF run THEN @ \cup {"defining"} ELSE @]
        /\ Calls(IF run THEN << [op |-> "execCb", h |-> h],
                                [op |-> "define", h |-> h, silent |-> Top.silent] >>
                        ELSE notify(h, Top.silent))
  /\ UNCHANGED << registry, names, queues, wait, sweep, page, cycle, seen >>

\* The source of a module runs.  It may itself call require.
ExecFactory ==
  /\ Calling("execCb") /\ isDefine(Top.h)
  /\ LET id == mods[Top.h].id
     IN /\ runs' = IF id \in Ids /\ Kind[id] # "plain"
                     THEN [runs EXCEPT ![id] = @ + 1] ELSE runs
        /\ Calls(IF id \in DOMAIN Nested
                   THEN << require(Nested[id], id, NONE, NONE) >> ELSE << >>)
  /\ UNCHANGED << mods, registry, names, queues, wait, sweep, page, cycle,
                  called, errors, failed >>

\* The source throws.  Only a module with error listeners catches it, and it
\* stays marked as defining.
FactoryThrows ==
  /\ Calling("execCb") /\ mods[Top.h].id \in Throwing
  /\ LET h  == Top.h
         id == mods[h].id
     IN /\ runs' = [runs EXCEPT ![id] = @ + 1]
        /\ failed' = failed \cup {id}
        /\ IF mods[h].onError # << >>
             THEN /\ mods' = [mods EXCEPT ![h].is = @ \cup {"error"}]
                  /\ stack' = << onError(<< id >>) >> \o Tail(Tail(stack))
             ELSE Throw /\ UNCHANGED mods
  /\ UNCHANGED << registry, names, queues, wait, sweep, page, cycle, called, errors >>

\* The callback of a require: the page's own, or the one of a shim, which
\* loads the script that was waiting.
ExecCallback ==
  /\ Calling("execCb") /\ ~isDefine(Top.h)
  /\ LET cb == mods[Top.h].callback
     IN /\ called' = IF cb # NONE /\ cb[1] = "user"
                       THEN [called EXCEPT ![cb[2]] = @ + 1] ELSE called
        /\ IF cb # NONE /\ cb[1] = "load"
             THEN load(cb[2]) ELSE UNCHANGED << urlFetched, scripts >>
  /\ Return
  /\ UNCHANGED << mods, registry, defined, undefEvents, paths, queues, wait, sweep,
                  useInteractive, expired, issued, expiries, cycle, runs, errors, failed >>

\* The value of a module is kept under its id; that of a require is not.
definedWith(h) == IF isDefine(h) THEN defined \cup {mods[h].id} ELSE defined

RunDefine ==
  /\ Calling("define")
  /\ LET h == Top.h
     IN /\ defined' = definedWith(h)
        /\ registry' = Unregister(h)
        /\ mods' = [mods EXCEPT ![h].is = (@ \ {"defining"}) \cup {"defined"}]
        /\ waitCount' = waitCount - 1
        /\ waitAry' = IF waitCount' = 0 THEN << >> ELSE waitAry
        /\ Calls(notify(h, Top.silent))
  /\ UNCHANGED << undefEvents, urlFetched, paths, queues, sweep, page, cycle, seen >>

Notify ==
  /\ Calling("notify")
  /\ LET h == Top.h
     IN IF Is(h, "defined") /\ ~Is(h, "emitted")
          THEN /\ mods' = [mods EXCEPT ![h].is = @ \cup {"emitted"}]
               /\ Calls(<< [op |-> "emit", h |-> h, k |-> 1] >>)
          ELSE Return /\ UNCHANGED mods
  /\ UNCHANGED << registry, names, queues, wait, sweep, page, cycle, seen >>

\* emit("defined"): each listener is a module that has this one as its
\* dependency i.
EmitDefined ==
  /\ Calling("emit")
  /\ LET h == Top.h
         l == mods[h].onDefined[Top.k]
     IN IF Top.k > Len(mods[h].onDefined)
          THEN /\ mods' = [mods EXCEPT ![h].is = @ \cup {"complete"}]
               /\ Return
          ELSE /\ mods' = [mods EXCEPT ![l[1]] = defineDep(@, l[2])]
               /\ Calls(<< check(l[1], FALSE), [Top EXCEPT !.k = @ + 1] >>)
  /\ UNCHANGED << registry, names, queues, wait, sweep, page, cycle, seen >>

\* emit("error"): a listener is the errback of the page or another module that
\* passes the error on.  The listeners go when all have been called.
EmitError ==
  /\ Calling("emitError")
  /\ LET h == Top.h
         l == mods[h].onError[Top.k]
         next == [Top EXCEPT !.k = @ + 1]
     IN IF Top.k > Len(mods[h].onError)
          THEN /\ mods' = [mods EXCEPT ![h].onError = << >>]
               /\ Return /\ UNCHANGED errors
          ELSE /\ errors' = IF l[1] = "user" /\ errors[l[2]] < 2
                              THEN [errors EXCEPT ![l[2]] = @ + 1] ELSE errors
               /\ Calls((IF l[1] = "emit"
                           THEN << [op |-> "emitError", h |-> l[2], k |-> 1] >>
                           ELSE << >>) \o << next >>)
               /\ UNCHANGED mods
  /\ UNCHANGED << registry, names, queues, wait, sweep, page, cycle,
                  runs, called, failed >>

\* onError: mark the modules the error names and tell their listeners.  When
\* there is none, req.onError throws.
unmarked(h) == mods

marked(h) == [mods EXCEPT ![h].is = @ \cup {"error"}]

RunOnError ==
  /\ Calling("onError")
  /\ LET h == IF Top.ids = << >> THEN 0 ELSE Lookup(Head(Top.ids))
         rest == [Top EXCEPT !.ids = Tail(@)]
         heard == h # 0 /\ mods[h].onError # << >>
     IN IF Top.ids = << >>
          THEN /\ IF Top.notified THEN Return ELSE Throw
               /\ UNCHANGED << mods, failed >>
          ELSE /\ mods' = IF h = 0 THEN mods ELSE marked(h)
               /\ failed' = failed \cup ({Head(Top.ids)} \cap Ids)
               /\ Calls(IF heard
                          THEN << [op |-> "emitError", h |-> h, k |-> 1],
                                  [rest EXCEPT !.notified = TRUE] >>
                          ELSE << rest >>)
  /\ UNCHANGED << registry, names, queues, wait, sweep, page, cycle,
                  runs, called, errors >>

-----------------------------------------------------------------------------
(* require, define, completeLoad and the path fallback.                    *)

\* takeGlobalQueue puts the new entries before the last one of defQueue.
TakenQueue ==
  LET n == Len(defQueue)
  IN IF n = 0 THEN globalDefQueue
     ELSE SubSeq(defQueue, 1, n - 1) \o globalDefQueue \o << defQueue[n] >>

\* callGetModule of a queue entry, before the calls in fs.
callGetModule(name, deps, fs) ==
  LET got == getModule(name)
  IN /\ mods' = got.mods
     /\ registry' = got.registry
     /\ Calls(<< init(got.h, deps, NONE, NONE, FALSE) >> \o fs)

\* require: take in the calls of define that are waiting; an anonymous one
\* cannot be told from another and is an error.
RequireQueue ==
  /\ Calling("require") /\ TakenQueue # << >>
  /\ defQueue' = Tail(TakenQueue) /\ globalDefQueue' = << >>
  /\ LET e == Head(TakenQueue)
     IN IF e.name = NONE
          THEN Throw /\ UNCHANGED << mods, registry >>
          ELSE callGetModule(e.name, e.deps, << Top >>)
  /\ UNCHANGED << names, wait, sweep, page, cycle, seen >>

\* Then make a module for the call itself.
RunRequire ==
  /\ Calling("require") /\ TakenQueue = << >>
  /\ LET h == Len(mods) + 1
     IN /\ mods' = Append(mods, Module(<< >>, Top.base, NoEvents))
        /\ registry' = Append(registry, h)
        /\ Calls(<< init(h, Top.deps, Top.callback, Top.errback, TRUE), checkLoaded >>)
  /\ UNCHANGED << names, queues, wait, sweep, page, cycle, seen >>

\* completeLoad(id): the entries of the queue up to the first anonymous one
\* after the one that is taken for id; that one is dropped.
CompleteQueue ==
  /\ Calling("complete") /\ TakenQueue # << >>
  /\ LET e == Head(TakenQueue)
         anon == e.name = NONE
         name == IF anon THEN Top.id ELSE e.name
         next == [Top EXCEPT !.found = @ \/ name = Top.id]
     IN /\ defQueue' = Tail(TakenQueue) /\ globalDefQueue' = << >>
        /\ IF anon /\ Top.found
             THEN /\ Calls(<< [op |-> "completed", id |-> Top.id, found |-> TRUE] >>)
                  /\ UNCHANGED << mods, registry >>
             ELSE callGetModule(name, e.deps, << next >>)
  /\ UNCHANGED << names, wait, sweep, page, cycle, seen >>

CompleteQueueEnd ==
  /\ Calling("complete") /\ TakenQueue = << >>
  /\ Calls(<< [op |-> "completed", id |-> Top.id, found |-> Top.found] >>)
  /\ UNCHANGED << mods, registry, names, queues, wait, sweep, page, cycle, seen >>

\* A script that did not call define is given one.
Completed ==
  /\ Calling("completed")
  /\ LET id == Top.id
         h  == Lookup(id)
     IN IF ~Top.found /\ id \notin defined /\ h # 0 /\ ~Is(h, "inited")
          THEN callGetModule(id, IF id \in DOMAIN Shim THEN Shim[id] ELSE << >>,
                             << checkLoaded >>)
          ELSE Calls(<< checkLoaded >>) /\ UNCHANGED << mods, registry >>
  /\ UNCHANGED << names, queues, wait, sweep, page, cycle, seen >>

HasPathFallback(id) == id \in DOMAIN paths /\ Len(paths[id]) > 1

removeWaitingUncounted(id) ==
  LET ks == {k \in DOMAIN waitAry : mods[waitAry[k]].id = id}
      k  == CHOOSE j \in ks : \A l \in ks : j <= l
  IN /\ registry' = Unregister(Lookup(id))
     /\ waitAry' = IF ks = {} THEN waitAry ELSE Cut(waitAry, k, k)
     /\ UNCHANGED waitCount

\* removeWaiting(id): the first entry of waitAry with this id.
removeWaiting(id) ==
  LET ks == {k \in DOMAIN waitAry : mods[waitAry[k]].id = id}
      k  == CHOOSE j \in ks : \A l \in ks : j <= l
  IN /\ registry' = Unregister(Lookup(id))
     /\ waitAry' = IF ks = {} THEN waitAry ELSE Cut(waitAry, k, k)
     /\ waitCount' = IF ks # {} /\ ~Is(waitAry[k], "defined")
                       THEN waitCount - 1 ELSE waitCount

\* undef(id), after the path of id has moved on to the next place.
undef(id, newPaths) ==
  LET h == Lookup(id)
      others == [i \in DOMAIN undefEvents \ {id} |-> undefEvents[i]]
  IN /\ defined' = defined \ {id}
     /\ urlFetched' = urlFetched \ {nameToUrl(id, newPaths)}
     /\ undefEvents' =
          IF h # 0 /\ mods[h].onDefined # << >>
            THEN [i \in DOMAIN undefEvents \cup {id} |->
                    IF i = id THEN [defined |-> mods[h].onDefined,
                                    error |-> mods[h].onError]
                              ELSE undefEvents[i]]
            ELSE others
     /\ IF h # 0 THEN removeWaiting(id) ELSE UNCHANGED << registry, wait >>

\* hasPathFallback(id) when there is one: forget the module and require it
\* again, now from the next place, before the calls in fs.
Fallback(id, fs) ==
  LET newPaths == [paths EXCEPT ![id] = Tail(@)]
  IN /\ paths' = newPaths
     /\ undef(id, newPaths)
     /\ Calls(<< require(<< id >>, NONE, NONE, NONE) >> \o fs)

\* onScriptError.
ScriptError ==
  /\ Calling("scriptError")
  /\ IF HasPathFallback(Top.id)
       THEN Fallback(Top.id, << >>)
       ELSE Calls(<< onError(<< Top.id >>) >>) /\ UNCHANGED << registry, names, wait >>
  /\ UNCHANGED << mods, queues, sweep, page, cycle, seen >>

-----------------------------------------------------------------------------
(* checkLoaded: wait, report what does not come, break cycles.             *)

StartSweep ==
  /\ Calling("checkLoaded")
  /\ IF inCheckLoaded
       THEN Return /\ UNCHANGED inCheckLoaded
       ELSE /\ inCheckLoaded' = TRUE
            /\ Calls(<< [op |-> "scan", hs |-> registry, expired |-> expired,
                         noLoads |-> << >>, stillLoading |-> FALSE,
                         needCycleCheck |-> TRUE, fallback |-> FALSE] >>)
  /\ UNCHANGED << mods, registry, names, queues, wait, timer, page, cycle, seen >>

\* One registered module that is enabled, not in error and not there.
Scan ==
  /\ Calling("scan") /\ Top.hs # << >>
  /\ LET h == Head(Top.hs)
         rest == [Top EXCEPT !.hs = Tail(@)]
         awaited == /\ Registered(h) /\ Is(h, "enabled")
                    /\ ~Is(h, "error") /\ ~Is(h, "inited")
     IN IF awaited /\ Top.expired /\ HasPathFallback(mods[h].id)
          THEN Fallback(mods[h].id, << [rest EXCEPT !.fallback = TRUE,
                                                    !.stillLoading = TRUE] >>)
          ELSE /\ Calls(<<
                    CASE awaited /\ Top.expired ->
                           [rest EXCEPT !.noLoads = Append(@, mods[h].id)]
                      [] awaited /\ ~Top.expired /\ Is(h, "fetched") ->
                           [rest EXCEPT !.stillLoading = TRUE,
                                        !.needCycleCheck = FALSE]
                      [] OTHER -> rest >>)
               /\ UNCHANGED << registry, names, wait >>
  /\ UNCHANGED << mods, queues, sweep, page, cycle, seen >>

\* The modules that did not come in time are reported; this leaves checkLoaded
\* without clearing inCheckLoaded.
ScanTimeout ==
  /\ Calling("scan") /\ Top.hs = << >>
  /\ Top.expired /\ Top.noLoads # << >>
  /\ Calls(<< onError(Top.noLoads) >>)
  /\ UNCHANGED << mods, registry, names, queues, wait, sweep, page, cycle, seen >>

\* The rest of checkLoaded after the scan.
AfterScanNoCycles(scan) ==
  << [op |-> "sweepEnd", again |-> (~scan.expired \/ scan.fallback) /\ scan.stillLoading] >>

AfterScan(scan) ==
  (IF scan.needCycleCheck
     THEN << [op |-> "cycles", k |-> 1, ary |-> waitAry], [op |-> "checkAll"] >>
     ELSE << >>)
  \o << [op |-> "sweepEnd", again |-> (~scan.expired \/ scan.fallback) /\ scan.stillLoading] >>

ScanEnd ==
  /\ Calling("scan") /\ Top.hs = << >>
  /\ ~(Top.expired /\ Top.noLoads # << >>)
  /\ Calls(AfterScan(Top))
  /\ UNCHANGED << mods, registry, names, queues, wait, sweep, page, cycle, seen >>

\* findCycle(mod, traced), with i = 0 for the entry and i for its dependency i.
\* It gives up at the first dependency that is not there yet.
findCycle[h \in Handles, t \in SUBSET Handles, i \in Nat] ==
  CASE i = 0 /\ ~Is(h, "inited") -> 0
    [] i = 0 /\ Is(h, "inited") /\ h \in t -> h
    [] i = 0 /\ Is(h, "inited") /\ h \notin t -> findCycle[h, t \cup {h}, 1]
    [] i > 0 /\ i > Len(mods[h].deps) -> 0
    [] OTHER ->
       LET d == Lookup(mods[h].deps[i])
           below == findCycle[d, t, 0]
       IN CASE d = 0 -> findCycle[h, t, i + 1]
            [] d # 0 /\ (~Is(d, "inited") \/ ~Is(d, "enabled")) -> 0
            [] OTHER -> IF below # 0 THEN below ELSE findCycle[h, t, i + 1]

\* The module that findCycle finds from h, 0 when there is none.
cycleOn(h) == findCycle[h, {}, 0]

IsPrefixOf(s, t) == Len(s) <= Len(t) /\ SubSeq(t, 1, Len(s)) = s

\* The next module of waitAry that is on or above a cycle: force it.  The loop
\* goes on with the array it started with when waitAry is replaced meanwhile.
BreakCycles ==
  /\ Calling("cycles")
  /\ LET ary == IF IsPrefixOf(Top.ary, waitAry) THEN waitAry ELSE Top.ary
         ks  == {k \in Top.k..Len(ary) :
                   ~Is(ary[k], "defined") /\ cycleOn(ary[k]) \in Handles}
         k   == CHOOSE j \in ks : \A l \in ks : j <= l
     IN IF ks = {}
          THEN Return /\ UNCHANGED cycle
          ELSE /\ traced' = << >> /\ uninited' = {}
               /\ Calls(<< [op |-> "force", h |-> cycleOn(ary[k])],
                           [op |-> "checkTraced"],
                           [op |-> "cycles", k |-> k + 1, ary |-> ary] >>)
  /\ UNCHANGED << mods, registry, names, queues, wait, sweep, page, seen >>

ForceExec ==
  /\ Calling("force")
  /\ LET h == Top.h
     IN IF ~Is(h, "inited") \/ ~isDefine(h)
           \/ \E k \in DOMAIN traced : traced[k] = h
          THEN Return /\ UNCHANGED traced
          ELSE /\ traced' = Append(traced, h)
               /\ Calls(<< [op |-> "forceDep", h |-> h, i |-> 1] >>)
  /\ UNCHANGED << mods, registry, names, queues, wait, sweep, page, uninited, seen >>

\* forceExec: dependency i of h, forced first.  A dependency whose script is
\* not there marks h; at the end h is defined with what it has.
ForceDep ==
  /\ Calling("forceDep")
  /\ LET h == Top.h
         i == Top.i
         next == [Top EXCEPT !.i = @ + 1]
         d == Lookup(mods[h].deps[i])
     IN CASE i > Len(mods[h].deps) ->
               Calls(<< check(h, TRUE) >>) /\ UNCHANGED uninited
          [] i <= Len(mods[h].deps) /\ d = 0 ->
               Calls(<< next >>) /\ UNCHANGED uninited
          [] i <= Len(mods[h].deps) /\ d # 0
             /\ (~Is(d, "inited") \/ ~Is(d, "enabled")) ->
               uninited' = uninited \cup {mods[h].id} /\ Calls(<< next >>)
          [] OTHER ->
               /\ Calls(<< [op |-> "force", h |-> d],
                           [op |-> "forced", h |-> h, i |-> i] >>)
               /\ UNCHANGED uninited
  /\ UNCHANGED << mods, registry, names, queues, wait, sweep, page, traced, seen >>

\* Back from forcing dependency i of h: it counts as there unless it is marked.
Forced ==
  /\ Calling("forced")
  /\ mods' = IF mods[Top.h].deps[Top.i] \in uninited THEN mods
             ELSE [mods EXCEPT ![Top.h] = defineDep(@, Top.i)]
  /\ Calls(<< [op |-> "forceDep", h |-> Top.h, i |-> Top.i + 1] >>)
  /\ UNCHANGED << registry, names, queues, wait, sweep, page, cycle, seen >>

Checks(hs, always) == << [op |-> "checkEach", hs |-> hs, always |-> always] >>

CheckTraced ==
  /\ Calling("checkTraced")
  /\ Calls(Checks(traced, TRUE))
  /\ UNCHANGED << mods, registry, names, queues, wait, sweep, page, cycle, seen >>

CheckAll ==
  /\ Calling("checkAll")
  /\ Calls(Checks(registry, FALSE))
  /\ UNCHANGED << mods, registry, names, queues, wait, sweep, page, cycle, seen >>

\* eachProp(..., modCheck): a key that is gone meanwhile is not visited.
CheckEach ==
  /\ Calling("checkEach")
  /\ LET h == Head(Top.hs)
     IN IF Top.hs = << >> THEN Return
        ELSE Calls((IF Top.always \/ Registered(h) THEN << check(h, FALSE) >> ELSE << >>)
                   \o Checks(Tail(Top.hs), Top.always))
  /\ UNCHANGED << mods, registry, names, queues, wait, sweep, page, cycle, seen >>

SweepEnd ==
  /\ Calling("sweepEnd")
  /\ timer' = (timer \/ Top.again)
  /\ inCheckLoaded' = FALSE
  /\ Return
  /\ UNCHANGED << mods, registry, names, queues, wait, page, cycle, seen >>

-----------------------------------------------------------------------------
(* Events.                                                                 *)

\* A browser other than IE 6-8 fires the load event of a script before it
\* does anything else.
Idle == stack = << >> /\ (useInteractive \/ \A s \in scripts : ~s.executed)

\* The page calls require.
PageRequire(r) ==
  /\ Idle /\ r \in Requires /\ r = issued + 1
  /\ issued' = r
  /\ stack' = << require(AskedNames[r], NONE, << "user", r >>,
                         IF r \in Errback THEN << "user", r >> ELSE NONE) >>
  /\ UNCHANGED << mods, registry, names, queues, wait, sweep, useInteractive,
                  expired, scripts, expiries, cycle, seen >>

\* A script arrives and runs; define() queues its call under the name the
\* source gives, under the name of the script element in IE, or none.
ScriptRuns(s) ==
  /\ Idle /\ s \in scripts /\ ~s.executed /\ s.url \in DOMAIN Site
  /\ LET of == Site[s.url]
         name == CASE Kind[of] = "named" -> of
                   [] Kind[of] # "named" /\ useInteractive -> s.id
                   [] OTHER -> NONE
         entry == << [name |-> name, deps |-> DepNames[of]] >>
     IN /\ IF Kind[of] = "plain"
             THEN runs' = [runs EXCEPT ![of] = @ + 1] /\ UNCHANGED queues
             ELSE /\ IF useInteractive
                       THEN /\ defQueue' = defQueue \o entry
                            /\ UNCHANGED globalDefQueue
                       ELSE /\ globalDefQueue' = globalDefQueue \o entry
                            /\ UNCHANGED defQueue
                  /\ UNCHANGED runs
        /\ scripts' = (scripts \ {s}) \cup {[s EXCEPT !.executed = TRUE]}
  /\ UNCHANGED << mods, registry, names, wait, sweep, useInteractive, expired,
                  issued, expiries, stack, cycle, called, errors, failed >>

\* onScriptLoad.
ScriptLoads(s) ==
  /\ stack = << >> /\ s \in scripts /\ s.executed
  /\ scripts' = scripts \ {s}
  /\ stack' = << [op |-> "complete", id |-> s.id, found |-> FALSE] >>
  /\ UNCHANGED << mods, registry, names, queues, wait, sweep, useInteractive,
                  expired, issued, expiries, cycle, seen >>

\* The server has no such script, or the connection breaks.
ScriptFails(s) ==
  /\ Idle /\ ~useInteractive /\ s \in scripts
  /\ scripts' = scripts \ {s}
  /\ stack' = << [op |-> "scriptError", id |-> s.id] >>
  /\ UNCHANGED << mods, registry, names, queues, wait, sweep, useInteractive,
                  expired, issued, expiries, cycle, seen >>

TimerFires ==
  /\ Idle /\ timer
  /\ timer' = FALSE
  /\ stack' = << checkLoaded >>
  /\ UNCHANGED << mods, registry, names, queues, wait, inCheckLoaded, page, cycle, seen >>

\* waitSeconds pass without another fetch.
WaitEnds ==
  /\ Idle /\ ~expired /\ expiries < MaxExpire
  /\ \E h \in Handles : Is(h, "fetched")
  /\ expired' = TRUE /\ expiries' = expiries + 1
  /\ UNCHANGED << mods, registry, names, queues, wait, sweep, useInteractive,
                  scripts, issued, stack, cycle, seen >>

-----------------------------------------------------------------------------
Init ==
  /\ mods = << >> /\ registry = << >>
  /\ defined = {} /\ undefEvents = [i \in {} |-> NoEvents]
  /\ urlFetched = {} /\ paths = Paths
  /\ defQueue = << >> /\ globalDefQueue = << >>
  /\ waitAry = << >> /\ waitCount = 0
  /\ inCheckLoaded = FALSE /\ timer = FALSE
  /\ useInteractive \in Browsers
  /\ expired = FALSE /\ scripts = {} /\ issued = 0 /\ expiries = 0
  /\ stack = << >> /\ traced = << >> /\ uninited = {}
  /\ runs = [i \in Ids |-> 0] /\ failed = {}
  /\ called = [r \in Requires |-> 0] /\ errors = [r \in Requires |-> 0]

Step ==
  \/ RunInit \/ RunEnable \/ WireEnd \/ WireHandler \/ WireDep
  \/ CheckSkip \/ Fetch \/ CheckError \/ CheckDefine
  \/ ExecFactory \/ FactoryThrows \/ ExecCallback \/ RunDefine
  \/ Notify \/ EmitDefined \/ EmitError \/ RunOnError
  \/ RequireQueue \/ RunRequire \/ CompleteQueue \/ CompleteQueueEnd \/ Completed
  \/ ScriptError
  \/ StartSweep \/ Scan \/ ScanTimeout \/ ScanEnd \/ BreakCycles
  \/ ForceExec \/ ForceDep \/ Forced \/ CheckTraced \/ CheckAll \/ CheckEach
  \/ SweepEnd \/ Overflow

Event ==
  \/ \E r \in Requires : PageRequire(r)
  \/ \E s \in scripts : ScriptRuns(s) \/ ScriptLoads(s) \/ ScriptFails(s)
  \/ TimerFires \/ WaitEnds

Next == Step \/ Event

Spec == Init /\ [][Next]_vars

\* The browser executes its calls, every script arrives or fails, timers fire.
\* An event is possible only between two handlers, hence strong fairness: the
\* event queue of the browser serves the others between two ticks of the timer.
FairSpec ==
  /\ Spec
  /\ WF_vars(Step)
  /\ \A r \in Requires : SF_vars(PageRequire(r))
  /\ SF_vars(\E s \in scripts : ScriptRuns(s))
  /\ SF_vars(\E s \in scripts : ScriptLoads(s))
  /\ WF_vars(TimerFires)

-----------------------------------------------------------------------------
(* Properties.                                                             *)

\* Registered and waiting modules exist, only modules of the page are defined,
\* and the page hears of at most two failures per require.
TypeOK ==
  /\ \A k \in DOMAIN registry : registry[k] \in Handles
  /\ \A k \in DOMAIN waitAry : waitAry[k] \in Handles
  /\ defined \subseteq Names \ {<< >>}
  /\ waitCount \in Int
  /\ {inCheckLoaded, timer, expired, useInteractive} \subseteq BOOLEAN
  /\ runs \in [Ids -> Nat]
  /\ called \in [Requires -> Nat] /\ errors \in [Requires -> 0..2]
  /\ failed \subseteq Ids

\* What an AMD loader promises, seen in this one.
DepIds == [i \in Ids |-> IdsIn(DepNames[i], i)
                          \cup (IF i \in DOMAIN Shim THEN IdsIn(Shim[i], i) ELSE {})]
AskedIds == [r \in Requires |-> IdsIn(AskedNames[r], NONE)]
Promise == INSTANCE Amd WITH
  Deps <- DepIds,
  Asked <- AskedIds,
  Reloadable <- {i \in Ids : i \in DOMAIN Paths /\ Len(Paths[i]) > 1}

\* The loader implements Amd: a source runs once and not before what it
\* depends on, except around a cycle or below a failure, and a callback runs
\* once and after everything it asked for, whatever the order in which
\* scripts, load events, errors, timers and late scripts of an abandoned
\* place come (check, forceExec, completeLoad, checkLoaded).
LoaderPromise == Promise!AmdSpec

\* The step of LoaderPromise the page sees: the callback of a require is
\* called once, and not before the factory of every module it asked for has
\* run, also when a dependency failed or fell into a cycle in between (check
\* counts down depCount in defineDep, enable hands the callback over).
CallbacksInTime == [][\E r \in Requires : Promise!Call(r)]_called

\* waitCount, which decides when waitAry is dropped, is the number of modules
\* in waitAry that are not defined (enable, check, removeWaiting).
WaitCountExact ==
  waitCount = Cardinality({k \in DOMAIN waitAry : ~Is(waitAry[k], "defined")})

\* A page is never told both: its callback runs or its errback, not both,
\* whatever comes late.  Requires of modules above a cycle are excepted: a
\* cycle is forced while another place is tried for a module below it.
AboveCycle(m) == \E k \in Ids : Promise!Leads(k, k) /\ (k = m \/ Promise!Leads(m, k))
AnswerExclusive ==
  \A r \in Requires :
    \/ called[r] = 0 \/ errors[r] = 0
    \/ \E m \in AskedIds[r] : AboveCycle(m)

\* Two registered modules never stand for the same script, whatever names
\* they were asked for under (normalize, nameToUrl, makeModuleMap).
OneModulePerScript ==
  \A j, k \in DOMAIN registry :
    j # k /\ isDefine(registry[j]) /\ isDefine(registry[k]) =>
      mods[registry[j]].url # mods[registry[k]].url

\* The urls a module may be looked for at: every path may have moved on.
Rests(p) == {SubSeq(Paths[p], k, Len(Paths[p])) : k \in 1..Len(Paths[p])}
MovedPaths ==
  {q \in [DOMAIN Paths -> UNION {Rests(p) : p \in DOMAIN Paths}] :
     \A p \in DOMAIN Paths : q[p] \in Rests(p)}
Places(id) == {nameToUrl(id, q) : q \in MovedPaths}

\* A page that is configured well: no two modules have a place in common, and
\* a script found at a place of a module is its source.
OwnPlaces ==
  /\ \A i, j \in Ids : i # j => Places(i) \cap Places(j) = {}
  /\ \A i \in Ids : \A u \in Places(i) \cap DOMAIN Site : Site[u] = i

\* No path has more than one fallback.
TwoPlaces == \A p \in DOMAIN Paths : Len(Paths[p]) <= 2

\* When nothing fails, every require is answered, cycles included.
AllCalled ==
  [](failed = {} /\ expiries = 0) => <>(\A r \in Requires : called[r] = 1)

\* Registry, waitAry and waitCount fit together at every step of every handler.
BookkeepingExact == TypeOK /\ WaitCountExact
=============================================================================
