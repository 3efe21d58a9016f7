-------------------------- MODULE LruCacheHistory ---------------------------
(***************************************************************************)
(* LruCache with two history variables, to state what its callers see:     *)
(* the contents a running get could have answered with, and how often each *)
(* value was stored without having been informed of its removal since.     *)
(***************************************************************************)
EXTENDS LruCache

VARIABLES
  window,   \* per thread in get: what its key has held since the call began
  owed      \* per value: times stored minus removeEvent() calls

hvars == <<vars, window, owed>>

HInit ==
  /\ Init
  /\ window = [t \in Threads |-> {}]
  /\ owed = [v \in Values |-> 0]

contents == [k \in Keys |-> Current(k)]
IsGet(c) == c.op = "get"

Observe ==
  window' = [t \in Threads |->
               IF IsGet(call'[t])
               THEN (IF IsGet(call[t]) THEN window[t] ELSE {})
                      \cup {contents'[call'[t].key]}
               ELSE {}]

(* Values stored by a step of t, and values whose listener it calls        *)
Stores(t) ==
  IF \/ At(t, "pk")
     \/ At(t, "pv") /\ ~Mismatch(t) /\ Replaced(t) # NULL
  THEN {call[t].val} ELSE {}

Informs(t, v) ==
  IF ~EnableListeners THEN 0
  ELSE IF pc[t] \in {"re", "pe"} THEN IF oldValue[t] = v THEN 1 ELSE 0
  ELSE IF At(t, "ce") THEN Cardinality({x \in listeners[t] : value[x] = v})
  ELSE 0

Account(t) ==
  owed' = [v \in Values |->
             owed[v] + (IF v \in Stores(t) THEN 1 ELSE 0) - Informs(t, v)]

HNext ==
  \E t \in Threads :
    \/ Start(t) /\ Observe /\ UNCHANGED owed
    \/ Continue(t) /\ Observe /\ Account(t)

HSpec == HInit /\ [][HNext]_hvars

-----------------------------------------------------------------------------
(* What a get returns, hit or miss, is what its key held at some moment    *)
(* between the call and the return, although the walk takes no lock and    *)
(* follows the pointers of items that are being unlinked.  In particular a *)
(* key that stays in the cache is never missed.                            *)
GetIsLinearizable ==
  \A t \in Threads :
    (At(t, "gr") /\ IsGet(call[t])) \/ (At(t, "gt") /\ item[t] = NULL)
      => GetResult(t) \in window[t]

(* Items whose value still has to be informed: in a chain, in what clear() *)
(* has detached or collected                                               *)
Holders(v) ==
  {x \in Items :
     /\ value[x] = v
     /\ \/ \E b \in Buckets : x \in Chain(b)
        \/ \E t \in Threads :
             \/ At(t, "ci") /\ x \in Reach(item[t], nextHash)
             \/ x \in listeners[t]}

(* "they will be informed when they're removed from the cache": each value *)
(* stored is in the cache, or on its way to removeEvent(), or has been     *)
(* informed, exactly once for each time it was stored.                     *)
InformedOnce ==
  \A v \in Values :
    owed[v] = Cardinality(Holders(v))
              + Cardinality({t \in Threads : pc[t] \in {"re", "pe"} /\ oldValue[t] = v})
=============================================================================
