---------------------------- MODULE MCMessaging -----------------------------
(***************************************************************************)
(* Instances of Connection, Batches, Consumers and CacheSync for TLC.      *)
(* They meet where one of them is the surroundings of the other: nsqd and  *)
(* the topic are part of each model.  They share no variable, so each of   *)
(* Parts is explored alone, while the others stand still.                  *)
(***************************************************************************)
EXTENDS Connection, Batches, Consumers, CacheSync, TLC

CONSTANT Parts   \* of "connection", "batches", "consumers" and "cache"

VARIABLE part    \* the one that is explored

McVars == <<connVars, batchVars, vars, syncVars, part>>

McInit ==
  /\ part \in Parts
  /\ ConnInit /\ BatchInit /\ Init /\ SyncInit
  /\ part # "cache" => \A h \in Hosts : ~callBack[h]

ConnectionStep == part = "connection" /\ ConnNext /\ UNCHANGED <<batchVars, vars, syncVars, part>>
BatchStep == part = "batches" /\ BatchNext /\ UNCHANGED <<connVars, vars, syncVars, part>>
ConsumersStep == part = "consumers" /\ Next /\ UNCHANGED <<connVars, batchVars, syncVars, part>>
CacheStep == part = "cache" /\ SyncNext /\ UNCHANGED <<connVars, batchVars, vars, part>>

McNext == ConnectionStep \/ BatchStep \/ ConsumersStep \/ CacheStep

McSpec == McInit /\ [][McNext]_McVars

(* Threads, listeners, hosts and two of the producers bear the same two    *)
(* names: to exchange them exchanges them in every part                    *)
Symmetry == Permutations(Hosts)

(* None of the hosts has a RemoveCallBack, or some of them, but not all    *)
McSafeInit == McInit /\ \E h \in Hosts : ~callBack[h]
McSafeSpec == McSafeInit /\ [][McNext]_McVars

(* Liveness allows no symmetry set: there, of the two ways that one of the *)
(* two hosts has a RemoveCallBack, one is enough.  A part that stands      *)
(* still has nothing under way, so that its fairness asks for nothing.     *)
first == CHOOSE h \in Hosts : TRUE
McFairInit == McInit /\ (callBack[first] => \A h \in Hosts : callBack[h])
McFairSpec == McFairInit /\ [][McNext]_McVars /\ ConsumersFairness /\ Fairness

(* Message sizes in units; retry for ever, the undocumented 0, and once    *)
Sizes == <<1, 3, 0, 0>>
SomeRetries == {-1, 0, 1}
=============================================================================
