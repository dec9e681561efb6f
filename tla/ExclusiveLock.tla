------------------------------ MODULE ExclusiveLock ------------------------------
(***************************************************************************)
(* What the volume locker promises its callers, whatever happens below it: *)
(* at any time at most one node's driver believes that it holds a volume,  *)
(* and a volume changes hands only by first being held by nobody.  The     *)
(* disk mailbox is built on this promise: it passes the locker of the rpc  *)
(* lock volume to its critical sections.                                   *)
(***************************************************************************)
CONSTANTS Node, Vol

VARIABLE holders    \* holders[v]: the nodes whose driver believes it holds v

Init == holders = [v \in Vol |-> {}]

(* A node becomes the holder of free volumes: one that it locks, or all    *)
(* those it finds in use when its driver starts.                           *)
Acquire(n) ==
    \E S \in SUBSET Vol :
        /\ \A v \in S : holders[v] = {}
        /\ holders' = [v \in Vol |-> IF v \in S THEN {n} ELSE holders[v]]

(* A node stops being the holder: it unlocks, or its driver or host dies.  *)
Release(n) ==
    \E S \in SUBSET Vol :
        /\ \A v \in S : holders[v] = {n}
        /\ holders' = [v \in Vol |-> IF v \in S THEN {} ELSE holders[v]]

Next == \E n \in Node : Acquire(n) \/ Release(n)

Spec == Init /\ [][Next]_holders
=============================================================================
