----------------------------- MODULE VolumeLockProofs -----------------------------
(***************************************************************************)
(* Proofs about VolumeLock, for any number of nodes, volumes, operations   *)
(* and crashes, and for lvm commands that fail at will.  The one thing     *)
(* assumed is that no command runs after its caller was told it had        *)
(* failed: with such commands mutual exclusion does not hold.              *)
(***************************************************************************)
EXTENDS VolumeLock, FiniteSetTheorems, TLAPS

(* The method that a node's locker is in fits the step it is at. *)
Shape(n) ==
    /\ pc[n] \in {"down", "idle"} => call[n] = NoCall
    /\ pc[n] \in {"list", "next"} => call[n].fn = "sync"
    /\ pc[n] = "list" => call[n].vol = None /\ todo[n] = {}
    /\ pc[n] \in {"activate", "undo"} => call[n].fn = "LockVolume"
    /\ pc[n] = "deactivate" => call[n].fn \in {"UnlockVolume", "sync"}
    /\ pc[n] \in {"activate", "fetch", "retag", "deactivate", "undo"} =>
          call[n].fn # "none" /\ call[n].vol \in Vol
    /\ call[n].fn = "LockVolume" => call[n].op \in Op
    /\ call[n].fn # "sync" => todo[n] = {}

(* A volume that is held, or open, is active on its node and tagged so. *)
Held(n) ==
    \A v \in Vol :
        locks[n][v] # {} \/ opened[n][v] # {} => lease[v] = n /\ ownerTags[v] = {n}

(* The volume a method works on, and those sync has yet to release, are    *)
(* neither held nor open on the node.                                      *)
BusyFree(n) ==
    \A v \in Vol :
        v = call[n].vol \/ v \in todo[n] => locks[n][v] = {} /\ opened[n][v] = {}

(* LockVolume keeps the lease while it tags the volume, so the tags it has *)
(* read are still those of the volume.                                     *)
Tagging(n) ==
    call[n].fn = "LockVolume" =>
        /\ pc[n] \in {"fetch", "retag"} => lease[call[n].vol] = n
        /\ pc[n] = "retag" => ownerTags[call[n].vol] \subseteq call[n].seen

(* A driver that has not listed its volumes yet holds none, and only       *)
(* staged devices are open; later, every open device is held.              *)
OpenKnown(n) ==
    \A v \in Vol :
        /\ opened[n][v] # {} => v \in Managed
        /\ pc[n] \in {"down", "list"} =>
              locks[n][v] = {} /\ opened[n][v] \subseteq {StageOp}
        /\ pc[n] \notin {"down", "list"} => opened[n][v] \subseteq locks[n][v]

NodeInv(n) == Shape(n) /\ Held(n) /\ BusyFree(n) /\ Tagging(n) /\ OpenKnown(n)

IInv ==
    /\ TypeOK
    /\ late = {}
    /\ \A n \in Node : NodeInv(n)
    /\ AtMostOneOwner

(* What a step of node n does to the others: it leaves their lockers and   *)
(* devices alone, and every volume that one of them has active.            *)
Guarantee(n) ==
    /\ \A m \in Node \ {n} :
          /\ pc'[m] = pc[m] /\ call'[m] = call[m] /\ todo'[m] = todo[m]
          /\ locks'[m] = locks[m] /\ opened'[m] = opened[m]
    /\ \A v \in Vol :
          lease[v] \notin {None, n} => lease'[v] = lease[v] /\ ownerTags'[v] = ownerTags[v]

-----------------------------------------------------------------------------
(* What a command may do to the volume it is run on, when no caller gives  *)
(* up: nothing, or its effect, which needs the lease or a closed device.   *)
LEMMA CommandOutcome ==
    ASSUME MaxLate = 0, late = {}, NEW c, Succeeds(c) \/ Fails(c)
    PROVE  late' = {} /\ (UNCHANGED <<lease, ownerTags>> \/ Apply(c))
<1>1. Cardinality(late) = 0
    BY FS_EmptySet
<1>2. ~(Cardinality(late) < MaxLate)
    BY <1>1
<1> QED
    BY <1>2 DEF Succeeds, Fails, lvm

(* An activation succeeds only on a volume nobody else has, and takes it. *)
LEMMA ActivateEffect ==
    ASSUME TypeOK, NEW n \in Node, call[n].vol \in Vol,
           Apply(LvChange(n, "activate", {}, {}))
    PROVE  /\ lease[call[n].vol] \in {None, n}
           /\ lease' = [lease EXCEPT ![call[n].vol] = n]
           /\ ownerTags' = ownerTags
BY DEF LvChange, Apply, LeaseAfter, Permitted, TypeOK

(* A deactivation gives up the node's own lease or changes nothing. *)
LEMMA DeactivateEffect ==
    ASSUME TypeOK, NEW n \in Node, call[n].vol \in Vol,
           Apply(LvChange(n, "deactivate", {}, {}))
    PROVE  /\ \/ lease' = lease
              \/ /\ lease[call[n].vol] = n
                 /\ lease' = [lease EXCEPT ![call[n].vol] = None]
           /\ ownerTags' = ownerTags
BY DEF LvChange, Apply, LeaseAfter, Permitted, TypeOK

(* The tag change of setOwner replaces tags and leaves the lease alone. *)
LEMMA RetagEffect ==
    ASSUME TypeOK, NEW n \in Node, call[n].vol \in Vol, Apply(SetOwner(n))
    PROVE  /\ lease[call[n].vol] \in {None, n}
           /\ lease' = lease
           /\ ownerTags' = [ownerTags EXCEPT ![call[n].vol] =
                                (@ \ DelTags(n)) \cup Wanted(n)]
BY DEF SetOwner, LvChange, Apply, LeaseAfter, Permitted, TypeOK

(* The helpers of the actions keep pc and call well typed. *)
LEMMA GotoType ==
    ASSUME TypeOK, NEW n \in Node, NEW step \in Step, Goto(n, step)
    PROVE  pc' \in [Node -> Step]
BY DEF TypeOK, Goto

(* Entering a method keeps the type of the calls. *)
LEMMA EnterType ==
    ASSUME TypeOK, NEW n \in Node, NEW fn \in Fn, NEW v \in Vol \cup {None},
           NEW o \in Op \cup {None}, Enter(n, fn, v, o)
    PROVE  call' \in [Node -> Call]
BY DEF TypeOK, Enter, Call

(* Returning from one keeps the types of steps and calls. *)
LEMMA ReturnType ==
    ASSUME TypeOK, NEW n \in Node, Return(n)
    PROVE  pc' \in [Node -> Step] /\ call' \in [Node -> Call]
BY GotoType DEF TypeOK, Return, Step, NoCall, Call, Fn

(* A node's invariant relies on nothing but what the others guarantee. *)
LEMMA Rely ==
    ASSUME VolumeLockAssumption, NEW n \in Node, NEW m \in Node, m # n,
           NodeInv(m), Guarantee(n)
    PROVE  NodeInv(m)'
<1>1. /\ pc'[m] = pc[m] /\ call'[m] = call[m] /\ todo'[m] = todo[m]
      /\ locks'[m] = locks[m] /\ opened'[m] = opened[m]
    BY DEF Guarantee
<1>2. \A v \in Vol : lease[v] = m => lease'[v] = m /\ ownerTags'[v] = ownerTags[v]
    BY DEF Guarantee, VolumeLockAssumption
<1>3. Shape(m)'
    BY <1>1 DEF NodeInv, Shape
<1>4. Held(m)'
    BY <1>1, <1>2 DEF NodeInv, Held
<1>5. BusyFree(m)'
    BY <1>1 DEF NodeInv, BusyFree
<1>6. Tagging(m)'
    BY <1>1, <1>2 DEF NodeInv, Tagging, Shape
<1>7. OpenKnown(m)'
    BY <1>1 DEF NodeInv, OpenKnown
<1> QED
    BY <1>3, <1>4, <1>5, <1>6, <1>7 DEF NodeInv

(* So a step of n has to be shown to preserve n's part only. *)
LEMMA StepOf ==
    ASSUME VolumeLockAssumption, IInv, NEW n \in Node,
           TypeOK', late' = {}, Guarantee(n), NodeInv(n)', AtMostOneOwner'
    PROVE  IInv'
<1>1. \A m \in Node : NodeInv(m)'
    <2> TAKE m \in Node
    <2>1. CASE m = n
        BY <2>1
    <2>2. CASE m # n
        BY <2>2, Rely DEF IInv
    <2> QED
        BY <2>1, <2>2
<1> QED
    BY <1>1 DEF IInv

(* LockVolume, up to its first command. *)
LEMMA LockVolumePreserves ==
    ASSUME VolumeLockAssumption, MaxLate = 0, IInv, NEW n \in Node, NEW v \in Vol, NEW o \in Op,
           LockVolume(n, v, o)
    PROVE  IInv'
<1>i. /\ TypeOK /\ late = {} /\ AtMostOneOwner /\ NodeInv(n)
      /\ Shape(n) /\ Held(n) /\ BusyFree(n) /\ Tagging(n) /\ OpenKnown(n)
    BY DEF IInv, NodeInv
<1>1. TypeOK'
  <2>1. pc' \in [Node -> Step]
      BY <1>i, GotoType DEF LockVolume, Step, TypeOK
  <2>2. call' \in [Node -> Call]
      BY <1>i, EnterType DEF LockVolume, Fn, TypeOK
  <2>3. locks' = locks \/ locks' = [locks EXCEPT ![n][v] = @ \cup {o}]
      BY <1>i DEF LockVolume
  <2>4. [locks[n] EXCEPT ![v] = @ \cup {o}] \in [Vol -> SUBSET Op]
      BY <1>i DEF TypeOK
  <2>5. locks' \in [Node -> [Vol -> SUBSET Op]]
      BY <1>i, <2>3, <2>4 DEF TypeOK
  <2>6. entry' \in [Node -> SUBSET Vol]
      BY <1>i DEF LockVolume, TypeOK
  <2>7. lease' = lease /\ ownerTags' = ownerTags /\ late' = late /\ opened' = opened /\ todo' = todo /\ crashes' = crashes
      BY <1>i DEF LockVolume, lvm
  <2> QED
      BY <1>i, <2>1, <2>2, <2>3, <2>4, <2>5, <2>6, <2>7 DEF TypeOK
<1>2. late' = {}
    BY <1>i DEF LockVolume, Enter, Goto, lvm
<1>3. Guarantee(n)
    BY <1>i DEF Guarantee, TypeOK, LockVolume, Enter, Goto, lvm
<1>4. AtMostOneOwner'
    BY <1>i DEF AtMostOneOwner, LockVolume, Enter, Goto, lvm
<1>5. NodeInv(n)'
  <2>1. CASE locks[n][v] # {}
    <3>1. lease' = lease /\ ownerTags' = ownerTags /\ opened' = opened
        BY <1>i, <2>1 DEF LockVolume, Enter, Goto, lvm
    <3>2. pc[n] = "idle" /\ pc' = pc /\ call' = call /\ todo' = todo
        BY <1>i, <2>1 DEF LockVolume, Enter, Goto, lvm
    <3>3. locks'[n] = [locks[n] EXCEPT ![v] = @ \cup {o}]
        BY <1>i, <2>1 DEF LockVolume, Enter, Goto, lvm, TypeOK
    <3>4. locks[n] \in [Vol -> SUBSET Op]
        BY <1>i, <2>1 DEF TypeOK
    <3>p. Shape(n)'
        BY <1>i, <2>1, <3>1, <3>2, <3>3, <3>4 DEF Shape, NoCall
    <3>q. Held(n)'
        BY <1>i, <2>1, <3>1, <3>2, <3>3, <3>4 DEF Held, BusyFree, OpenKnown, Tagging, Shape
    <3>r. BusyFree(n)'
        BY <1>i, <2>1, <3>1, <3>2, <3>3, <3>4 DEF BusyFree, OpenKnown, Shape, NoCall, VolumeLockAssumption
    <3>s. Tagging(n)'
        BY <1>i, <2>1, <3>1, <3>2, <3>3, <3>4 DEF Tagging, Shape, Held, NoCall
    <3>t. OpenKnown(n)'
        BY <1>i, <2>1, <3>1, <3>2, <3>3, <3>4 DEF OpenKnown, BusyFree, Shape, VolumeLockAssumption
    <3> QED
        BY <3>p, <3>q, <3>r, <3>s, <3>t DEF NodeInv
  <2>2. CASE locks[n][v] = {}
    <3>1. lease' = lease /\ ownerTags' = ownerTags /\ opened' = opened
        BY <1>i, <2>2 DEF LockVolume, Enter, Goto, lvm
    <3>2. pc[n] = "idle" /\ pc'[n] = "activate"
        BY <1>i, <2>2 DEF LockVolume, Enter, Goto, lvm, TypeOK
    <3>3. todo' = todo /\ locks' = locks
        BY <1>i, <2>2 DEF LockVolume, Enter, Goto, lvm
    <3>4. call'[n] = [fn |-> "LockVolume", vol |-> v, op |-> o, seen |-> {}]
        BY <1>i, <2>2 DEF LockVolume, Enter, Goto, lvm, TypeOK
    <3>p. Shape(n)'
        BY <1>i, <2>2, <3>1, <3>2, <3>3, <3>4 DEF Shape, NoCall
    <3>q. Held(n)'
        BY <1>i, <2>2, <3>1, <3>2, <3>3, <3>4 DEF Held, BusyFree, OpenKnown, Tagging, Shape
    <3>r. BusyFree(n)'
        BY <1>i, <2>2, <3>1, <3>2, <3>3, <3>4 DEF BusyFree, OpenKnown, Shape, NoCall, VolumeLockAssumption
    <3>s. Tagging(n)'
        BY <1>i, <2>2, <3>1, <3>2, <3>3, <3>4 DEF Tagging, Shape, Held, NoCall
    <3>t. OpenKnown(n)'
        BY <1>i, <2>2, <3>1, <3>2, <3>3, <3>4 DEF OpenKnown, BusyFree, Shape, VolumeLockAssumption
    <3> QED
        BY <3>p, <3>q, <3>r, <3>s, <3>t DEF NodeInv
  <2> QED
      BY <1>i, <2>1, <2>2
<1> QED
    BY <1>1, <1>2, <1>3, <1>4, <1>5, StepOf

(* UnlockVolume, up to its first command. *)
LEMMA UnlockVolumePreserves ==
    ASSUME VolumeLockAssumption, MaxLate = 0, IInv, NEW n \in Node, NEW v \in Vol, NEW o \in Op,
           UnlockVolume(n, v, o)
    PROVE  IInv'
<1>i. /\ TypeOK /\ late = {} /\ AtMostOneOwner /\ NodeInv(n)
      /\ Shape(n) /\ Held(n) /\ BusyFree(n) /\ Tagging(n) /\ OpenKnown(n)
    BY DEF IInv, NodeInv
<1>1. TypeOK'
  <2>1. pc' \in [Node -> Step]
      BY <1>i, GotoType DEF UnlockVolume, Step, TypeOK
  <2>2. call' \in [Node -> Call]
      BY <1>i, EnterType DEF UnlockVolume, Fn, TypeOK
  <2>3. locks' \in [Node -> [Vol -> SUBSET Op]]
      BY <1>i DEF UnlockVolume, TypeOK
  <2>4. lease' = lease /\ ownerTags' = ownerTags /\ late' = late /\ opened' = opened /\ entry' = entry /\ todo' = todo /\ crashes' = crashes
      BY <1>i DEF UnlockVolume, lvm
  <2> QED
      BY <1>i, <2>1, <2>2, <2>3, <2>4 DEF TypeOK
<1>2. late' = {}
    BY <1>i DEF UnlockVolume, OtherOps, Enter, Goto, lvm
<1>3. Guarantee(n)
    BY <1>i DEF Guarantee, TypeOK, UnlockVolume, OtherOps, Enter, Goto, lvm
<1>4. AtMostOneOwner'
    BY <1>i DEF AtMostOneOwner, UnlockVolume, OtherOps, Enter, Goto, lvm
<1>5. NodeInv(n)'
  <2>1. CASE OtherOps(n, v, o) # {}
    <3>1. lease' = lease /\ ownerTags' = ownerTags /\ opened' = opened
        BY <1>i, <2>1 DEF UnlockVolume, OtherOps, Enter, Goto, lvm
    <3>2. pc[n] = "idle" /\ o \notin opened[n][v] /\ pc' = pc /\ call' = call /\ todo' = todo
        BY <1>i, <2>1 DEF UnlockVolume, OtherOps, Enter, Goto, lvm
    <3>3. locks'[n] = [locks[n] EXCEPT ![v] = @ \ {o}] /\ locks'[n][v] # {}
        BY <1>i, <2>1 DEF UnlockVolume, OtherOps, Enter, Goto, lvm, TypeOK
    <3>4. locks[n] \in [Vol -> SUBSET Op]
        BY <1>i, <2>1 DEF TypeOK
    <3>p. Shape(n)'
        BY <1>i, <2>1, <3>1, <3>2, <3>3, <3>4 DEF Shape, NoCall
    <3>q. Held(n)'
        BY <1>i, <2>1, <3>1, <3>2, <3>3, <3>4 DEF Held, BusyFree, OpenKnown, Tagging, Shape
    <3>r. BusyFree(n)'
        BY <1>i, <2>1, <3>1, <3>2, <3>3, <3>4 DEF BusyFree, OpenKnown, Shape, NoCall, VolumeLockAssumption
    <3>s. Tagging(n)'
        BY <1>i, <2>1, <3>1, <3>2, <3>3, <3>4 DEF Tagging, Shape, Held, NoCall
    <3>t. OpenKnown(n)'
        BY <1>i, <2>1, <3>1, <3>2, <3>3, <3>4 DEF OpenKnown, BusyFree, Shape, VolumeLockAssumption
    <3> QED
        BY <3>p, <3>q, <3>r, <3>s, <3>t DEF NodeInv
  <2>2. CASE OtherOps(n, v, o) = {}
    <3>1. lease' = lease /\ ownerTags' = ownerTags /\ opened' = opened /\ todo' = todo
        BY <1>i, <2>2 DEF UnlockVolume, OtherOps, Enter, Goto, lvm
    <3>2. pc[n] = "idle" /\ pc'[n] = "fetch"
        BY <1>i, <2>2 DEF UnlockVolume, OtherOps, Enter, Goto, lvm, TypeOK
    <3>3. locks'[n] = [locks[n] EXCEPT ![v] = {}] /\ locks[n][v] \subseteq {o}
        BY <1>i, <2>2 DEF UnlockVolume, OtherOps, Enter, Goto, lvm, TypeOK
    <3>4. locks[n] \in [Vol -> SUBSET Op]
        BY <1>i, <2>2 DEF TypeOK
    <3>5. opened[n][v] = {}
        BY <1>i, <2>2, <3>2, <3>3 DEF OpenKnown, UnlockVolume
    <3>6. call'[n] = [fn |-> "UnlockVolume", vol |-> v, op |-> o, seen |-> {}]
        BY <1>i, <2>2 DEF UnlockVolume, OtherOps, Enter, Goto, lvm, TypeOK
    <3>p. Shape(n)'
        BY <1>i, <2>2, <3>1, <3>2, <3>3, <3>4, <3>5, <3>6 DEF Shape, NoCall
    <3>q. Held(n)'
        BY <1>i, <2>2, <3>1, <3>2, <3>3, <3>4, <3>5, <3>6 DEF Held, BusyFree, OpenKnown, Tagging, Shape
    <3>r. BusyFree(n)'
        BY <1>i, <2>2, <3>1, <3>2, <3>3, <3>4, <3>5, <3>6 DEF BusyFree, OpenKnown, Shape, NoCall, VolumeLockAssumption
    <3>s. Tagging(n)'
        BY <1>i, <2>2, <3>1, <3>2, <3>3, <3>4, <3>5, <3>6 DEF Tagging, Shape, Held, NoCall
    <3>t. OpenKnown(n)'
        BY <1>i, <2>2, <3>1, <3>2, <3>3, <3>4, <3>5, <3>6 DEF OpenKnown, BusyFree, Shape, VolumeLockAssumption
    <3> QED
        BY <3>p, <3>q, <3>r, <3>s, <3>t DEF NodeInv
  <2> QED
      BY <1>i, <2>1, <2>2
<1> QED
    BY <1>1, <1>2, <1>3, <1>4, <1>5, StepOf

(* A client opens a device that it holds. *)
LEMMA OpenPreserves ==
    ASSUME VolumeLockAssumption, MaxLate = 0, IInv, NEW n \in Node, NEW v \in Vol, NEW o \in Op,
           Open(n, v, o)
    PROVE  IInv'
<1>i. /\ TypeOK /\ late = {} /\ AtMostOneOwner /\ NodeInv(n)
      /\ Shape(n) /\ Held(n) /\ BusyFree(n) /\ Tagging(n) /\ OpenKnown(n)
    BY DEF IInv, NodeInv
<1>1. TypeOK'
    BY <1>i DEF TypeOK, Step, Fn, Call, NoCall, VolumeLockAssumption, Open, Serving, lvm
<1>2. late' = {}
    BY <1>i DEF Open, Serving, lvm
<1>3. Guarantee(n)
    BY <1>i DEF Guarantee, TypeOK, Open, Serving, lvm
<1>4. AtMostOneOwner'
    BY <1>i DEF AtMostOneOwner, Open, Serving, lvm
<1>5. NodeInv(n)'
  <2>1. lease' = lease /\ ownerTags' = ownerTags /\ pc' = pc /\ call' = call /\ todo' = todo /\ locks' = locks
      BY <1>i DEF Open, Serving, lvm
  <2>2. v \in Managed /\ o \in locks[n][v] /\ pc[n] # "down" /\ call[n].fn # "sync"
      BY <1>i DEF Open, Serving, lvm
  <2>3. opened'[n] = [opened[n] EXCEPT ![v] = @ \cup {o}]
      BY <1>i DEF Open, Serving, lvm, TypeOK
  <2>4. opened[n] \in [Vol -> SUBSET Op]
      BY <1>i DEF TypeOK
  <2>p. Shape(n)'
      BY <1>i, <2>1, <2>2, <2>3, <2>4 DEF Shape, NoCall
  <2>q. Held(n)'
      BY <1>i, <2>1, <2>2, <2>3, <2>4 DEF Held, BusyFree, OpenKnown, Tagging, Shape
  <2>r. BusyFree(n)'
      BY <1>i, <2>1, <2>2, <2>3, <2>4 DEF BusyFree, OpenKnown, Shape, NoCall, VolumeLockAssumption
  <2>s. Tagging(n)'
      BY <1>i, <2>1, <2>2, <2>3, <2>4 DEF Tagging, Shape, Held, NoCall
  <2>t. OpenKnown(n)'
      BY <1>i, <2>1, <2>2, <2>3, <2>4 DEF OpenKnown, BusyFree, Shape, VolumeLockAssumption
  <2> QED
      BY <2>p, <2>q, <2>r, <2>s, <2>t DEF NodeInv
<1> QED
    BY <1>1, <1>2, <1>3, <1>4, <1>5, StepOf

(* A client closes a device. *)
LEMMA ClosePreserves ==
    ASSUME VolumeLockAssumption, MaxLate = 0, IInv, NEW n \in Node, NEW v \in Vol, NEW o \in Op,
           Close(n, v, o)
    PROVE  IInv'
<1>i. /\ TypeOK /\ late = {} /\ AtMostOneOwner /\ NodeInv(n)
      /\ Shape(n) /\ Held(n) /\ BusyFree(n) /\ Tagging(n) /\ OpenKnown(n)
    BY DEF IInv, NodeInv
<1>1. TypeOK'
    BY <1>i DEF TypeOK, Step, Fn, Call, NoCall, VolumeLockAssumption, Close, Serving, lvm
<1>2. late' = {}
    BY <1>i DEF Close, Serving, lvm
<1>3. Guarantee(n)
    BY <1>i DEF Guarantee, TypeOK, Close, Serving, lvm
<1>4. AtMostOneOwner'
    BY <1>i DEF AtMostOneOwner, Close, Serving, lvm
<1>5. NodeInv(n)'
  <2>1. lease' = lease /\ ownerTags' = ownerTags /\ pc' = pc /\ call' = call /\ todo' = todo /\ locks' = locks
      BY <1>i DEF Close, Serving, lvm
  <2>2. opened'[n] = [opened[n] EXCEPT ![v] = @ \ {o}]
      BY <1>i DEF Close, Serving, lvm, TypeOK
  <2>3. opened[n] \in [Vol -> SUBSET Op]
      BY <1>i DEF TypeOK
  <2>p. Shape(n)'
      BY <1>i, <2>1, <2>2, <2>3 DEF Shape, NoCall
  <2>q. Held(n)'
      BY <1>i, <2>1, <2>2, <2>3 DEF Held, BusyFree, OpenKnown, Tagging, Shape
  <2>r. BusyFree(n)'
      BY <1>i, <2>1, <2>2, <2>3 DEF BusyFree, OpenKnown, Shape, NoCall, VolumeLockAssumption
  <2>s. Tagging(n)'
      BY <1>i, <2>1, <2>2, <2>3 DEF Tagging, Shape, Held, NoCall
  <2>t. OpenKnown(n)'
      BY <1>i, <2>1, <2>2, <2>3 DEF OpenKnown, BusyFree, Shape, VolumeLockAssumption
  <2> QED
      BY <2>p, <2>q, <2>r, <2>s, <2>t DEF NodeInv
<1> QED
    BY <1>1, <1>2, <1>3, <1>4, <1>5, StepOf

(* A driver starts. *)
LEMMA StartPreserves ==
    ASSUME VolumeLockAssumption, MaxLate = 0, IInv, NEW n \in Node,
           Start(n)
    PROVE  IInv'
<1>i. /\ TypeOK /\ late = {} /\ AtMostOneOwner /\ NodeInv(n)
      /\ Shape(n) /\ Held(n) /\ BusyFree(n) /\ Tagging(n) /\ OpenKnown(n)
    BY DEF IInv, NodeInv
<1>1. TypeOK'
    BY <1>i DEF TypeOK, Step, Fn, Call, NoCall, VolumeLockAssumption, Start, Enter, Goto, lvm
<1>2. late' = {}
    BY <1>i DEF Start, Enter, Goto, lvm
<1>3. Guarantee(n)
    BY <1>i DEF Guarantee, TypeOK, Start, Enter, Goto, lvm
<1>4. AtMostOneOwner'
    BY <1>i DEF AtMostOneOwner, Start, Enter, Goto, lvm
<1>5. NodeInv(n)'
  <2>1. lease' = lease /\ ownerTags' = ownerTags /\ todo' = todo /\ locks' = locks /\ opened' = opened
      BY <1>i DEF Start, Enter, Goto, lvm
  <2>2. pc[n] = "down" /\ pc'[n] = "list"
      BY <1>i DEF Start, Enter, Goto, lvm, TypeOK
  <2>3. call'[n] = [fn |-> "sync", vol |-> None, op |-> None, seen |-> {}]
      BY <1>i DEF Start, Enter, Goto, lvm, TypeOK
  <2>p. Shape(n)'
      BY <1>i, <2>1, <2>2, <2>3 DEF Shape, NoCall
  <2>q. Held(n)'
      BY <1>i, <2>1, <2>2, <2>3 DEF Held, BusyFree, OpenKnown, Tagging, Shape
  <2>r. BusyFree(n)'
      BY <1>i, <2>1, <2>2, <2>3 DEF BusyFree, OpenKnown, Shape, NoCall, VolumeLockAssumption
  <2>s. Tagging(n)'
      BY <1>i, <2>1, <2>2, <2>3 DEF Tagging, Shape, Held, NoCall
  <2>t. OpenKnown(n)'
      BY <1>i, <2>1, <2>2, <2>3 DEF OpenKnown, BusyFree, Shape, VolumeLockAssumption
  <2> QED
      BY <2>p, <2>q, <2>r, <2>s, <2>t DEF NodeInv
<1> QED
    BY <1>1, <1>2, <1>3, <1>4, <1>5, StepOf

(* sync lists the active volumes, or fails to. *)
LEMMA SyncListPreserves ==
    ASSUME VolumeLockAssumption, MaxLate = 0, IInv, NEW n \in Node,
           SyncList(n)
    PROVE  IInv'
<1>i. /\ TypeOK /\ late = {} /\ AtMostOneOwner /\ NodeInv(n)
      /\ Shape(n) /\ Held(n) /\ BusyFree(n) /\ Tagging(n) /\ OpenKnown(n)
    BY DEF IInv, NodeInv
<1>1. TypeOK'
  <2>1. pc' \in [Node -> Step]
      BY <1>i, GotoType DEF SyncList, Step, TypeOK
  <2>2. NoCall \in Call
      BY <1>i DEF NoCall, Call, Fn
  <2>3. call' \in [Node -> Call]
      BY <1>i, <2>2 DEF SyncList, TypeOK
  <2>4. [v \in Vol |-> IF v \in Adopted(n) THEN {StageOp} ELSE {}] \in [Vol -> SUBSET Op]
      BY <1>i, VolumeLockAssumption DEF VolumeLockAssumption
  <2>5. locks' \in [Node -> [Vol -> SUBSET Op]]
      BY <1>i, <2>4 DEF SyncList, TypeOK
  <2>6. entry' \in [Node -> SUBSET Vol]
      BY <1>i, VolumeLockAssumption DEF SyncList, TypeOK, Adopted, Active, VolumeLockAssumption
  <2>7. todo' \in [Node -> SUBSET Managed]
      BY <1>i DEF SyncList, TypeOK, Idle, Active
  <2>8. lease' = lease /\ ownerTags' = ownerTags /\ late' = late /\ opened' = opened /\ crashes' = crashes
      BY <1>i DEF SyncList, lvm
  <2> QED
      BY <1>i, <2>1, <2>2, <2>3, <2>4, <2>5, <2>6, <2>7, <2>8 DEF TypeOK
<1>2. late' = {}
    BY <1>i DEF SyncList, Adopted, Idle, Active, Goto, lvm
<1>3. Guarantee(n)
    BY <1>i DEF Guarantee, TypeOK, SyncList, Adopted, Idle, Active, Goto, lvm
<1>4. AtMostOneOwner'
    BY <1>i DEF AtMostOneOwner, SyncList, Adopted, Idle, Active, Goto, lvm
<1>5. NodeInv(n)'
  <2>1. CASE pc'[n] = "next"
    <3>1. lease' = lease /\ ownerTags' = ownerTags /\ opened' = opened
        BY <1>i, <2>1 DEF SyncList, Adopted, Idle, Active, Goto, lvm
    <3>2. pc[n] = "list" /\ call' = call
        BY <1>i, <2>1 DEF SyncList, Adopted, Idle, Active, Goto, lvm, TypeOK
    <3>3. todo'[n] = Idle(n)
        BY <1>i, <2>1 DEF SyncList, Goto, TypeOK
    <3>4. locks' = [locks EXCEPT ![n] =
            [v \in Vol |-> IF v \in Adopted(n) THEN {StageOp} ELSE {}]]
        BY <1>i, <2>1 DEF SyncList, Goto, TypeOK
    <3>5. \A v \in Vol : locks'[n][v] = IF v \in Adopted(n) THEN {StageOp} ELSE {}
        BY <1>i, <2>1, <3>4 DEF TypeOK
    <3>6. \A v \in Vol : v \in Adopted(n) <=> opened[n][v] # {}
        BY <1>i, <2>1 DEF Held, OpenKnown, Adopted, Active
    <3>7. \A v \in Idle(n) : v \in Vol /\ opened[n][v] = {} /\ v \notin Adopted(n)
        BY <1>i, <2>1 DEF Idle, Active, Adopted, VolumeLockAssumption
    <3>p. Shape(n)'
        BY <1>i, <2>1, <3>1, <3>2, <3>3, <3>4, <3>5, <3>6, <3>7 DEF Shape, NoCall
    <3>q. Held(n)'
        BY <1>i, <2>1, <3>1, <3>2, <3>3, <3>4, <3>5, <3>6, <3>7 DEF Held, BusyFree, OpenKnown, Tagging, Shape
    <3>r. BusyFree(n)'
        BY <1>i, <2>1, <3>1, <3>2, <3>3, <3>4, <3>5, <3>6, <3>7 DEF BusyFree, OpenKnown, Shape, NoCall, VolumeLockAssumption
    <3>s. Tagging(n)'
        BY <1>i, <2>1, <3>1, <3>2, <3>3, <3>4, <3>5, <3>6, <3>7 DEF Tagging, Shape, Held, NoCall
    <3>t. OpenKnown(n)'
        BY <1>i, <2>1, <3>1, <3>2, <3>3, <3>4, <3>5, <3>6, <3>7 DEF OpenKnown, BusyFree, Shape, VolumeLockAssumption
    <3> QED
        BY <3>p, <3>q, <3>r, <3>s, <3>t DEF NodeInv
  <2>2. CASE pc'[n] # "next"
    <3>1. lease' = lease /\ ownerTags' = ownerTags /\ opened' = opened /\ locks' = locks /\ todo' = todo
        BY <1>i, <2>2 DEF SyncList, Adopted, Idle, Active, Goto, lvm, TypeOK
    <3>2. pc[n] = "list" /\ pc'[n] = "down"
        BY <1>i, <2>2 DEF SyncList, Adopted, Idle, Active, Goto, lvm, TypeOK
    <3>3. call'[n] = NoCall
        BY <1>i, <2>2 DEF SyncList, Adopted, Idle, Active, Goto, lvm, TypeOK
    <3>p. Shape(n)'
        BY <1>i, <2>2, <3>1, <3>2, <3>3 DEF Shape, NoCall
    <3>q. Held(n)'
        BY <1>i, <2>2, <3>1, <3>2, <3>3 DEF Held, BusyFree, OpenKnown, Tagging, Shape
    <3>r. BusyFree(n)'
        BY <1>i, <2>2, <3>1, <3>2, <3>3 DEF BusyFree, OpenKnown, Shape, NoCall, VolumeLockAssumption
    <3>s. Tagging(n)'
        BY <1>i, <2>2, <3>1, <3>2, <3>3 DEF Tagging, Shape, Held, NoCall
    <3>t. OpenKnown(n)'
        BY <1>i, <2>2, <3>1, <3>2, <3>3 DEF OpenKnown, BusyFree, Shape, VolumeLockAssumption
    <3> QED
        BY <3>p, <3>q, <3>r, <3>s, <3>t DEF NodeInv
  <2> QED
      BY <1>i, <2>1, <2>2
<1> QED
    BY <1>1, <1>2, <1>3, <1>4, <1>5, StepOf

(* sync goes on to the next volume, or returns. *)
LEMMA SyncNextPreserves ==
    ASSUME VolumeLockAssumption, MaxLate = 0, IInv, NEW n \in Node,
           SyncNext(n)
    PROVE  IInv'
<1>i. /\ TypeOK /\ late = {} /\ AtMostOneOwner /\ NodeInv(n)
      /\ Shape(n) /\ Held(n) /\ BusyFree(n) /\ Tagging(n) /\ OpenKnown(n)
    BY DEF IInv, NodeInv
<1>1. TypeOK'
  <2>1. pc' \in [Node -> Step]
      BY <1>i, GotoType, ReturnType DEF SyncNext, Step
  <2>2. call' \in [Node -> Call]
      BY <1>i, EnterType, ReturnType DEF SyncNext, Fn, TypeOK, VolumeLockAssumption
  <2>3. todo' \in [Node -> SUBSET Managed]
      BY <1>i DEF SyncNext, TypeOK
  <2>4. lease' = lease /\ ownerTags' = ownerTags /\ late' = late /\ opened' = opened /\ locks' = locks /\ entry' = entry /\ crashes' = crashes
      BY <1>i DEF SyncNext, lvm
  <2> QED
      BY <1>i, <2>1, <2>2, <2>3, <2>4 DEF TypeOK
<1>2. late' = {}
    BY <1>i DEF SyncNext, Enter, Return, Goto, lvm
<1>3. Guarantee(n)
    BY <1>i DEF Guarantee, TypeOK, SyncNext, Enter, Return, Goto, lvm
<1>4. AtMostOneOwner'
    BY <1>i DEF AtMostOneOwner, SyncNext, Enter, Return, Goto, lvm
<1>5. NodeInv(n)'
  <2>1. CASE todo[n] = {}
    <3>1. lease' = lease /\ ownerTags' = ownerTags /\ opened' = opened /\ locks' = locks /\ todo' = todo
        BY <1>i, <2>1 DEF SyncNext, Enter, Return, Goto, lvm
    <3>2. pc[n] = "next" /\ pc'[n] = "idle" /\ call'[n] = NoCall
        BY <1>i, <2>1 DEF SyncNext, Enter, Return, Goto, lvm, TypeOK
    <3>p. Shape(n)'
        BY <1>i, <2>1, <3>1, <3>2 DEF Shape, NoCall
    <3>q. Held(n)'
        BY <1>i, <2>1, <3>1, <3>2 DEF Held, BusyFree, OpenKnown, Tagging, Shape
    <3>r. BusyFree(n)'
        BY <1>i, <2>1, <3>1, <3>2 DEF BusyFree, OpenKnown, Shape, NoCall, VolumeLockAssumption
    <3>s. Tagging(n)'
        BY <1>i, <2>1, <3>1, <3>2 DEF Tagging, Shape, Held, NoCall
    <3>t. OpenKnown(n)'
        BY <1>i, <2>1, <3>1, <3>2 DEF OpenKnown, BusyFree, Shape, VolumeLockAssumption
    <3> QED
        BY <3>p, <3>q, <3>r, <3>s, <3>t DEF NodeInv
  <2>2. CASE todo[n] # {}
    <3>1. lease' = lease /\ ownerTags' = ownerTags /\ opened' = opened /\ locks' = locks
        BY <1>i, <2>2 DEF SyncNext, Enter, Return, Goto, lvm
    <3>2. pc[n] = "next" /\ pc'[n] = "deactivate"
        BY <1>i, <2>2 DEF SyncNext, Enter, Return, Goto, lvm, TypeOK
    <3>3. todo'[n] \subseteq todo[n]
        BY <1>i, <2>2 DEF SyncNext, Enter, Return, Goto, lvm, TypeOK
    <3>4. call'[n].fn = "sync" /\ call'[n].vol \in todo[n] /\ call'[n].vol \in Vol
        BY <1>i, <2>2 DEF SyncNext, Enter, Return, Goto, lvm, TypeOK, VolumeLockAssumption
    <3>p. Shape(n)'
        BY <1>i, <2>2, <3>1, <3>2, <3>3, <3>4 DEF Shape, NoCall
    <3>q. Held(n)'
        BY <1>i, <2>2, <3>1, <3>2, <3>3, <3>4 DEF Held, BusyFree, OpenKnown, Tagging, Shape
    <3>r. BusyFree(n)'
        BY <1>i, <2>2, <3>1, <3>2, <3>3, <3>4 DEF BusyFree, OpenKnown, Shape, NoCall, VolumeLockAssumption
    <3>s. Tagging(n)'
        BY <1>i, <2>2, <3>1, <3>2, <3>3, <3>4 DEF Tagging, Shape, Held, NoCall
    <3>t. OpenKnown(n)'
        BY <1>i, <2>2, <3>1, <3>2, <3>3, <3>4 DEF OpenKnown, BusyFree, Shape, VolumeLockAssumption
    <3> QED
        BY <3>p, <3>q, <3>r, <3>s, <3>t DEF NodeInv
  <2> QED
      BY <1>i, <2>1, <2>2
<1> QED
    BY <1>1, <1>2, <1>3, <1>4, <1>5, StepOf

(* setOwner reads the tags, or fails to. *)
LEMMA FetchTagsPreserves ==
    ASSUME VolumeLockAssumption, MaxLate = 0, IInv, NEW n \in Node,
           FetchTags(n)
    PROVE  IInv'
<1>i. /\ TypeOK /\ late = {} /\ AtMostOneOwner /\ NodeInv(n)
      /\ Shape(n) /\ Held(n) /\ BusyFree(n) /\ Tagging(n) /\ OpenKnown(n)
    BY DEF IInv, NodeInv
<1>1. TypeOK'
  <2>1. pc' \in [Node -> Step]
      BY <1>i, GotoType, ReturnType DEF FetchTags, SetOwnerFailed, Step
  <2>2. call[n] \in Call /\ call[n].vol \in Vol
      BY <1>i DEF TypeOK, FetchTags, Shape
  <2>3. [call[n] EXCEPT !.seen = ownerTags[call[n].vol]] \in Call
      BY <1>i, <2>2 DEF Call, TypeOK
  <2>4. \/ call' = [call EXCEPT ![n] = [call[n] EXCEPT !.seen = ownerTags[call[n].vol]]]
        \/ call' = call
        \/ Return(n)
      BY <1>i DEF FetchTags, SetOwnerFailed
  <2>5. call' \in [Node -> Call]
      BY <1>i, <2>3, <2>4, ReturnType DEF TypeOK
  <2>6. lease' = lease /\ ownerTags' = ownerTags /\ late' = late /\ opened' = opened /\ locks' = locks /\ entry' = entry /\ todo' = todo /\ crashes' = crashes
      BY <1>i DEF FetchTags, SetOwnerFailed, lvm
  <2> QED
      BY <1>i, <2>1, <2>2, <2>3, <2>4, <2>5, <2>6 DEF TypeOK
<1>2. late' = {}
    BY <1>i DEF FetchTags, SetOwnerFailed, Return, Goto, lvm
<1>3. Guarantee(n)
    BY <1>i DEF Guarantee, TypeOK, FetchTags, SetOwnerFailed, Return, Goto, lvm
<1>4. AtMostOneOwner'
    BY <1>i DEF AtMostOneOwner, FetchTags, SetOwnerFailed, Return, Goto, lvm
<1>5. NodeInv(n)'
  <2>1. CASE pc'[n] = "retag"
    <3>1. lease' = lease /\ ownerTags' = ownerTags /\ opened' = opened /\ locks' = locks /\ todo' = todo
        BY <1>i, <2>1 DEF FetchTags, SetOwnerFailed, Return, Goto, lvm, TypeOK
    <3>2. pc[n] = "fetch"
        BY <1>i, <2>1 DEF FetchTags, SetOwnerFailed, Return, Goto, lvm
    <3>3. call' = [call EXCEPT ![n].seen = ownerTags[call[n].vol]]
        BY <1>i, <2>1 DEF FetchTags, SetOwnerFailed, Return, Goto, lvm, TypeOK
    <3>4. call[n] \in Call
        BY <1>i, <2>1 DEF TypeOK
    <3>5. /\ call'[n].fn = call[n].fn /\ call'[n].vol = call[n].vol /\ call'[n].op = call[n].op
          /\ call'[n].seen = ownerTags[call[n].vol]
        BY <1>i, <2>1, <3>3, <3>4 DEF Call, TypeOK
    <3>p. Shape(n)'
        BY <1>i, <2>1, <3>1, <3>2, <3>3, <3>4, <3>5 DEF Shape, NoCall
    <3>q. Held(n)'
        BY <1>i, <2>1, <3>1, <3>2, <3>3, <3>4, <3>5 DEF Held, BusyFree, OpenKnown, Tagging, Shape
    <3>r. BusyFree(n)'
        BY <1>i, <2>1, <3>1, <3>2, <3>3, <3>4, <3>5 DEF BusyFree, OpenKnown, Shape, NoCall, VolumeLockAssumption
    <3>s. Tagging(n)'
        BY <1>i, <2>1, <3>1, <3>2, <3>3, <3>4, <3>5 DEF Tagging, Shape, Held, NoCall
    <3>t. OpenKnown(n)'
        BY <1>i, <2>1, <3>1, <3>2, <3>3, <3>4, <3>5 DEF OpenKnown, BusyFree, Shape, VolumeLockAssumption
    <3> QED
        BY <3>p, <3>q, <3>r, <3>s, <3>t DEF NodeInv
  <2>2. CASE pc'[n] # "retag"
    <3>1. lease' = lease /\ ownerTags' = ownerTags /\ opened' = opened /\ locks' = locks /\ todo' = todo
        BY <1>i, <2>2 DEF FetchTags, SetOwnerFailed, Return, Goto, lvm, TypeOK
    <3>2. pc[n] = "fetch" /\ SetOwnerFailed(n)
        BY <1>i, <2>2 DEF FetchTags, Goto, TypeOK
    <3>3. \/ call[n].fn = "LockVolume" /\ pc'[n] = "undo" /\ call'[n] = call[n]
          \/ call[n].fn = "UnlockVolume" /\ pc'[n] = "idle" /\ call'[n] = NoCall
          \/ call[n].fn = "sync" /\ pc'[n] = "next" /\ call'[n] = call[n]
        BY <1>i, <2>2, <3>2 DEF SetOwnerFailed, Return, Goto, TypeOK
    <3>p. Shape(n)'
        BY <1>i, <2>2, <3>1, <3>2, <3>3 DEF Shape, NoCall
    <3>q. Held(n)'
        BY <1>i, <2>2, <3>1, <3>2, <3>3 DEF Held, BusyFree, OpenKnown, Tagging, Shape
    <3>r. BusyFree(n)'
        BY <1>i, <2>2, <3>1, <3>2, <3>3 DEF BusyFree, OpenKnown, Shape, NoCall, VolumeLockAssumption
    <3>s. Tagging(n)'
        BY <1>i, <2>2, <3>1, <3>2, <3>3 DEF Tagging, Shape, Held, NoCall
    <3>t. OpenKnown(n)'
        BY <1>i, <2>2, <3>1, <3>2, <3>3 DEF OpenKnown, BusyFree, Shape, VolumeLockAssumption
    <3> QED
        BY <3>p, <3>q, <3>r, <3>s, <3>t DEF NodeInv
  <2> QED
      BY <1>i, <2>1, <2>2
<1> QED
    BY <1>1, <1>2, <1>3, <1>4, <1>5, StepOf

(* A driver dies. *)
LEMMA DriverCrashPreserves ==
    ASSUME VolumeLockAssumption, MaxLate = 0, IInv, NEW n \in Node,
           DriverCrash(n)
    PROVE  IInv'
<1>i. /\ TypeOK /\ late = {} /\ AtMostOneOwner /\ NodeInv(n)
      /\ Shape(n) /\ Held(n) /\ BusyFree(n) /\ Tagging(n) /\ OpenKnown(n)
    BY DEF IInv, NodeInv
<1>1. TypeOK'
    BY <1>i DEF TypeOK, Step, Fn, Call, NoCall, VolumeLockAssumption, DriverCrash, Forget, Goto, lvm
<1>2. late' = {}
    BY <1>i DEF DriverCrash, Forget, Goto, lvm
<1>3. Guarantee(n)
    BY <1>i DEF Guarantee, TypeOK, DriverCrash, Forget, Goto, lvm
<1>4. AtMostOneOwner'
    BY <1>i DEF AtMostOneOwner, DriverCrash, Forget, Goto, lvm
<1>5. NodeInv(n)'
  <2>1. lease' = lease /\ ownerTags' = ownerTags
      BY <1>i DEF DriverCrash, Forget, Goto, lvm
  <2>2. pc'[n] = "down" /\ call'[n] = NoCall /\ todo'[n] = {}
      BY <1>i DEF DriverCrash, Forget, Goto, lvm, TypeOK
  <2>3. \A v \in Vol : locks'[n][v] = {}
      BY <1>i DEF DriverCrash, Forget, Goto, lvm, TypeOK
  <2>4. \A v \in Vol : opened'[n][v] = opened[n][v] \cap {StageOp}
      BY <1>i DEF DriverCrash, Forget, Goto, lvm, TypeOK
  <2>p. Shape(n)'
      BY <1>i, <2>1, <2>2, <2>3, <2>4 DEF Shape, NoCall
  <2>q. Held(n)'
      BY <1>i, <2>1, <2>2, <2>3, <2>4 DEF Held, BusyFree, OpenKnown, Tagging, Shape
  <2>r. BusyFree(n)'
      BY <1>i, <2>1, <2>2, <2>3, <2>4 DEF BusyFree, OpenKnown, Shape, NoCall, VolumeLockAssumption
  <2>s. Tagging(n)'
      BY <1>i, <2>1, <2>2, <2>3, <2>4 DEF Tagging, Shape, Held, NoCall
  <2>t. OpenKnown(n)'
      BY <1>i, <2>1, <2>2, <2>3, <2>4 DEF OpenKnown, BusyFree, Shape, VolumeLockAssumption
  <2> QED
      BY <2>p, <2>q, <2>r, <2>s, <2>t DEF NodeInv
<1> QED
    BY <1>1, <1>2, <1>3, <1>4, <1>5, StepOf

(* A host dies. *)
LEMMA HostCrashPreserves ==
    ASSUME VolumeLockAssumption, MaxLate = 0, IInv, NEW n \in Node,
           HostCrash(n)
    PROVE  IInv'
<1>i. /\ TypeOK /\ late = {} /\ AtMostOneOwner /\ NodeInv(n)
      /\ Shape(n) /\ Held(n) /\ BusyFree(n) /\ Tagging(n) /\ OpenKnown(n)
    BY DEF IInv, NodeInv
<1>1. TypeOK'
    BY <1>i DEF TypeOK, Step, Fn, Call, NoCall, VolumeLockAssumption, HostCrash, Forget, Goto
<1>2. late' = {}
    BY <1>i DEF HostCrash, Forget, Goto
<1>3. Guarantee(n)
    BY <1>i DEF Guarantee, TypeOK, HostCrash, Forget, Goto
<1>4. AtMostOneOwner'
    BY <1>i DEF AtMostOneOwner, HostCrash, Forget, Goto
<1>5. NodeInv(n)'
  <2>1. pc'[n] = "down" /\ call'[n] = NoCall /\ todo'[n] = {}
      BY <1>i DEF HostCrash, Forget, Goto, TypeOK
  <2>2. \A v \in Vol : locks'[n][v] = {}
      BY <1>i DEF HostCrash, Forget, Goto, TypeOK
  <2>3. \A v \in Vol : opened'[n][v] = {}
      BY <1>i DEF HostCrash, Forget, Goto, TypeOK
  <2>p. Shape(n)'
      BY <1>i, <2>1, <2>2, <2>3 DEF Shape, NoCall
  <2>q. Held(n)'
      BY <1>i, <2>1, <2>2, <2>3 DEF Held, BusyFree, OpenKnown, Tagging, Shape
  <2>r. BusyFree(n)'
      BY <1>i, <2>1, <2>2, <2>3 DEF BusyFree, OpenKnown, Shape, NoCall, VolumeLockAssumption
  <2>s. Tagging(n)'
      BY <1>i, <2>1, <2>2, <2>3 DEF Tagging, Shape, Held, NoCall
  <2>t. OpenKnown(n)'
      BY <1>i, <2>1, <2>2, <2>3 DEF OpenKnown, BusyFree, Shape, VolumeLockAssumption
  <2> QED
      BY <2>p, <2>q, <2>r, <2>s, <2>t DEF NodeInv
<1> QED
    BY <1>1, <1>2, <1>3, <1>4, <1>5, StepOf

(* LockVolume activates the volume, or fails to. *)
LEMMA ActivatePreserves ==
    ASSUME VolumeLockAssumption, MaxLate = 0, IInv, NEW n \in Node,
           Activate(n)
    PROVE  IInv'
<1>i. /\ TypeOK /\ late = {} /\ AtMostOneOwner /\ NodeInv(n)
      /\ Shape(n) /\ Held(n) /\ BusyFree(n) /\ Tagging(n) /\ OpenKnown(n)
    BY DEF IInv, NodeInv
<1> DEFINE w == call[n].vol
<1>a. w \in Vol /\ pc[n] = "activate"
    BY <1>i DEF Activate, Shape
<1>b. late' = {} /\ (UNCHANGED <<lease, ownerTags>> \/ Apply(LvChange(n, "activate", {}, {})))
    BY <1>i, CommandOutcome DEF Activate, lvm
<1>c. /\ ownerTags' = ownerTags
      /\ \/ lease' = lease
         \/ lease[w] \in {None, n} /\ lease' = [lease EXCEPT ![w] = n]
    BY <1>i, <1>a, <1>b, ActivateEffect
<1> HIDE DEF w
<1>1. TypeOK'
  <2>1. pc' \in [Node -> Step]
      BY <1>i, GotoType, ReturnType DEF Activate, Step
  <2>2. call' \in [Node -> Call]
      BY <1>i, ReturnType DEF Activate, TypeOK
  <2>3. lease' \in [Vol -> Node \cup {None}]
      BY <1>i, <1>a, <1>c DEF TypeOK
  <2>4. ownerTags' = ownerTags /\ late' = {}
      BY <1>i, <1>b, <1>c
  <2>5. opened' = opened /\ locks' = locks /\ entry' = entry /\ todo' = todo /\ crashes' = crashes
      BY <1>i DEF Activate
  <2> QED
      BY <1>i, <2>1, <2>2, <2>3, <2>4, <2>5 DEF TypeOK
<1>2. late' = {}
    BY <1>i, <1>b
<1>3. Guarantee(n)
    BY <1>i, <1>a, <1>c DEF Guarantee, TypeOK, Activate, Return, Goto
<1>4. AtMostOneOwner'
    BY <1>i, <1>a, <1>c DEF AtMostOneOwner, TypeOK
<1>5. NodeInv(n)'
  <2>1. CASE pc'[n] = "fetch"
    <3>1. opened' = opened /\ locks' = locks /\ todo' = todo /\ call' = call /\ call[n].fn = "LockVolume"
        BY <1>i, <2>1, <1>a DEF Activate, Return, Goto, TypeOK, Shape
    <3>2. Succeeds(LvChange(n, "activate", {}, {}))
        BY <1>i, <2>1, <1>a DEF Activate, Return, Goto, TypeOK
    <3>3. lease'[w] = n
        BY <1>i, <2>1, <1>a, <3>2, ActivateEffect DEF Succeeds, TypeOK, w
    <3>4. \A v \in Vol \ {w} : lease'[v] = lease[v]
        BY <1>i, <2>1, <1>a, <1>c DEF TypeOK
    <3>5. ownerTags' = ownerTags /\ w = call[n].vol /\ locks[n][w] = {} /\ opened[n][w] = {}
        BY <1>i, <2>1, <1>a, <1>c DEF BusyFree, w
    <3>6. pc[n] = "activate" /\ w \in Vol
        BY <1>i, <2>1, <1>a
    <3>p. Shape(n)'
        BY <1>i, <2>1, <3>1, <3>2, <3>3, <3>4, <3>5, <3>6 DEF Shape, NoCall
    <3>q. Held(n)'
        BY <1>i, <2>1, <3>1, <3>2, <3>3, <3>4, <3>5, <3>6 DEF Held, BusyFree, OpenKnown, Tagging, Shape
    <3>r. BusyFree(n)'
        BY <1>i, <2>1, <3>1, <3>2, <3>3, <3>4, <3>5, <3>6 DEF BusyFree, OpenKnown, Shape, NoCall, VolumeLockAssumption
    <3>s. Tagging(n)'
        BY <1>i, <2>1, <3>1, <3>2, <3>3, <3>4, <3>5, <3>6 DEF Tagging, Shape, Held, NoCall
    <3>t. OpenKnown(n)'
        BY <1>i, <2>1, <3>1, <3>2, <3>3, <3>4, <3>5, <3>6 DEF OpenKnown, BusyFree, Shape, VolumeLockAssumption
    <3> QED
        BY <3>p, <3>q, <3>r, <3>s, <3>t DEF NodeInv
  <2>2. CASE pc'[n] # "fetch"
    <3>1. opened' = opened /\ locks' = locks /\ todo' = todo
        BY <1>i, <2>2, <1>a DEF Activate
    <3>2. pc'[n] = "idle" /\ call'[n] = NoCall /\ call[n].fn = "LockVolume"
        BY <1>i, <2>2, <1>a DEF Activate, Return, Goto, TypeOK, Shape
    <3>3. ownerTags' = ownerTags /\ w = call[n].vol /\ locks[n][w] = {} /\ opened[n][w] = {}
        BY <1>i, <2>2, <1>a, <1>c DEF BusyFree, w
    <3>4. \A v \in Vol \ {w} : lease'[v] = lease[v]
        BY <1>i, <2>2, <1>a, <1>c DEF TypeOK
    <3>5. pc[n] = "activate" /\ w \in Vol
        BY <1>i, <2>2, <1>a
    <3>p. Shape(n)'
        BY <1>i, <2>2, <3>1, <3>2, <3>3, <3>4, <3>5 DEF Shape, NoCall
    <3>q. Held(n)'
        BY <1>i, <2>2, <3>1, <3>2, <3>3, <3>4, <3>5 DEF Held, BusyFree, OpenKnown, Tagging, Shape
    <3>r. BusyFree(n)'
        BY <1>i, <2>2, <3>1, <3>2, <3>3, <3>4, <3>5 DEF BusyFree, OpenKnown, Shape, NoCall, VolumeLockAssumption
    <3>s. Tagging(n)'
        BY <1>i, <2>2, <3>1, <3>2, <3>3, <3>4, <3>5 DEF Tagging, Shape, Held, NoCall
    <3>t. OpenKnown(n)'
        BY <1>i, <2>2, <3>1, <3>2, <3>3, <3>4, <3>5 DEF OpenKnown, BusyFree, Shape, VolumeLockAssumption
    <3> QED
        BY <3>p, <3>q, <3>r, <3>s, <3>t DEF NodeInv
  <2> QED
      BY <1>i, <2>1, <2>2
<1> QED
    BY <1>1, <1>2, <1>3, <1>4, <1>5, StepOf

(* LockVolume gives the volume back. *)
LEMMA UndoPreserves ==
    ASSUME VolumeLockAssumption, MaxLate = 0, IInv, NEW n \in Node,
           Undo(n)
    PROVE  IInv'
<1>i. /\ TypeOK /\ late = {} /\ AtMostOneOwner /\ NodeInv(n)
      /\ Shape(n) /\ Held(n) /\ BusyFree(n) /\ Tagging(n) /\ OpenKnown(n)
    BY DEF IInv, NodeInv
<1> DEFINE w == call[n].vol
<1>a. w \in Vol /\ pc[n] = "undo"
    BY <1>i DEF Undo, Shape
<1>b. late' = {} /\ (UNCHANGED <<lease, ownerTags>> \/ Apply(LvChange(n, "deactivate", {}, {})))
    BY <1>i, CommandOutcome DEF Undo, lvm
<1>c. /\ ownerTags' = ownerTags
      /\ \/ lease' = lease
         \/ lease[w] = n /\ lease' = [lease EXCEPT ![w] = None]
    BY <1>i, <1>a, <1>b, DeactivateEffect
<1> HIDE DEF w
<1>1. TypeOK'
    BY <1>i, <1>a, <1>b, <1>c DEF TypeOK, Step, Fn, Call, NoCall, VolumeLockAssumption, Undo, Return, Goto
<1>2. late' = {}
    BY <1>i, <1>b
<1>3. Guarantee(n)
    BY <1>i, <1>a, <1>c DEF Guarantee, TypeOK, Undo, Return, Goto
<1>4. AtMostOneOwner'
    BY <1>i, <1>a, <1>c DEF AtMostOneOwner, TypeOK
<1>5. NodeInv(n)'
  <2>1. opened' = opened /\ locks' = locks /\ todo' = todo
      BY <1>i, <1>a DEF Undo
  <2>2. pc'[n] = "idle" /\ call'[n] = NoCall /\ call[n].fn = "LockVolume"
      BY <1>i, <1>a DEF Undo, Return, Goto, TypeOK, Shape
  <2>3. ownerTags' = ownerTags /\ w = call[n].vol /\ locks[n][w] = {} /\ opened[n][w] = {}
      BY <1>i, <1>a, <1>c DEF BusyFree, w
  <2>4. \A v \in Vol \ {w} : lease'[v] = lease[v]
      BY <1>i, <1>a, <1>c DEF TypeOK
  <2>5. pc[n] = "undo"
      BY <1>i, <1>a
  <2>p. Shape(n)'
      BY <1>i, <2>1, <2>2, <2>3, <2>4, <2>5 DEF Shape, NoCall
  <2>q. Held(n)'
      BY <1>i, <2>1, <2>2, <2>3, <2>4, <2>5 DEF Held, BusyFree, OpenKnown, Tagging, Shape
  <2>r. BusyFree(n)'
      BY <1>i, <2>1, <2>2, <2>3, <2>4, <2>5 DEF BusyFree, OpenKnown, Shape, NoCall, VolumeLockAssumption
  <2>s. Tagging(n)'
      BY <1>i, <2>1, <2>2, <2>3, <2>4, <2>5 DEF Tagging, Shape, Held, NoCall
  <2>t. OpenKnown(n)'
      BY <1>i, <2>1, <2>2, <2>3, <2>4, <2>5 DEF OpenKnown, BusyFree, Shape, VolumeLockAssumption
  <2> QED
      BY <2>p, <2>q, <2>r, <2>s, <2>t DEF NodeInv
<1> QED
    BY <1>1, <1>2, <1>3, <1>4, <1>5, StepOf

(* UnlockVolume and sync deactivate the volume. *)
LEMMA DeactivatePreserves ==
    ASSUME VolumeLockAssumption, MaxLate = 0, IInv, NEW n \in Node,
           Deactivate(n)
    PROVE  IInv'
<1>i. /\ TypeOK /\ late = {} /\ AtMostOneOwner /\ NodeInv(n)
      /\ Shape(n) /\ Held(n) /\ BusyFree(n) /\ Tagging(n) /\ OpenKnown(n)
    BY DEF IInv, NodeInv
<1> DEFINE w == call[n].vol
<1>a. w \in Vol /\ pc[n] = "deactivate"
    BY <1>i DEF Deactivate, Shape
<1>b. late' = {} /\ (UNCHANGED <<lease, ownerTags>> \/ Apply(LvChange(n, "deactivate", {}, {})))
    BY <1>i, CommandOutcome DEF Deactivate, lvm
<1>c. /\ ownerTags' = ownerTags
      /\ \/ lease' = lease
         \/ lease[w] = n /\ lease' = [lease EXCEPT ![w] = None]
    BY <1>i, <1>a, <1>b, DeactivateEffect
<1> HIDE DEF w
<1>1. TypeOK'
  <2>1. pc' \in [Node -> Step]
      BY <1>i, GotoType, ReturnType DEF Deactivate, Step
  <2>2. call' \in [Node -> Call]
      BY <1>i, ReturnType DEF Deactivate, TypeOK
  <2>3. entry' \in [Node -> SUBSET Vol]
      BY <1>i DEF Deactivate, TypeOK
  <2>4. lease' \in [Vol -> Node \cup {None}]
      BY <1>i, <1>a, <1>c DEF TypeOK
  <2>5. ownerTags' = ownerTags /\ late' = {}
      BY <1>i, <1>b, <1>c
  <2>6. opened' = opened /\ locks' = locks /\ todo' = todo /\ crashes' = crashes
      BY <1>i DEF Deactivate
  <2> QED
      BY <1>i, <2>1, <2>2, <2>3, <2>4, <2>5, <2>6 DEF TypeOK
<1>2. late' = {}
    BY <1>i, <1>b
<1>3. Guarantee(n)
    BY <1>i, <1>a, <1>c DEF Guarantee, TypeOK, Deactivate, Return, Goto
<1>4. AtMostOneOwner'
    BY <1>i, <1>a, <1>c DEF AtMostOneOwner, TypeOK
<1>5. NodeInv(n)'
  <2>1. CASE call[n].fn = "sync"
    <3>1. opened' = opened /\ locks' = locks /\ todo' = todo /\ call' = call
        BY <1>i, <2>1, <1>a DEF Deactivate
    <3>2. pc'[n] = "fetch"
        BY <1>i, <2>1, <1>a DEF Deactivate, Goto, TypeOK
    <3>3. ownerTags' = ownerTags /\ w = call[n].vol /\ locks[n][w] = {} /\ opened[n][w] = {}
        BY <1>i, <2>1, <1>a, <1>c DEF BusyFree, w
    <3>4. \A v \in Vol \ {w} : lease'[v] = lease[v]
        BY <1>i, <2>1, <1>a, <1>c DEF TypeOK
    <3>5. pc[n] = "deactivate" /\ w \in Vol
        BY <1>i, <2>1, <1>a
    <3>p. Shape(n)'
        BY <1>i, <2>1, <3>1, <3>2, <3>3, <3>4, <3>5 DEF Shape, NoCall
    <3>q. Held(n)'
        BY <1>i, <2>1, <3>1, <3>2, <3>3, <3>4, <3>5 DEF Held, BusyFree, OpenKnown, Tagging, Shape
    <3>r. BusyFree(n)'
        BY <1>i, <2>1, <3>1, <3>2, <3>3, <3>4, <3>5 DEF BusyFree, OpenKnown, Shape, NoCall, VolumeLockAssumption
    <3>s. Tagging(n)'
        BY <1>i, <2>1, <3>1, <3>2, <3>3, <3>4, <3>5 DEF Tagging, Shape, Held, NoCall
    <3>t. OpenKnown(n)'
        BY <1>i, <2>1, <3>1, <3>2, <3>3, <3>4, <3>5 DEF OpenKnown, BusyFree, Shape, VolumeLockAssumption
    <3> QED
        BY <3>p, <3>q, <3>r, <3>s, <3>t DEF NodeInv
  <2>2. CASE call[n].fn # "sync"
    <3>1. opened' = opened /\ locks' = locks /\ todo' = todo
        BY <1>i, <2>2, <1>a DEF Deactivate
    <3>2. pc'[n] = "idle" /\ call'[n] = NoCall
        BY <1>i, <2>2, <1>a DEF Deactivate, Return, Goto, TypeOK
    <3>3. ownerTags' = ownerTags /\ w = call[n].vol /\ locks[n][w] = {} /\ opened[n][w] = {}
        BY <1>i, <2>2, <1>a, <1>c DEF BusyFree, w
    <3>4. \A v \in Vol \ {w} : lease'[v] = lease[v]
        BY <1>i, <2>2, <1>a, <1>c DEF TypeOK
    <3>5. pc[n] = "deactivate" /\ w \in Vol
        BY <1>i, <2>2, <1>a
    <3>p. Shape(n)'
        BY <1>i, <2>2, <3>1, <3>2, <3>3, <3>4, <3>5 DEF Shape, NoCall
    <3>q. Held(n)'
        BY <1>i, <2>2, <3>1, <3>2, <3>3, <3>4, <3>5 DEF Held, BusyFree, OpenKnown, Tagging, Shape
    <3>r. BusyFree(n)'
        BY <1>i, <2>2, <3>1, <3>2, <3>3, <3>4, <3>5 DEF BusyFree, OpenKnown, Shape, NoCall, VolumeLockAssumption
    <3>s. Tagging(n)'
        BY <1>i, <2>2, <3>1, <3>2, <3>3, <3>4, <3>5 DEF Tagging, Shape, Held, NoCall
    <3>t. OpenKnown(n)'
        BY <1>i, <2>2, <3>1, <3>2, <3>3, <3>4, <3>5 DEF OpenKnown, BusyFree, Shape, VolumeLockAssumption
    <3> QED
        BY <3>p, <3>q, <3>r, <3>s, <3>t DEF NodeInv
  <2> QED
      BY <1>i, <2>1, <2>2
<1> QED
    BY <1>1, <1>2, <1>3, <1>4, <1>5, StepOf

(* setOwner changes the tags, for each of its callers. *)
LEMMA RetagPreserves ==
    ASSUME VolumeLockAssumption, MaxLate = 0, IInv, NEW n \in Node,
           Retag(n)
    PROVE  IInv'
<1>i. /\ TypeOK /\ late = {} /\ AtMostOneOwner /\ NodeInv(n)
      /\ Shape(n) /\ Held(n) /\ BusyFree(n) /\ Tagging(n) /\ OpenKnown(n)
    BY DEF IInv, NodeInv
<1> DEFINE w == call[n].vol
<1>a. w \in Vol /\ pc[n] = "retag"
    BY <1>i DEF Retag, Shape
<1>b. late' = {} /\ (UNCHANGED <<lease, ownerTags>> \/ Apply(SetOwner(n)))
    BY <1>i, CommandOutcome DEF Retag, lvm
<1>c. /\ lease' = lease
      /\ \/ ownerTags' = ownerTags
         \/ /\ lease[w] \in {None, n}
            /\ ownerTags' = [ownerTags EXCEPT ![w] = (@ \ DelTags(n)) \cup Wanted(n)]
    BY <1>i, <1>a, <1>b, RetagEffect
<1> HIDE DEF w
<1>1. TypeOK'
  <2>1. SetOwnerDone(n) \/ SetOwnerFailed(n)
      BY <1>i DEF Retag
  <2>2. pc' \in [Node -> Step]
      BY <1>i, <2>1, GotoType, ReturnType DEF SetOwnerDone, SetOwnerFailed, Step
  <2>3. call' \in [Node -> Call]
      BY <1>i, <2>1, ReturnType DEF SetOwnerDone, SetOwnerFailed, TypeOK
  <2>4. locks' \in [Node -> [Vol -> SUBSET Op]]
      BY <1>i, <1>a, <2>1 DEF SetOwnerDone, SetOwnerFailed, Shape, TypeOK
  <2>5. ownerTags' \in [Vol -> SUBSET Node]
      BY <1>i, <1>a, <1>c DEF Wanted, TypeOK
  <2>6. lease' = lease /\ late' = {}
      BY <1>i, <1>b, <1>c
  <2>7. opened' = opened /\ entry' = entry /\ todo' = todo /\ crashes' = crashes
      BY <1>i DEF Retag
  <2> QED
      BY <1>i, <2>1, <2>2, <2>3, <2>4, <2>5, <2>6, <2>7 DEF TypeOK
<1>2. late' = {}
    BY <1>i, <1>b
<1>3. Guarantee(n)
    BY <1>i, <1>a, <1>c DEF Guarantee, TypeOK, Retag, SetOwnerDone, SetOwnerFailed, Wanted, DelTags, Return, Goto
<1>4. AtMostOneOwner'
  <2>1. ownerTags'[w] = {n} \/ ownerTags'[w] \subseteq ownerTags[w]
    <3>1. CASE call[n].fn = "LockVolume"
        BY <1>i, <1>a, <1>c, <3>1 DEF Tagging, DelTags, Wanted, TypeOK, w
    <3>2. CASE call[n].fn # "LockVolume"
        BY <1>i, <1>a, <1>c, <3>2 DEF Wanted, TypeOK
    <3> QED
        BY <3>1, <3>2
  <2>2. \A v \in Vol \ {w} : ownerTags'[v] = ownerTags[v]
      BY <1>i, <1>a, <1>c DEF TypeOK
  <2> QED
      BY <1>i, <1>a, <2>1, <2>2 DEF AtMostOneOwner
<1>5. NodeInv(n)'
  <2>1. CASE call[n].fn = "LockVolume" /\ pc'[n] = "idle"
    <3>1. w = call[n].vol /\ w \in Vol /\ pc[n] = "retag" /\ lease' = lease /\ locks[n][w] = {} /\ opened[n][w] = {}
        BY <1>i, <2>1, <1>a, <1>c DEF BusyFree, w
    <3>2. \A v \in Vol \ {w} : ownerTags'[v] = ownerTags[v]
        BY <1>i, <2>1, <1>a, <1>c DEF TypeOK
    <3>3. opened' = opened /\ todo' = todo
        BY <1>i, <2>1 DEF Retag
    <3>4. Succeeds(SetOwner(n)) /\ SetOwnerDone(n)
        BY <1>i, <2>1, <1>a DEF Retag, SetOwnerFailed, Wanted, Goto, TypeOK
    <3>5. call'[n] = NoCall /\ locks'[n] = [locks[n] EXCEPT ![w] = @ \cup {call[n].op}]
        BY <1>i, <2>1, <3>4 DEF SetOwnerDone, Return, TypeOK, w
    <3>6. lease[w] = n /\ ownerTags[w] \subseteq call[n].seen
        BY <1>i, <2>1, <1>a DEF Tagging, w
    <3>7. ownerTags'[w] = (ownerTags[w] \ DelTags(n)) \cup Wanted(n)
        BY <1>i, <2>1, <1>a, <3>4, RetagEffect DEF Succeeds, TypeOK, w
    <3>8. ownerTags'[w] = {n}
        BY <1>i, <2>1, <3>6, <3>7 DEF DelTags, Wanted
    <3>9. locks[n] \in [Vol -> SUBSET Op]
        BY <1>i, <2>1 DEF TypeOK
    <3>p. Shape(n)'
        BY <1>i, <2>1, <3>1, <3>2, <3>3, <3>4, <3>5, <3>6, <3>7, <3>8, <3>9 DEF Shape, NoCall
    <3>q. Held(n)'
        BY <1>i, <2>1, <3>1, <3>2, <3>3, <3>4, <3>5, <3>6, <3>7, <3>8, <3>9 DEF Held, BusyFree, OpenKnown, Tagging, Shape
    <3>r. BusyFree(n)'
        BY <1>i, <2>1, <3>1, <3>2, <3>3, <3>4, <3>5, <3>6, <3>7, <3>8, <3>9 DEF BusyFree, OpenKnown, Shape, NoCall, VolumeLockAssumption
    <3>s. Tagging(n)'
        BY <1>i, <2>1, <3>1, <3>2, <3>3, <3>4, <3>5, <3>6, <3>7, <3>8, <3>9 DEF Tagging, Shape, Held, NoCall
    <3>t. OpenKnown(n)'
        BY <1>i, <2>1, <3>1, <3>2, <3>3, <3>4, <3>5, <3>6, <3>7, <3>8, <3>9 DEF OpenKnown, BusyFree, Shape, VolumeLockAssumption
    <3> QED
        BY <3>p, <3>q, <3>r, <3>s, <3>t DEF NodeInv
  <2>2. CASE call[n].fn = "LockVolume" /\ pc'[n] # "idle"
    <3>1. w = call[n].vol /\ w \in Vol /\ pc[n] = "retag" /\ lease' = lease /\ locks[n][w] = {} /\ opened[n][w] = {}
        BY <1>i, <2>2, <1>a, <1>c DEF BusyFree, w
    <3>2. \A v \in Vol \ {w} : ownerTags'[v] = ownerTags[v]
        BY <1>i, <2>2, <1>a, <1>c DEF TypeOK
    <3>3. opened' = opened /\ todo' = todo
        BY <1>i, <2>2 DEF Retag
    <3>4. SetOwnerFailed(n)
        BY <1>i, <2>2, <1>a DEF Retag, SetOwnerDone, Return, Goto, TypeOK
    <3>5. pc'[n] = "undo" /\ call' = call /\ locks' = locks
        BY <1>i, <2>2, <3>4 DEF SetOwnerFailed, Goto, TypeOK
    <3>p. Shape(n)'
        BY <1>i, <2>2, <3>1, <3>2, <3>3, <3>4, <3>5 DEF Shape, NoCall
    <3>q. Held(n)'
        BY <1>i, <2>2, <3>1, <3>2, <3>3, <3>4, <3>5 DEF Held, BusyFree, OpenKnown, Tagging, Shape
    <3>r. BusyFree(n)'
        BY <1>i, <2>2, <3>1, <3>2, <3>3, <3>4, <3>5 DEF BusyFree, OpenKnown, Shape, NoCall, VolumeLockAssumption
    <3>s. Tagging(n)'
        BY <1>i, <2>2, <3>1, <3>2, <3>3, <3>4, <3>5 DEF Tagging, Shape, Held, NoCall
    <3>t. OpenKnown(n)'
        BY <1>i, <2>2, <3>1, <3>2, <3>3, <3>4, <3>5 DEF OpenKnown, BusyFree, Shape, VolumeLockAssumption
    <3> QED
        BY <3>p, <3>q, <3>r, <3>s, <3>t DEF NodeInv
  <2>3. CASE call[n].fn = "UnlockVolume"
    <3>1. w = call[n].vol /\ w \in Vol /\ pc[n] = "retag" /\ lease' = lease /\ locks[n][w] = {} /\ opened[n][w] = {}
        BY <1>i, <2>3, <1>a, <1>c DEF BusyFree, w
    <3>2. \A v \in Vol \ {w} : ownerTags'[v] = ownerTags[v]
        BY <1>i, <2>3, <1>a, <1>c DEF TypeOK
    <3>3. opened' = opened /\ todo' = todo
        BY <1>i, <2>3 DEF Retag
    <3>4. \/ pc'[n] = "deactivate" /\ call'[n] = call[n]
          \/ pc'[n] = "idle" /\ call'[n] = NoCall
        BY <1>i, <2>3, <1>a DEF Retag, SetOwnerDone, SetOwnerFailed, Return, Goto, TypeOK
    <3>5. locks' = locks
        BY <1>i, <2>3, <1>a DEF Retag, SetOwnerDone, SetOwnerFailed
    <3>p. Shape(n)'
        BY <1>i, <2>3, <3>1, <3>2, <3>3, <3>4, <3>5 DEF Shape, NoCall
    <3>q. Held(n)'
        BY <1>i, <2>3, <3>1, <3>2, <3>3, <3>4, <3>5 DEF Held, BusyFree, OpenKnown, Tagging, Shape
    <3>r. BusyFree(n)'
        BY <1>i, <2>3, <3>1, <3>2, <3>3, <3>4, <3>5 DEF BusyFree, OpenKnown, Shape, NoCall, VolumeLockAssumption
    <3>s. Tagging(n)'
        BY <1>i, <2>3, <3>1, <3>2, <3>3, <3>4, <3>5 DEF Tagging, Shape, Held, NoCall
    <3>t. OpenKnown(n)'
        BY <1>i, <2>3, <3>1, <3>2, <3>3, <3>4, <3>5 DEF OpenKnown, BusyFree, Shape, VolumeLockAssumption
    <3> QED
        BY <3>p, <3>q, <3>r, <3>s, <3>t DEF NodeInv
  <2>4. CASE call[n].fn = "sync"
    <3>1. w = call[n].vol /\ w \in Vol /\ pc[n] = "retag" /\ lease' = lease /\ locks[n][w] = {} /\ opened[n][w] = {}
        BY <1>i, <2>4, <1>a, <1>c DEF BusyFree, w
    <3>2. \A v \in Vol \ {w} : ownerTags'[v] = ownerTags[v]
        BY <1>i, <2>4, <1>a, <1>c DEF TypeOK
    <3>3. opened' = opened /\ todo' = todo
        BY <1>i, <2>4 DEF Retag
    <3>4. pc'[n] = "next" /\ call' = call /\ locks' = locks
        BY <1>i, <2>4, <1>a DEF Retag, SetOwnerDone, SetOwnerFailed, Goto, TypeOK
    <3>p. Shape(n)'
        BY <1>i, <2>4, <3>1, <3>2, <3>3, <3>4 DEF Shape, NoCall
    <3>q. Held(n)'
        BY <1>i, <2>4, <3>1, <3>2, <3>3, <3>4 DEF Held, BusyFree, OpenKnown, Tagging, Shape
    <3>r. BusyFree(n)'
        BY <1>i, <2>4, <3>1, <3>2, <3>3, <3>4 DEF BusyFree, OpenKnown, Shape, NoCall, VolumeLockAssumption
    <3>s. Tagging(n)'
        BY <1>i, <2>4, <3>1, <3>2, <3>3, <3>4 DEF Tagging, Shape, Held, NoCall
    <3>t. OpenKnown(n)'
        BY <1>i, <2>4, <3>1, <3>2, <3>3, <3>4 DEF OpenKnown, BusyFree, Shape, VolumeLockAssumption
    <3> QED
        BY <3>p, <3>q, <3>r, <3>s, <3>t DEF NodeInv
  <2> QED
      BY <1>i, <2>1, <2>2, <2>3, <2>4 DEF Retag, SetOwnerDone, SetOwnerFailed
<1> QED
    BY <1>1, <1>2, <1>3, <1>4, <1>5, StepOf

-----------------------------------------------------------------------------
(* The inductive invariant holds when no driver has started. *)
LEMMA InitInv == Init => IInv
<1> SUFFICES ASSUME Init PROVE IInv
    OBVIOUS
<1> USE VolumeLockAssumption DEF Init
<1>1. TypeOK
    BY DEF TypeOK, VolumeLockAssumption, Step, Call, NoCall, Fn
<1>2. ASSUME NEW n \in Node PROVE NodeInv(n)
    BY DEF NodeInv, Shape, Held, BusyFree, Tagging, OpenKnown, NoCall, VolumeLockAssumption
<1> QED
    BY <1>1, <1>2 DEF IInv, AtMostOneOwner

(* Every step of every node preserves the inductive invariant. *)
LEMMA NextInv == ASSUME MaxLate = 0, IInv, [Next]_vars PROVE IInv'
<1> USE VolumeLockAssumption
<1>1. ASSUME NEW n \in Node, Request(n) PROVE IInv'
  <2> PICK v \in Vol, o \in Op :
          LockVolume(n, v, o) \/ UnlockVolume(n, v, o) \/ Open(n, v, o) \/ Close(n, v, o)
      BY <1>1 DEF Request
  <2> QED
      BY LockVolumePreserves, UnlockVolumePreserves, OpenPreserves, ClosePreserves
<1>2. ASSUME NEW n \in Node, Proceed(n) PROVE IInv'
    BY <1>2, ActivatePreserves, UndoPreserves, FetchTagsPreserves, RetagPreserves,
       DeactivatePreserves, SyncListPreserves, SyncNextPreserves DEF Proceed
<1>3. ASSUME NEW n \in Node, Start(n) \/ DriverCrash(n) \/ HostCrash(n) PROVE IInv'
    BY <1>3, StartPreserves, DriverCrashPreserves, HostCrashPreserves
<1>4. ASSUME NEW c \in late, LateCommand(c) PROVE IInv'
    BY <1>4 DEF IInv
<1>5. ASSUME UNCHANGED vars PROVE IInv'
    BY <1>5 DEF vars, IInv, TypeOK, NodeInv, Shape, Held, BusyFree, Tagging, OpenKnown,
       AtMostOneOwner
<1> QED
    BY <1>1, <1>2, <1>3, <1>4, <1>5 DEF Next

(* The inductive invariant holds in every behaviour of the lockers without *)
(* late commands (volumelock.go:74-254).                                   *)
THEOREM InductiveInvariant == ASSUME MaxLate = 0 PROVE Spec => []IInv
<1>1. IInv /\ [Next]_vars => IInv'
    BY NextInv
<1> QED
    BY <1>1, InitInv, PTL DEF Spec

-----------------------------------------------------------------------------
(* The state keeps its shape (volumelock.go:44-50), with any number of     *)
(* nodes and crashes.                                                      *)
THEOREM TypeCorrect == ASSUME MaxLate = 0 PROVE Spec => []TypeOK
<1>1. IInv => TypeOK
    BY DEF IInv
<1> QED
    BY <1>1, InductiveInvariant, PTL

(* Who holds a volume in its locker has its lease (volumelock.go:74-148),  *)
(* through failed commands, crashes and other nodes' sync.                 *)
THEOREM HeldVolumes == ASSUME MaxLate = 0 PROVE Spec => []HeldIsActive
<1>1. IInv => HeldIsActive
    BY DEF IInv, NodeInv, Held, HeldIsActive
<1> QED
    BY <1>1, InductiveInvariant, PTL

(* Whoever holds a volume is the one, and the only one, that its owner     *)
(* tag names (volumelock.go:94-112, 177-215).                              *)
THEOREM OwnedWhileHeld == ASSUME MaxLate = 0 PROVE Spec => []OwnerTagWhileHeld
<1>1. IInv => OwnerTagWhileHeld
    BY DEF IInv, NodeInv, Held, OwnerTagWhileHeld
<1> QED
    BY <1>1, InductiveInvariant, PTL

(* Two drivers never both hold a volume (volumelock.go:74-148). *)
THEOREM Exclusion == ASSUME MaxLate = 0 PROVE Spec => []MutualExclusion
<1>1. IInv => MutualExclusion
    BY DEF IInv, NodeInv, Held, MutualExclusion
<1> QED
    BY <1>1, InductiveInvariant, PTL

(* No volume ever has two owner tags, which setOwner could not repair      *)
(* (volumelock.go:177-215).                                                *)
THEOREM SingleOwner == ASSUME MaxLate = 0 PROVE Spec => []AtMostOneOwner
<1>1. IInv => AtMostOneOwner
    BY DEF IInv
<1> QED
    BY <1>1, InductiveInvariant, PTL

(* A driver that serves knows of every operation that has a device open:   *)
(* sync takes over what a dead driver left in use (volumelock.go:217-254). *)
THEOREM InUse == ASSUME MaxLate = 0 PROVE Spec => []InUseIsLocked
<1>1. IInv => InUseIsLocked
    BY DEF IInv, NodeInv, OpenKnown, Shape, InUseIsLocked, Serving
<1> QED
    BY <1>1, InductiveInvariant, PTL

-----------------------------------------------------------------------------
(* Refinement.  A step changes the locks of one node at most, and either   *)
(* lets go of no volume or takes hold of none.                             *)
Grows(n) == \A v \in Vol : locks[n][v] # {} => locks'[n][v] # {}
Shrinks(n) == \A v \in Vol : locks'[n][v] # {} => locks[n][v] # {}
OneWay(n) ==
    /\ \A m \in Node \ {n} : locks'[m] = locks[m]
    /\ Grows(n) \/ Shrinks(n)

(* A step changes the locks of one node, and only adds or only removes. *)
LEMMA StepsAreOneWay ==
    ASSUME IInv, Next PROVE locks' = locks \/ \E n \in Node : OneWay(n)
<1> USE VolumeLockAssumption
<1>0. TypeOK
    BY DEF IInv
<1>1. ASSUME NEW n \in Node, NEW v \in Vol, NEW o \in Op, LockVolume(n, v, o)
      PROVE  locks' = locks \/ OneWay(n)
    <2>1. locks' = locks \/ locks' = [locks EXCEPT ![n][v] = @ \cup {o}]
        BY <1>1 DEF LockVolume
    <2> QED
        BY <1>0, <2>1 DEF OneWay, Grows, TypeOK
<1>2. ASSUME NEW n \in Node, NEW v \in Vol, NEW o \in Op, UnlockVolume(n, v, o)
      PROVE  OneWay(n)
    BY <1>0, <1>2 DEF UnlockVolume, OneWay, Shrinks, TypeOK
<1>3. ASSUME NEW n \in Node, Retag(n) PROVE locks' = locks \/ OneWay(n)
    <2>1. call[n].vol \in Vol
        BY <1>3 DEF IInv, NodeInv, Shape, Retag
    <2>2. \/ locks' = locks
          \/ locks' = [locks EXCEPT ![n][call[n].vol] = @ \cup {call[n].op}]
        BY <1>3 DEF Retag, SetOwnerDone, SetOwnerFailed
    <2>3. CASE locks' = [locks EXCEPT ![n][call[n].vol] = @ \cup {call[n].op}]
      <3>1. \A m \in Node \ {n} : locks'[m] = locks[m]
          BY <1>0, <2>3 DEF TypeOK
      <3>2. \A v \in Vol : locks[n][v] \subseteq locks'[n][v]
          BY <1>0, <2>1, <2>3 DEF TypeOK
      <3> QED
          BY <3>1, <3>2 DEF OneWay, Grows
    <2> QED
        BY <2>2, <2>3
<1>4. ASSUME NEW n \in Node, SyncList(n) PROVE locks' = locks \/ OneWay(n)
    <2>1. \A v \in Vol : locks[n][v] = {}
        BY <1>4 DEF IInv, NodeInv, OpenKnown, SyncList
    <2>2. locks' = locks \/ \A m \in Node \ {n} : locks'[m] = locks[m]
        BY <1>0, <1>4 DEF SyncList, TypeOK
    <2> QED
        BY <2>1, <2>2 DEF OneWay, Grows
<1>5. ASSUME NEW n \in Node, Forget(n) PROVE OneWay(n)
    BY <1>0, <1>5 DEF Forget, OneWay, Shrinks, TypeOK
<1>6. ASSUME NEW n \in Node, Request(n) PROVE locks' = locks \/ OneWay(n)
  <2> PICK v \in Vol, o \in Op :
          LockVolume(n, v, o) \/ UnlockVolume(n, v, o) \/ Open(n, v, o) \/ Close(n, v, o)
      BY <1>6 DEF Request
  <2> QED
      BY <1>1, <1>2 DEF Open, Close
<1>7. ASSUME NEW n \in Node, Proceed(n) PROVE locks' = locks \/ OneWay(n)
  <2>1. FetchTags(n) => locks' = locks
      BY DEF FetchTags, SetOwnerFailed
  <2> QED
      BY <1>3, <1>4, <1>7, <2>1 DEF Proceed, Activate, Undo, Deactivate, SyncNext
<1>8. ASSUME NEW c \in late, LateCommand(c) PROVE locks' = locks
    BY <1>8 DEF LateCommand
<1> QED
    BY <1>5, <1>6, <1>7, <1>8 DEF Next, Start, DriverCrash, HostCrash

(* A step of the lockers is a step of the exclusive lock, or a stutter. *)
LEMMA StepRefines ==
    ASSUME IInv, MutualExclusion, MutualExclusion', [Next]_vars
    PROVE  [Abstract!Next]_[v \in Vol |-> {n \in Node : locks[n][v] # {}}]
<1> DEFINE H == [v \in Vol |-> {n \in Node : locks[n][v] # {}}]
<1>1. CASE locks' = locks
    BY <1>1
<1>2. ASSUME NEW n \in Node, OneWay(n), Grows(n) PROVE Abstract!Acquire(n)
  <2> DEFINE S == {v \in Vol : locks[n][v] = {} /\ locks'[n][v] # {}}
  <2>1. \A v \in S : H[v] = {}
      BY <1>2 DEF MutualExclusion, OneWay
  <2>2. ASSUME NEW v \in Vol
        PROVE  H'[v] = IF v \in S THEN {n} ELSE H[v]
      BY <1>2 DEF MutualExclusion, OneWay, Grows
  <2>3. H' = [v \in Vol |-> IF v \in S THEN {n} ELSE H[v]]
      BY <2>2
  <2>4. S \in SUBSET Vol
      OBVIOUS
  <2> HIDE DEF S
  <2> QED
      BY <2>1, <2>3, <2>4 DEF Abstract!Acquire
<1>3. ASSUME NEW n \in Node, OneWay(n), Shrinks(n) PROVE Abstract!Release(n)
  <2> DEFINE S == {v \in Vol : locks[n][v] # {} /\ locks'[n][v] = {}}
  <2>1. \A v \in S : H[v] = {n}
      BY <1>3 DEF MutualExclusion, OneWay
  <2>2. ASSUME NEW v \in Vol
        PROVE  H'[v] = IF v \in S THEN {} ELSE H[v]
      BY <1>3 DEF MutualExclusion, OneWay, Shrinks
  <2>3. H' = [v \in Vol |-> IF v \in S THEN {} ELSE H[v]]
      BY <2>2
  <2>4. S \in SUBSET Vol
      OBVIOUS
  <2> HIDE DEF S
  <2> QED
      BY <2>1, <2>3, <2>4 DEF Abstract!Release
<1>4. CASE Next
    BY <1>1, <1>2, <1>3, <1>4, StepsAreOneWay DEF Abstract!Next, OneWay
<1>5. CASE UNCHANGED vars
    BY <1>1, <1>5 DEF vars
<1> QED
    BY <1>4, <1>5

(* The volume lockers of all nodes together implement the exclusive lock   *)
(* that the mailbox relies on (volumelock.go:30-42, 74-148, 217-254).      *)
THEOREM Refinement == ASSUME MaxLate = 0 PROVE Spec => ImplementsExclusiveLock
<1>1. Init => Abstract!Init
    BY DEF Init, Abstract!Init
<1>2. IInv /\ MutualExclusion /\ MutualExclusion' /\ [Next]_vars
          => [Abstract!Next]_[v \in Vol |-> {n \in Node : locks[n][v] # {}}]
    BY StepRefines
<1> QED
    BY <1>1, <1>2, InductiveInvariant, Exclusion, PTL
       DEF Spec, ImplementsExclusiveLock, Abstract!Spec
=============================================================================
