---------------------------- MODULE NodeServerProofs ----------------------------
(***************************************************************************)
(* Proofs that the invariants of NodeServer hold for any number of nodes,  *)
(* volumes, sizes and crashes, whatever calls fail.                        *)
(***************************************************************************)
EXTENDS NodeServer, TLAPS

(* A call in progress: its driver runs, its phase fits, and what its       *)
(* earlier steps have done is still so.                                    *)
CallOK(n, v) ==
    /\ pc[n][v] # "idle" => n \in up
    /\ pc[n][v] \in {"lock", "mount"} => co[n][v] = "staging"
    /\ pc[n][v] = "publish" => co[n][v] = "publishing"
    /\ pc[n][v] = "unpublish" => co[n][v] = "unpublishing"
    /\ pc[n][v] \in {"unmount", "unlock"} => co[n][v] = "unstaging"
    /\ pc[n][v] = "mount" => v \in locked[n]

(* Locks, entries, leases and mounts of a node agree. *)
LockOK(n, v) ==
    /\ DeviceOpen(n, v) => lease[v] = n
    /\ v \in locked[n] => v \in entry[n] /\ lease[v] = n
    /\ n \in up /\ v \in staged[n] => v \in entry[n]
    /\ n \in up /\ lease[v] = n => v \in entry[n] \cup skipped[n]

(* What is mounted and open fits what the orchestrator was told. *)
MountOK(n, v) ==
    /\ target[n][v] # "directory"
    /\ co[n][v] \in {"unstaged", "staging", "staged", "unstaging"} => target[n][v] = "nothing"
    /\ co[n][v] = "published" => target[n][v] = "volume"
    /\ v \in inUse[n] => co[n][v] \in {"publishing", "published", "unpublishing"}
    /\ v \in Fs /\ co[n][v] \in InCharge =>
          v \in staged[n] /\ lease[v] = n /\ (n \in up => v \in locked[n])
    /\ co[n][v] = "unstaged" =>
          /\ v \notin staged[n] /\ v \notin locked[n]
          /\ lease[v] = n => v \in skipped[n]

(* The sizes, and the expansion in progress. *)
SizeOK(n, v) ==
    /\ pc[n][v] = "grow" => expand[n][v] <= size[v]
    /\ v \in Fs => expanded[v] <= fsSize[v] /\ fsSize[v] <= size[v]

LocalOK(n, v) == CallOK(n, v) /\ LockOK(n, v) /\ MountOK(n, v) /\ SizeOK(n, v)

IInv == TypeOK /\ \A n \in Node, v \in Vol : LocalOK(n, v)

-----------------------------------------------------------------------------
LEMMA InitIInv == Init => IInv
<1> SUFFICES ASSUME Init PROVE IInv
  OBVIOUS
<1>1. TypeOK
  BY NodeServerAssumption DEF Init, TypeOK, Phase, CallStep, Fs
<1>2. ASSUME NEW n \in Node, NEW v \in Vol PROVE LocalOK(n, v)
  BY NodeServerAssumption DEF Init, Fs, LocalOK, CallOK, LockOK, MountOK, SizeOK, DeviceOpen, InCharge
<1> QED
  BY <1>1, <1>2 DEF IInv

(* What Goto and Tell do to the step and the phase of each call. *)
LEMMA GotoType ==
    ASSUME TypeOK, NEW n \in Node, NEW v \in Vol, NEW s \in CallStep, Goto(n, v, s)
    PROVE  /\ pc' \in [Node -> [Vol -> CallStep]]
           /\ \A m \in Node, w \in Vol : pc'[m][w] = IF m = n /\ w = v THEN s ELSE pc[m][w]
BY DEF TypeOK, Goto

LEMMA TellType ==
    ASSUME TypeOK, NEW n \in Node, NEW v \in Vol, NEW p \in Phase, Tell(n, v, p)
    PROVE  /\ co' \in [Node -> [Vol -> Phase]]
           /\ \A m \in Node, w \in Vol : co'[m][w] = IF m = n /\ w = v THEN p ELSE co[m][w]
BY DEF TypeOK, Tell

(* A step of NodeStageVolume. *)
LEMMA StepNodeStageVolume ==
    ASSUME IInv, NEW n \in Node, NEW v \in Vol, NodeStageVolume(n, v) PROVE IInv'
<1> USE DEF NodeStageVolume, Calls, Goto, lock, mounts, sizes
<1>1. TypeOK'
  BY NodeServerAssumption DEF IInv, TypeOK, Phase, CallStep, Fs
<1>2. ASSUME NEW m \in Node, NEW w \in Vol PROVE LocalOK(m, w)'
  <2> TypeOK /\ LocalOK(m, w) /\ LocalOK(n, v)
    BY DEF IInv
  <2>1. CallOK(m, w)'
    BY DEF TypeOK, LocalOK, CallOK
  <2>2. LockOK(m, w)'
    BY NodeServerAssumption DEF TypeOK, Fs, LocalOK, CallOK, LockOK, MountOK, DeviceOpen
  <2>3. MountOK(m, w)'
    BY NodeServerAssumption DEF TypeOK, Fs, LocalOK, CallOK, LockOK, MountOK, DeviceOpen, InCharge
  <2>4. SizeOK(m, w)'
    BY DEF TypeOK, Fs, LocalOK, CallOK, SizeOK
  <2> QED
    BY <2>1, <2>2, <2>3, <2>4 DEF LocalOK
<1> QED
  BY <1>1, <1>2 DEF IInv

(* A step of StageLock. *)
LEMMA StepStageLock ==
    ASSUME IInv, NEW n \in Node, NEW v \in Vol, StageLock(n, v) PROVE IInv'
<1> DEFINE Granted ==
      /\ v \in locked[n] \/ Activatable(n, v)
      /\ locked' = [locked EXCEPT ![n] = @ \cup {v}]
      /\ lease' = IF v \in locked[n] THEN lease ELSE [lease EXCEPT ![v] = n]
      /\ Goto(n, v, "mount")
<1> DEFINE Refused ==
      /\ v \notin locked[n]
      /\ \/ UNCHANGED lease
         \/ /\ Activatable(n, v)
            /\ \/ lease' = [lease EXCEPT ![v] = n]
               \/ ~DeviceOpen(n, v) /\ lease' = [lease EXCEPT ![v] = None]
      /\ Goto(n, v, "idle")
      /\ UNCHANGED locked
<1> USE DEF lock, mounts, sizes
<1> TypeOK
  BY DEF IInv
<1>1. Granted \/ Refused
  <2>1. ASSUME NEW holder \in {lease[v], n} \cup {h \in {None} : ~DeviceOpen(n, v)},
               lease' = [lease EXCEPT ![v] = holder]
        PROVE  \/ UNCHANGED lease
               \/ lease' = [lease EXCEPT ![v] = n]
               \/ ~DeviceOpen(n, v) /\ lease' = [lease EXCEPT ![v] = None]
    BY <2>1 DEF TypeOK
  <2> QED
    BY <2>1 DEF StageLock, Error
<1>2. /\ entry' = [entry EXCEPT ![n] = @ \cup {v}]
      /\ skipped' = [skipped EXCEPT ![n] = @ \ {v}]
      /\ pc[n][v] = "lock"
      /\ UNCHANGED <<co, up, mounts, sizes, crashes>>
  BY DEF StageLock, Error
<1>3. lease' \in [Vol -> Node \cup {None}]
  BY <1>1 DEF TypeOK
<1>4. entry' \in [Node -> SUBSET Vol] /\ skipped' \in [Node -> SUBSET Vol]
  BY <1>2 DEF TypeOK
<1>5. locked' \in [Node -> SUBSET Vol] /\ \A m \in Node : locked[m] \subseteq locked'[m]
  <2>1. locked' = locked \/ locked' = [locked EXCEPT ![n] = locked[n] \cup {v}]
    BY <1>1
  <2>2. CASE locked' = locked
    BY <2>2 DEF TypeOK
  <2>3. CASE locked' = [locked EXCEPT ![n] = locked[n] \cup {v}]
    BY <2>3 DEF TypeOK
  <2> QED
    BY <2>1, <2>2, <2>3
<1>6. PICK s \in {"idle", "mount"} :
        /\ pc' \in [Node -> [Vol -> CallStep]]
        /\ \A m \in Node, w \in Vol : pc'[m][w] = IF m = n /\ w = v THEN s ELSE pc[m][w]
        /\ s = "mount" => v \in locked'[n]
  <2>1. CASE Granted
    BY <2>1, GotoType DEF CallStep, TypeOK
  <2>2. CASE Refused
    BY <2>2, GotoType DEF CallStep
  <2> QED
    BY <1>1, <2>1, <2>2
<1>7. TypeOK'
  BY <1>2, <1>3, <1>4, <1>5, <1>6 DEF TypeOK, Fs
<1>8. ASSUME NEW m \in Node, NEW w \in Vol PROVE LocalOK(m, w)'
  <2> LocalOK(m, w) /\ LocalOK(n, v)
    BY DEF IInv
  <2>1. CallOK(m, w)'
    BY <1>2, <1>5, <1>6 DEF LocalOK, CallOK
  <2>2. LockOK(m, w)'
    BY <1>1, <1>2, NodeServerAssumption DEF TypeOK, Fs, LocalOK, CallOK, LockOK, MountOK, DeviceOpen, Activatable
  <2>3. MountOK(m, w)'
    BY <1>1, <1>2, NodeServerAssumption DEF TypeOK, Fs, LocalOK, CallOK, LockOK, MountOK, DeviceOpen, InCharge, Activatable
  <2>4. SizeOK(m, w)'
    BY <1>2, <1>6 DEF Fs, LocalOK, SizeOK
  <2> QED
    BY <2>1, <2>2, <2>3, <2>4 DEF LocalOK
<1> QED
  BY <1>7, <1>8 DEF IInv

(* A step of StageMount. *)
LEMMA StepStageMount ==
    ASSUME IInv, NEW n \in Node, NEW v \in Vol, StageMount(n, v) PROVE IInv'
<1> USE DEF lock, mounts, sizes
<1> TypeOK
  BY DEF IInv
<1>1. \/ Mountable(n, v) /\ staged' = Mounted(n, v) /\ Tell(n, v, "staged")
      \/ (UNCHANGED staged \/ (Mountable(n, v) /\ staged' = Mounted(n, v))) /\ Error(n, v)
  BY DEF StageMount
<1>2. pc[n][v] = "mount" /\ UNCHANGED <<up, lock, target, inUse, sizes, crashes>>
  BY DEF StageMount
<1>3. /\ staged' \in [Node -> SUBSET Fs]
      /\ \A m \in Node, w \in Vol :
            \/ w \in staged'[m] <=> w \in staged[m]
            \/ m = n /\ w = v /\ v \in Fs /\ v \in staged'[n] /\ Mountable(n, v)
  <2>1. CASE UNCHANGED staged
    BY <2>1 DEF TypeOK
  <2>2. CASE Mountable(n, v) /\ v \notin raw /\ staged' = [staged EXCEPT ![n] = staged[n] \cup {v}]
    BY <2>2 DEF TypeOK, Fs
  <2> QED
    BY <1>1, <2>1, <2>2 DEF Mounted
<1>4. /\ pc' \in [Node -> [Vol -> CallStep]]
      /\ \A m \in Node, w \in Vol : pc'[m][w] = IF m = n /\ w = v THEN "idle" ELSE pc[m][w]
  BY <1>1, GotoType DEF Tell, Error, CallStep
<1>5. /\ co' \in [Node -> [Vol -> Phase]]
      /\ \A m \in Node, w \in Vol :
            \/ co'[m][w] = co[m][w]
            \/ /\ m = n /\ w = v /\ co'[m][w] = "staged"
               /\ v \in Fs => v \in staged'[n]
  <2>1. CASE Mountable(n, v) /\ staged' = Mounted(n, v) /\ Tell(n, v, "staged")
    <3>1. v \in Fs => v \in staged'[n]
      BY <2>1 DEF Mounted, TypeOK, Fs
    <3> QED
      BY <2>1, <3>1, TellType DEF Phase
  <2>2. CASE Error(n, v)
    BY <2>2 DEF Error, TypeOK
  <2> QED
    BY <1>1, <2>1, <2>2
<1>6. TypeOK'
  BY <1>2, <1>3, <1>4, <1>5 DEF TypeOK, Fs
<1>7. ASSUME NEW m \in Node, NEW w \in Vol PROVE LocalOK(m, w)'
  <2> LocalOK(m, w) /\ LocalOK(n, v)
    BY DEF IInv
  <2>1. CallOK(m, w)'
    BY <1>2, <1>4, <1>5 DEF LocalOK, CallOK
  <2>2. LockOK(m, w)'
    BY <1>2, <1>3, NodeServerAssumption
    DEF TypeOK, Fs, LocalOK, CallOK, LockOK, DeviceOpen, Mountable
  <2>3. MountOK(m, w)'
    BY <1>2, <1>3, <1>5, NodeServerAssumption
    DEF TypeOK, Fs, LocalOK, CallOK, LockOK, MountOK, DeviceOpen, InCharge
  <2>4. SizeOK(m, w)'
    BY <1>2, <1>4 DEF Fs, LocalOK, SizeOK
  <2> QED
    BY <2>1, <2>2, <2>3, <2>4 DEF LocalOK
<1> QED
  BY <1>6, <1>7 DEF IInv

(* A step of NodePublishVolume. *)
LEMMA StepNodePublishVolume ==
    ASSUME IInv, NEW n \in Node, NEW v \in Vol, NodePublishVolume(n, v) PROVE IInv'
<1> USE DEF NodePublishVolume, Calls, Goto, lock, mounts, sizes
<1>1. TypeOK'
  BY NodeServerAssumption DEF IInv, TypeOK, Phase, CallStep, Fs
<1>2. ASSUME NEW m \in Node, NEW w \in Vol PROVE LocalOK(m, w)'
  <2> TypeOK /\ LocalOK(m, w) /\ LocalOK(n, v)
    BY DEF IInv
  <2>1. CallOK(m, w)'
    BY DEF TypeOK, LocalOK, CallOK
  <2>2. LockOK(m, w)'
    BY NodeServerAssumption DEF TypeOK, Fs, LocalOK, CallOK, LockOK, MountOK, DeviceOpen
  <2>3. MountOK(m, w)'
    BY NodeServerAssumption DEF TypeOK, Fs, LocalOK, CallOK, LockOK, MountOK, DeviceOpen, InCharge
  <2>4. SizeOK(m, w)'
    BY DEF TypeOK, Fs, LocalOK, CallOK, SizeOK
  <2> QED
    BY <2>1, <2>2, <2>3, <2>4 DEF LocalOK
<1> QED
  BY <1>1, <1>2 DEF IInv

(* A step of PublishMount: the staging path of a volume that was staged    *)
(* is mounted, so that what is bound is the volume.                        *)
LEMMA StepPublishMount ==
    ASSUME IInv, NEW n \in Node, NEW v \in Vol, PublishMount(n, v) PROVE IInv'
<1> USE DEF lock, mounts, sizes
<1> TypeOK /\ LocalOK(n, v)
  BY DEF IInv
<1>1. pc[n][v] = "publish" /\ UNCHANGED <<up, lock, staged, inUse, sizes, crashes>>
  BY DEF PublishMount
<1>2. co[n][v] = "publishing" /\ Bound(n, v) = "volume"
  BY <1>1 DEF LocalOK, CallOK, MountOK, InCharge, Bound, Fs
<1>3. \/ /\ \/ target[n][v] # "nothing" /\ UNCHANGED target
            \/ target' = [target EXCEPT ![n][v] = "volume"]
         /\ Tell(n, v, "published")
      \/ UNCHANGED target /\ Error(n, v)
  BY <1>2 DEF PublishMount
<1>4. /\ target' \in [Node -> [Vol -> {"nothing", "volume", "directory"}]]
      /\ \A m \in Node, w \in Vol :
            \/ target'[m][w] = target[m][w]
            \/ m = n /\ w = v /\ target'[m][w] = "volume"
  <2>1. CASE UNCHANGED target
    BY <2>1 DEF TypeOK
  <2>2. CASE target' = [target EXCEPT ![n][v] = "volume"]
    BY <2>2 DEF TypeOK
  <2> QED
    BY <1>3, <2>1, <2>2
<1>5. /\ pc' \in [Node -> [Vol -> CallStep]]
      /\ \A m \in Node, w \in Vol : pc'[m][w] = IF m = n /\ w = v THEN "idle" ELSE pc[m][w]
  BY <1>3, GotoType DEF Tell, Error, CallStep
<1>6. /\ co' \in [Node -> [Vol -> Phase]]
      /\ \A m \in Node, w \in Vol :
            \/ co'[m][w] = co[m][w]
            \/ m = n /\ w = v /\ co'[m][w] = "published" /\ target'[n][v] = "volume"
  <2>1. CASE Tell(n, v, "published") /\ target'[n][v] = "volume"
    BY <2>1, TellType DEF Phase
  <2>2. CASE Error(n, v)
    BY <2>2 DEF Error, TypeOK
  <2>3. CASE /\ \/ target[n][v] # "nothing" /\ UNCHANGED target
                \/ target' = [target EXCEPT ![n][v] = "volume"]
             /\ Tell(n, v, "published")
    <3>1. target'[n][v] = "volume"
      BY <2>3, target[n][v] # "directory" DEF TypeOK, LocalOK, MountOK
    <3> QED
      BY <2>1, <2>3, <3>1
  <2> QED
    BY <1>3, <2>2, <2>3
<1>7. TypeOK'
  BY <1>1, <1>4, <1>5, <1>6 DEF TypeOK, Fs
<1>8. ASSUME NEW m \in Node, NEW w \in Vol PROVE LocalOK(m, w)'
  <2> LocalOK(m, w)
    BY DEF IInv
  <2>1. CallOK(m, w)'
    BY <1>1, <1>5, <1>6 DEF LocalOK, CallOK
  <2>2. LockOK(m, w)'
    BY <1>1, <1>2, <1>4, NodeServerAssumption
    DEF TypeOK, Fs, LocalOK, CallOK, LockOK, MountOK, InCharge, DeviceOpen
  <2>3. MountOK(m, w)'
    BY <1>1, <1>2, <1>4, <1>6, NodeServerAssumption
    DEF TypeOK, Fs, LocalOK, MountOK, InCharge
  <2>4. SizeOK(m, w)'
    BY <1>1, <1>5 DEF Fs, LocalOK, SizeOK
  <2> QED
    BY <2>1, <2>2, <2>3, <2>4 DEF LocalOK
<1> QED
  BY <1>7, <1>8 DEF IInv

(* A step of NodeUnpublishVolume. *)
LEMMA StepNodeUnpublishVolume ==
    ASSUME IInv, NEW n \in Node, NEW v \in Vol, NodeUnpublishVolume(n, v) PROVE IInv'
<1> USE DEF NodeUnpublishVolume, Calls, Goto, lock, mounts, sizes
<1>1. TypeOK'
  BY NodeServerAssumption DEF IInv, TypeOK, Phase, CallStep, Fs
<1>2. ASSUME NEW m \in Node, NEW w \in Vol PROVE LocalOK(m, w)'
  <2> TypeOK /\ LocalOK(m, w) /\ LocalOK(n, v)
    BY DEF IInv
  <2>1. CallOK(m, w)'
    BY DEF TypeOK, LocalOK, CallOK
  <2>2. LockOK(m, w)'
    BY NodeServerAssumption DEF TypeOK, Fs, LocalOK, CallOK, LockOK, MountOK, DeviceOpen
  <2>3. MountOK(m, w)'
    BY NodeServerAssumption DEF TypeOK, Fs, LocalOK, CallOK, LockOK, MountOK, DeviceOpen, InCharge
  <2>4. SizeOK(m, w)'
    BY DEF TypeOK, Fs, LocalOK, CallOK, SizeOK
  <2> QED
    BY <2>1, <2>2, <2>3, <2>4 DEF LocalOK
<1> QED
  BY <1>1, <1>2 DEF IInv

(* A step of UnpublishUnmount. *)
LEMMA StepUnpublishUnmount ==
    ASSUME IInv, NEW n \in Node, NEW v \in Vol, UnpublishUnmount(n, v) PROVE IInv'
<1> USE DEF lock, mounts, sizes
<1> TypeOK /\ LocalOK(n, v)
  BY DEF IInv
<1>1. pc[n][v] = "unpublish" /\ UNCHANGED <<up, lock, staged, inUse, sizes, crashes>>
  BY DEF UnpublishUnmount
<1>2. co[n][v] = "unpublishing"
  BY <1>1 DEF LocalOK, CallOK
<1>3. \/ /\ v \notin inUse[n] /\ target' = [target EXCEPT ![n][v] = "nothing"]
         /\ Tell(n, v, "staged") \/ Error(n, v)
      \/ UNCHANGED target /\ Error(n, v)
  BY DEF UnpublishUnmount, Unmounted
<1>4. /\ target' \in [Node -> [Vol -> {"nothing", "volume", "directory"}]]
      /\ \A m \in Node, w \in Vol :
            \/ target'[m][w] = target[m][w]
            \/ m = n /\ w = v /\ target'[m][w] = "nothing"
  <2>1. CASE UNCHANGED target
    BY <2>1 DEF TypeOK
  <2>2. CASE target' = [target EXCEPT ![n][v] = "nothing"]
    BY <2>2 DEF TypeOK
  <2> QED
    BY <1>3, <2>1, <2>2
<1>5. /\ pc' \in [Node -> [Vol -> CallStep]]
      /\ \A m \in Node, w \in Vol : pc'[m][w] = IF m = n /\ w = v THEN "idle" ELSE pc[m][w]
  BY <1>3, GotoType DEF Tell, Error, CallStep
<1>6. /\ co' \in [Node -> [Vol -> Phase]]
      /\ \A m \in Node, w \in Vol :
            \/ co'[m][w] = co[m][w]
            \/ /\ m = n /\ w = v /\ co'[m][w] = "staged"
               /\ target'[n][v] = "nothing" /\ v \notin inUse[n]
  <2>1. CASE /\ v \notin inUse[n] /\ target' = [target EXCEPT ![n][v] = "nothing"]
             /\ Tell(n, v, "staged")
    BY <2>1, TellType DEF Phase, TypeOK
  <2>2. CASE Error(n, v)
    BY <2>2 DEF Error, TypeOK
  <2> QED
    BY <1>3, <2>1, <2>2
<1>7. TypeOK'
  BY <1>1, <1>4, <1>5, <1>6 DEF TypeOK, Fs
<1>8. ASSUME NEW m \in Node, NEW w \in Vol PROVE LocalOK(m, w)'
  <2> LocalOK(m, w)
    BY DEF IInv
  <2>1. CallOK(m, w)'
    BY <1>1, <1>5, <1>6 DEF LocalOK, CallOK
  <2>2. LockOK(m, w)'
    BY <1>1, <1>4, NodeServerAssumption DEF TypeOK, Fs, LocalOK, LockOK, DeviceOpen
  <2>3. MountOK(m, w)'
    BY <1>1, <1>2, <1>4, <1>6, NodeServerAssumption
    DEF TypeOK, Fs, LocalOK, MountOK, InCharge
  <2>4. SizeOK(m, w)'
    BY <1>1, <1>5 DEF Fs, LocalOK, SizeOK
  <2> QED
    BY <2>1, <2>2, <2>3, <2>4 DEF LocalOK
<1> QED
  BY <1>7, <1>8 DEF IInv

(* A step of NodeUnstageVolume. *)
LEMMA StepNodeUnstageVolume ==
    ASSUME IInv, NEW n \in Node, NEW v \in Vol, NodeUnstageVolume(n, v) PROVE IInv'
<1> USE DEF NodeUnstageVolume, Calls, Goto, lock, mounts, sizes
<1>1. TypeOK'
  BY NodeServerAssumption DEF IInv, TypeOK, Phase, CallStep, Fs
<1>2. ASSUME NEW m \in Node, NEW w \in Vol PROVE LocalOK(m, w)'
  <2> TypeOK /\ LocalOK(m, w) /\ LocalOK(n, v)
    BY DEF IInv
  <2>1. CallOK(m, w)'
    BY DEF TypeOK, LocalOK, CallOK
  <2>2. LockOK(m, w)'
    BY NodeServerAssumption DEF TypeOK, Fs, LocalOK, CallOK, LockOK, MountOK, DeviceOpen
  <2>3. MountOK(m, w)'
    BY NodeServerAssumption DEF TypeOK, Fs, LocalOK, CallOK, LockOK, MountOK, DeviceOpen, InCharge
  <2>4. SizeOK(m, w)'
    BY DEF TypeOK, Fs, LocalOK, CallOK, SizeOK
  <2> QED
    BY <2>1, <2>2, <2>3, <2>4 DEF LocalOK
<1> QED
  BY <1>1, <1>2 DEF IInv

(* A step of UnstageUnmount. *)
LEMMA StepUnstageUnmount ==
    ASSUME IInv, NEW n \in Node, NEW v \in Vol, UnstageUnmount(n, v) PROVE IInv'
<1> USE DEF lock, mounts, sizes
<1> TypeOK /\ LocalOK(n, v)
  BY DEF IInv
<1>1. /\ pc[n][v] = "unmount"
      /\ UNCHANGED <<co, up, lock, target, inUse, sizes, crashes>>
      /\ UNCHANGED staged \/ staged' = [staged EXCEPT ![n] = @ \ {v}]
      /\ Goto(n, v, "unlock") \/ Goto(n, v, "idle")
  BY DEF UnstageUnmount, Error
<1>2. co[n][v] = "unstaging"
  BY <1>1 DEF LocalOK, CallOK
<1>3. /\ staged' \in [Node -> SUBSET Fs]
      /\ \A m \in Node, w \in Vol :
            IF m = n /\ w = v THEN w \in staged'[m] => w \in staged[m]
            ELSE w \in staged'[m] <=> w \in staged[m]
  <2>1. CASE UNCHANGED staged
    BY <2>1 DEF TypeOK
  <2>2. CASE staged' = [staged EXCEPT ![n] = @ \ {v}]
    BY <2>2 DEF TypeOK
  <2> QED
    BY <1>1, <2>1, <2>2
<1>4. PICK s \in {"unlock", "idle"} :
        /\ pc' \in [Node -> [Vol -> CallStep]]
        /\ \A m \in Node, w \in Vol : pc'[m][w] = IF m = n /\ w = v THEN s ELSE pc[m][w]
  BY <1>1, GotoType DEF CallStep
<1>5. TypeOK'
  BY <1>1, <1>3, <1>4 DEF TypeOK, Fs
<1>6. ASSUME NEW m \in Node, NEW w \in Vol PROVE LocalOK(m, w)'
  <2> LocalOK(m, w)
    BY DEF IInv
  <2>1. CallOK(m, w)'
    BY <1>1, <1>2, <1>4 DEF LocalOK, CallOK
  <2>2. LockOK(m, w)'
    BY <1>1, <1>3, NodeServerAssumption DEF TypeOK, Fs, LocalOK, LockOK, DeviceOpen
  <2>3. MountOK(m, w)'
    BY <1>1, <1>2, <1>3, NodeServerAssumption DEF TypeOK, Fs, LocalOK, MountOK, InCharge
  <2>4. SizeOK(m, w)'
    BY <1>1, <1>4 DEF Fs, LocalOK, SizeOK
  <2> QED
    BY <2>1, <2>2, <2>3, <2>4 DEF LocalOK
<1> QED
  BY <1>5, <1>6 DEF IInv

(* A step of UnstageUnlock: a device that is not open is not mounted. *)
LEMMA StepUnstageUnlock ==
    ASSUME IInv, NEW n \in Node, NEW v \in Vol, UnstageUnlock(n, v) PROVE IInv'
<1> USE DEF lock, mounts, sizes
<1> TypeOK
  BY DEF IInv
<1>1. TypeOK'
  <2>1. /\ locked' = [locked EXCEPT ![n] = @ \ {v}]
        /\ UNCHANGED <<skipped, up, mounts, sizes, crashes>>
        /\ UNCHANGED entry \/ entry' = [entry EXCEPT ![n] = @ \ {v}]
        /\ lease' \in {lease, [lease EXCEPT ![v] = None]}
        /\ Tell(n, v, "unstaged") \/ Error(n, v)
    BY DEF UnstageUnlock, EntryAfterFailure, LeaseReleased
  <2>2. locked' \in [Node -> SUBSET Vol]
    BY <2>1 DEF TypeOK
  <2>3. entry' \in [Node -> SUBSET Vol]
    <3>1. CASE UNCHANGED entry
      BY <3>1 DEF TypeOK
    <3>2. CASE entry' = [entry EXCEPT ![n] = @ \ {v}]
      BY <3>2 DEF TypeOK
    <3> QED
      BY <2>1, <3>1, <3>2
  <2>4. lease' \in [Vol -> Node \cup {None}]
    BY <2>1 DEF TypeOK
  <2>5. pc' \in [Node -> [Vol -> CallStep]]
    BY <2>1, GotoType DEF Tell, Error, CallStep
  <2>6. co' \in [Node -> [Vol -> Phase]]
    BY <2>1, TellType DEF Error, Phase, TypeOK
  <2> QED
    BY <2>1, <2>2, <2>3, <2>4, <2>5, <2>6 DEF TypeOK, Fs
<1>2. ASSUME NEW m \in Node, NEW w \in Vol PROVE LocalOK(m, w)'
  <2> LocalOK(m, w) /\ LocalOK(n, v)
    BY DEF IInv
  <2> USE DEF UnstageUnlock, LeaseReleased, EntryAfterFailure, Tell, Error, Goto
  <2>1. CallOK(m, w)'
    BY DEF TypeOK, LocalOK, CallOK
  <2>2. LockOK(m, w)'
    BY NodeServerAssumption DEF TypeOK, Fs, LocalOK, CallOK, LockOK, MountOK, DeviceOpen
  <2>3. MountOK(m, w)'
    BY NodeServerAssumption DEF TypeOK, Fs, LocalOK, CallOK, LockOK, MountOK, DeviceOpen, InCharge
  <2>4. SizeOK(m, w)'
    BY DEF TypeOK, Fs, LocalOK, CallOK, SizeOK
  <2> QED
    BY <2>1, <2>2, <2>3, <2>4 DEF LocalOK
<1> QED
  BY <1>1, <1>2 DEF IInv

(* A step of ExpandResize. *)
LEMMA StepExpandResize ==
    ASSUME IInv, NEW n \in Node, NEW v \in Vol, ExpandResize(n, v) PROVE IInv'
<1> USE DEF lock, mounts, sizes
<1> TypeOK /\ LocalOK(n, v)
  BY DEF IInv
<1>1. /\ pc[n][v] = "resize"
      /\ UNCHANGED <<co, up, lock, mounts, fsSize, expand, expanded, raw, crashes>>
  BY DEF ExpandResize, Error
<1>2. expand[n][v] \in 0..MaxSize /\ size[v] \in 1..MaxSize
  BY DEF TypeOK
<1> DEFINE Grows == size[v] < expand[n][v] /\ size' = [size EXCEPT ![v] = expand[n][v]]
<1>3. \/ Goto(n, v, "grow") /\ (Grows \/ (UNCHANGED size /\ size[v] >= expand[n][v]))
      \/ Goto(n, v, "idle") /\ (Grows \/ UNCHANGED size)
  <2>1. size[v] < expand[n][v] \/ size[v] >= expand[n][v]
    BY <1>2, NodeServerAssumption
  <2> QED
    BY <2>1 DEF ExpandResize, Resized, Error
<1>4. /\ size' \in [Vol -> 1..MaxSize]
      /\ \A w \in Vol : size[w] <= size'[w]
  <2>1. CASE UNCHANGED size
    BY <2>1, NodeServerAssumption DEF TypeOK
  <2>2. CASE Grows
    <3>1. expand[n][v] \in 1..MaxSize
      BY <1>2, <2>2, NodeServerAssumption
    <3> QED
      BY <1>2, <2>2, <3>1, NodeServerAssumption DEF TypeOK
  <2> QED
    BY <1>3, <2>1, <2>2
<1>5. PICK s \in {"grow", "idle"} :
        /\ pc' \in [Node -> [Vol -> CallStep]]
        /\ \A m \in Node, w \in Vol : pc'[m][w] = IF m = n /\ w = v THEN s ELSE pc[m][w]
        /\ s = "grow" => expand[n][v] <= size'[v]
  <2>1. CASE Goto(n, v, "idle")
    BY <2>1, GotoType DEF CallStep
  <2>2. CASE Goto(n, v, "grow") /\ (Grows \/ (UNCHANGED size /\ size[v] >= expand[n][v]))
    <3>1. expand[n][v] <= size'[v]
      BY <1>2, <1>4, <2>2, NodeServerAssumption DEF TypeOK
    <3> QED
      BY <2>2, <3>1, GotoType DEF CallStep
  <2> QED
    BY <1>3, <2>1, <2>2
<1>6. TypeOK'
  BY <1>1, <1>4, <1>5 DEF TypeOK, Fs
<1>7. ASSUME NEW m \in Node, NEW w \in Vol PROVE LocalOK(m, w)'
  <2> LocalOK(m, w)
    BY DEF IInv
  <2>1. CallOK(m, w)'
    BY <1>1, <1>5 DEF LocalOK, CallOK
  <2>2. LockOK(m, w)'
    BY <1>1 DEF LocalOK, LockOK, DeviceOpen
  <2>3. MountOK(m, w)'
    BY <1>1 DEF Fs, LocalOK, MountOK
  <2>4. SizeOK(m, w)'
    <3> /\ expand[m][w] \in Nat /\ size[w] \in Nat /\ size'[w] \in Nat
        /\ fsSize[w] \in Nat /\ expanded[w] \in Nat /\ size[w] <= size'[w]
      BY <1>4, NodeServerAssumption DEF TypeOK
    <3> QED
      BY <1>1, <1>5 DEF Fs, LocalOK, SizeOK
  <2> QED
    BY <2>1, <2>2, <2>3, <2>4 DEF LocalOK
<1> QED
  BY <1>6, <1>7 DEF IInv

(* A step of ExpandGrow: the volume has the size that was asked for. *)
LEMMA StepExpandGrow ==
    ASSUME IInv, NEW n \in Node, NEW v \in Vol, ExpandGrow(n, v) PROVE IInv'
<1> USE DEF lock, mounts, sizes
<1> TypeOK /\ LocalOK(n, v)
  BY DEF IInv
<1>1. /\ pc[n][v] = "grow"
      /\ UNCHANGED <<co, up, lock, mounts, size, expand, raw, crashes>>
      /\ Goto(n, v, "idle")
      /\ UNCHANGED fsSize \/ fsSize' = [fsSize EXCEPT ![v] = size[v]]
      /\ \/ UNCHANGED expanded
         \/ /\ expanded' = [expanded EXCEPT ![v] = IF @ < expand[n][v] THEN expand[n][v] ELSE @]
            /\ v \in raw \/ fsSize' = [fsSize EXCEPT ![v] = size[v]]
  BY DEF ExpandGrow, Error, Grown
<1>2. expand[n][v] \in 0..MaxSize /\ size[v] \in 1..MaxSize /\ expand[n][v] <= size[v]
  BY <1>1 DEF TypeOK, LocalOK, SizeOK
<1>3. /\ fsSize' \in [Vol -> 1..MaxSize]
      /\ \A w \in Vol \ {v} : fsSize'[w] = fsSize[w]
      /\ fsSize'[v] \in {fsSize[v], size[v]}
  <2>1. CASE UNCHANGED fsSize
    BY <2>1 DEF TypeOK
  <2>2. CASE fsSize' = [fsSize EXCEPT ![v] = size[v]]
    BY <1>2, <2>2 DEF TypeOK
  <2> QED
    BY <1>1, <2>1, <2>2
<1>4. /\ expanded' \in [Vol -> 0..MaxSize]
      /\ \A w \in Vol \ {v} : expanded'[w] = expanded[w]
      /\ \/ expanded'[v] = expanded[v]
         \/ expanded'[v] = expand[n][v] /\ (v \in raw \/ fsSize'[v] = size[v])
  <2>1. CASE UNCHANGED expanded
    BY <2>1 DEF TypeOK
  <2>2. CASE /\ expanded' = [expanded EXCEPT ![v] = IF @ < expand[n][v] THEN expand[n][v] ELSE @]
             /\ v \in raw \/ fsSize' = [fsSize EXCEPT ![v] = size[v]]
    <3>1. v \in raw \/ fsSize'[v] = size[v]
      BY <2>2 DEF TypeOK
    <3> QED
      BY <1>2, <2>2, <3>1 DEF TypeOK
  <2> QED
    BY <1>1, <2>1, <2>2
<1>5. /\ pc' \in [Node -> [Vol -> CallStep]]
      /\ \A m \in Node, w \in Vol : pc'[m][w] = IF m = n /\ w = v THEN "idle" ELSE pc[m][w]
  BY <1>1, GotoType DEF CallStep
<1>6. TypeOK'
  BY <1>1, <1>3, <1>4, <1>5 DEF TypeOK, Fs
<1>7. ASSUME NEW m \in Node, NEW w \in Vol PROVE LocalOK(m, w)'
  <2> LocalOK(m, w)
    BY DEF IInv
  <2>1. CallOK(m, w)'
    BY <1>1, <1>5 DEF LocalOK, CallOK
  <2>2. LockOK(m, w)'
    BY <1>1 DEF LocalOK, LockOK, DeviceOpen
  <2>3. MountOK(m, w)'
    BY <1>1 DEF Fs, LocalOK, MountOK
  <2>4. SizeOK(m, w)'
    <3> /\ expand[m][w] \in Nat /\ size[w] \in Nat /\ expand[n][v] \in Nat /\ size[v] \in Nat
        /\ fsSize[w] \in Nat /\ expanded[w] \in Nat
      BY NodeServerAssumption DEF TypeOK
    <3> QED
      BY <1>1, <1>2, <1>3, <1>4, <1>5 DEF Fs, LocalOK, SizeOK
  <2> QED
    BY <2>1, <2>2, <2>3, <2>4 DEF LocalOK
<1> QED
  BY <1>6, <1>7 DEF IInv

(* A step of Use. *)
LEMMA StepUse ==
    ASSUME IInv, NEW n \in Node, NEW v \in Vol, Use(n, v) PROVE IInv'
<1> USE DEF Use, Goto, lock, mounts, sizes
<1>1. TypeOK'
  BY NodeServerAssumption DEF IInv, TypeOK, Phase, CallStep, Fs
<1>2. ASSUME NEW m \in Node, NEW w \in Vol PROVE LocalOK(m, w)'
  <2> TypeOK /\ LocalOK(m, w) /\ LocalOK(n, v)
    BY DEF IInv
  <2>1. CallOK(m, w)'
    BY DEF TypeOK, LocalOK, CallOK
  <2>2. LockOK(m, w)'
    BY NodeServerAssumption DEF TypeOK, Fs, LocalOK, CallOK, LockOK, MountOK, DeviceOpen
  <2>3. MountOK(m, w)'
    BY NodeServerAssumption DEF TypeOK, Fs, LocalOK, CallOK, LockOK, MountOK, DeviceOpen, InCharge
  <2>4. SizeOK(m, w)'
    BY DEF TypeOK, Fs, LocalOK, CallOK, SizeOK
  <2> QED
    BY <2>1, <2>2, <2>3, <2>4 DEF LocalOK
<1> QED
  BY <1>1, <1>2 DEF IInv

(* A step of Unuse. *)
LEMMA StepUnuse ==
    ASSUME IInv, NEW n \in Node, NEW v \in Vol, Unuse(n, v) PROVE IInv'
<1> USE DEF Unuse, Goto, lock, mounts, sizes
<1>1. TypeOK'
  BY NodeServerAssumption DEF IInv, TypeOK, Phase, CallStep, Fs
<1>2. ASSUME NEW m \in Node, NEW w \in Vol PROVE LocalOK(m, w)'
  <2> TypeOK /\ LocalOK(m, w) /\ LocalOK(n, v)
    BY DEF IInv
  <2>1. CallOK(m, w)'
    BY DEF TypeOK, LocalOK, CallOK
  <2>2. LockOK(m, w)'
    BY NodeServerAssumption DEF TypeOK, Fs, LocalOK, CallOK, LockOK, MountOK, DeviceOpen
  <2>3. MountOK(m, w)'
    BY NodeServerAssumption DEF TypeOK, Fs, LocalOK, CallOK, LockOK, MountOK, DeviceOpen, InCharge
  <2>4. SizeOK(m, w)'
    BY DEF TypeOK, Fs, LocalOK, CallOK, SizeOK
  <2> QED
    BY <2>1, <2>2, <2>3, <2>4 DEF LocalOK
<1> QED
  BY <1>1, <1>2 DEF IInv

(* A request of NodeExpandVolume. *)
LEMMA StepNodeExpandVolume ==
    ASSUME IInv, NEW n \in Node, NEW v \in Vol, NEW required \in 1..MaxSize,
           NodeExpandVolume(n, v, required)
    PROVE  IInv'
<1> USE DEF lock, mounts, sizes
<1> TypeOK /\ LocalOK(n, v)
  BY DEF IInv
<1>1. /\ n \in up /\ pc[n][v] = "idle" /\ Goto(n, v, "resize")
      /\ co' = [co EXCEPT ![n][v] = co[n][v]]
      /\ co[n][v] \in {"staged", "published"}
      /\ expand' = [expand EXCEPT ![n][v] = required]
      /\ UNCHANGED <<up, lock, mounts, size, fsSize, expanded, raw, crashes>>
  BY DEF NodeExpandVolume, Calls
<1>2. UNCHANGED co
  BY <1>1 DEF TypeOK
<1>3. /\ pc' \in [Node -> [Vol -> CallStep]]
      /\ \A m \in Node, w \in Vol : pc'[m][w] = IF m = n /\ w = v THEN "resize" ELSE pc[m][w]
  BY <1>1, GotoType DEF CallStep
<1>4. /\ expand' \in [Node -> [Vol -> 0..MaxSize]]
      /\ \A m \in Node, w \in Vol :
            expand'[m][w] = IF m = n /\ w = v THEN required ELSE expand[m][w]
  BY <1>1, NodeServerAssumption DEF TypeOK
<1>5. TypeOK'
  BY <1>1, <1>2, <1>3, <1>4 DEF TypeOK, Fs
<1>6. ASSUME NEW m \in Node, NEW w \in Vol PROVE LocalOK(m, w)'
  <2> LocalOK(m, w)
    BY DEF IInv
  <2>1. CallOK(m, w)'
    BY <1>1, <1>2, <1>3 DEF LocalOK, CallOK
  <2>2. LockOK(m, w)'
    BY <1>1 DEF LocalOK, LockOK, DeviceOpen
  <2>3. MountOK(m, w)'
    BY <1>1, <1>2 DEF Fs, LocalOK, MountOK
  <2>4. SizeOK(m, w)'
    BY <1>1, <1>3, <1>4 DEF Fs, LocalOK, SizeOK
  <2> QED
    BY <2>1, <2>2, <2>3, <2>4 DEF LocalOK
<1> QED
  BY <1>5, <1>6 DEF IInv

(* A driver dies. *)
LEMMA StepDriverCrash ==
    ASSUME IInv, NEW n \in Node, DriverCrash(n) PROVE IInv'
<1> USE DEF lock, mounts, sizes, DriverCrash
<1> TypeOK
  BY DEF IInv
<1>1. TypeOK'
  BY NodeServerAssumption DEF TypeOK, CallStep, Fs
<1>2. ASSUME NEW m \in Node, NEW w \in Vol PROVE LocalOK(m, w)'
  <2> LocalOK(m, w)
    BY DEF IInv
  <2>1. CallOK(m, w)'
    BY DEF TypeOK, LocalOK, CallOK
  <2>2. LockOK(m, w)'
    BY DEF TypeOK, LocalOK, LockOK, DeviceOpen
  <2>3. MountOK(m, w)'
    BY DEF TypeOK, Fs, LocalOK, MountOK
  <2>4. SizeOK(m, w)'
    BY DEF TypeOK, Fs, LocalOK, SizeOK
  <2> QED
    BY <2>1, <2>2, <2>3, <2>4 DEF LocalOK
<1> QED
  BY <1>1, <1>2 DEF IInv

(* A driver restarts: what sync keeps is what is open, and nothing that    *)
(* the orchestrator was told is unstaged is open.                          *)
LEMMA StepRestart ==
    ASSUME IInv, NEW n \in Node, Restart(n) PROVE IInv'
<1> USE DEF lock, mounts, sizes
<1> TypeOK
  BY DEF IInv
<1>1. PICK failed \in SUBSET Idle(n) :
        /\ skipped' = [skipped EXCEPT ![n] = failed]
        /\ lease' = [v \in Vol |-> IF v \in Idle(n) \ failed THEN None ELSE lease[v]]
  BY DEF Restart
<1>2. /\ n \notin up /\ up' = up \cup {n}
      /\ locked' = [locked EXCEPT ![n] = Kept(n)]
      /\ entry' = [entry EXCEPT ![n] = Kept(n)]
      /\ UNCHANGED <<co, pc, mounts, sizes, crashes>>
  BY DEF Restart
<1>3. TypeOK'
  <2>1. lease' \in [Vol -> Node \cup {None}]
    BY <1>1 DEF TypeOK
  <2>2. locked' \in [Node -> SUBSET Vol] /\ entry' \in [Node -> SUBSET Vol]
    BY <1>2 DEF TypeOK, Kept
  <2>3. skipped' \in [Node -> SUBSET Vol]
    BY <1>1 DEF TypeOK, Idle
  <2> QED
    BY <1>2, <2>1, <2>2, <2>3 DEF TypeOK, Fs
<1>4. ASSUME NEW m \in Node, NEW w \in Vol PROVE LocalOK(m, w)'
  <2> LocalOK(m, w)
    BY DEF IInv
  <2>0. DeviceOpen(m, w)' <=> DeviceOpen(m, w)
    BY <1>2 DEF DeviceOpen
  <2>1. CallOK(m, w)'
    BY <1>2 DEF TypeOK, LocalOK, CallOK
  <2>2. LockOK(m, w)'
    BY <1>1, <1>2, <2>0, NodeServerAssumption
    DEF TypeOK, Fs, LocalOK, LockOK, DeviceOpen, Kept, Idle
  <2>3. MountOK(m, w)'
    BY <1>1, <1>2, NodeServerAssumption
    DEF TypeOK, Fs, LocalOK, LockOK, MountOK, DeviceOpen, InCharge, Kept, Idle
  <2>4. SizeOK(m, w)'
    BY <1>2 DEF Fs, LocalOK, SizeOK
  <2> QED
    BY <2>1, <2>2, <2>3, <2>4 DEF LocalOK
<1> QED
  BY <1>3, <1>4 DEF IInv

(* A host dies. *)
LEMMA StepHostCrash ==
    ASSUME IInv, NEW n \in Node, HostCrash(n) PROVE IInv'
<1> USE DEF lock, mounts, sizes, HostCrash
<1> TypeOK
  BY DEF IInv
<1>1. TypeOK'
  BY NodeServerAssumption DEF TypeOK, CallStep, Phase, Fs
<1>2. ASSUME NEW m \in Node, NEW w \in Vol PROVE LocalOK(m, w)'
  <2> LocalOK(m, w)
    BY DEF IInv
  <2>1. CallOK(m, w)'
    BY DEF TypeOK, LocalOK, CallOK
  <2>2. LockOK(m, w)'
    BY NodeServerAssumption DEF TypeOK, LocalOK, LockOK, DeviceOpen
  <2>3. MountOK(m, w)'
    BY NodeServerAssumption DEF TypeOK, Fs, LocalOK, MountOK, InCharge
  <2>4. SizeOK(m, w)'
    BY DEF TypeOK, Fs, LocalOK, SizeOK
  <2> QED
    BY <2>1, <2>2, <2>3, <2>4 DEF LocalOK
<1> QED
  BY <1>1, <1>2 DEF IInv

(* The invariant is inductive. *)
LEMMA NextIInv == IInv /\ [Next]_vars => IInv'
<1> SUFFICES ASSUME IInv, [Next]_vars PROVE IInv'
  OBVIOUS
<1>1. CASE UNCHANGED vars
  BY <1>1 DEF vars, IInv, TypeOK, Fs, LocalOK, CallOK, LockOK, MountOK, SizeOK, DeviceOpen
<1>2. ASSUME NEW n \in Node, NEW v \in Vol, Step(n, v) PROVE IInv'
  BY <1>2, StepStageLock, StepStageMount, StepPublishMount, StepUnpublishUnmount,
     StepUnstageUnmount, StepUnstageUnlock, StepExpandResize, StepExpandGrow DEF Step
<1>3. ASSUME NEW n \in Node, NEW v \in Vol,
             \/ NodeStageVolume(n, v) \/ NodePublishVolume(n, v)
             \/ NodeUnpublishVolume(n, v) \/ NodeUnstageVolume(n, v)
             \/ \E required \in 1..MaxSize : NodeExpandVolume(n, v, required)
             \/ Use(n, v) \/ Unuse(n, v)
      PROVE  IInv'
  BY <1>3, StepNodeStageVolume, StepNodePublishVolume, StepNodeUnpublishVolume,
     StepNodeUnstageVolume, StepNodeExpandVolume, StepUse, StepUnuse
<1>4. ASSUME NEW n \in Node, DriverCrash(n) \/ Restart(n) \/ HostCrash(n) PROVE IInv'
  BY <1>4, StepDriverCrash, StepRestart, StepHostCrash
<1> QED
  BY <1>1, <1>2, <1>3, <1>4 DEF Next

LEMMA Inductive == Spec => []IInv
  BY InitIInv, NextIInv, PTL DEF Spec

-----------------------------------------------------------------------------
(* The state of the node servers has its types in every reachable state    *)
(* (nodeserver.go:86-431).                                                 *)
THEOREM TypeCorrect == Spec => []TypeOK
<1>1. IInv => TypeOK
  BY DEF IInv
<1> QED
  BY <1>1, Inductive, PTL

(* A volume is open on one node at a time, whatever fails and whoever dies *)
(* (nodeserver.go:181-297): an open device has its lease.                  *)
THEOREM Access == Spec => []SingleNodeAccess
<1>1. IInv => SingleNodeAccess
  BY DEF IInv, LocalOK, LockOK, SingleNodeAccess
<1> QED
  BY <1>1, Inductive, PTL

(* What the orchestrator was told is staged is mounted, active and locked  *)
(* (nodeserver.go:211-247, volumelock.go:217-254).                         *)
THEOREM Usable == Spec => []StagedIsUsable
<1>1. IInv => StagedIsUsable
  BY DEF IInv, LocalOK, MountOK, StagedIsUsable, Fs
<1> QED
  BY <1>1, Inductive, PTL

(* What is at a target path is the volume (nodeserver.go:131-137).         *)
THEOREM Targets == Spec => []TargetShowsVolume
<1>1. IInv => TargetShowsVolume
  BY DEF IInv, LocalOK, MountOK, TargetShowsVolume
<1> QED
  BY <1>1, Inductive, PTL

(* What the orchestrator was told is unstaged can be staged elsewhere      *)
(* (nodeserver.go:284-296, volumelock.go:116-148).                         *)
THEOREM Released == Spec => []UnstagedIsReleased
<1>1. IInv => UnstagedIsReleased
  BY DEF IInv, LocalOK, MountOK, UnstagedIsReleased
<1> QED
  BY <1>1, Inductive, PTL

(* A confirmed expansion has reached the file system, which never exceeds  *)
(* its volume (nodeserver.go:411-430).                                     *)
THEOREM Expansion == Spec => []ExpansionIsComplete
<1>1. IInv => ExpansionIsComplete
  BY NodeServerAssumption DEF IInv, LocalOK, SizeOK, ExpansionIsComplete, Fs
<1> QED
  BY <1>1, Inductive, PTL
=============================================================================
