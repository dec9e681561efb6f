------------------------------- MODULE NodeServer -------------------------------
(***************************************************************************)
(* The node server (pkg/driverd/nodeserver.go) and the file systems it     *)
(* mounts (pkg/driverd/filesystem.go): a volume is staged (locked, and     *)
(* mounted at its staging path), published (bound to a target path),       *)
(* unpublished, unstaged and expanded on the nodes of a cluster.           *)
(*                                                                         *)
(* The orchestrator issues one call at a time for a volume on a node,      *)
(* retries a call that failed or whose driver died, or undoes it.  Locking *)
(* is what VolumeLock shows it to be: exclusive, and backed by the lease.  *)
(***************************************************************************)
EXTENDS Naturals

CONSTANTS
    Node,       \* the nodes
    Vol,        \* the volumes
    None,       \* no node
    Flaky,      \* TRUE: the system calls and lvm commands may fail
    MaxSize,    \* volumes have sizes 1..MaxSize
    MaxCrashes  \* crashes of a driver or a host

ASSUME NodeServerAssumption ==
    /\ Node # {} /\ None \notin Node
    /\ Flaky \in BOOLEAN
    /\ MaxSize \in Nat \ {0}
    /\ MaxCrashes \in Nat

VARIABLES
    raw,        \* the volumes without a file system, for block access: a tag
    co,         \* co[n][v]: what the orchestrator has been told, or asked for
    pc,         \* pc[n][v]: the next step of the call in progress
    up,         \* the nodes whose driver runs
    lease,      \* lease[v]: the node on which v is active
    locked,     \* locked[n]: the volumes n's locker holds for staging
    entry,      \* entry[n]: the volumes with an entry, maybe empty, in its map
    staged,     \* staged[n]: the volumes mounted at their staging path
    target,     \* target[n][v]: what is mounted at v's target path
    inUse,      \* inUse[n]: raw volumes whose device the workload has open
    size,       \* size[v]: the size of the volume
    fsSize,     \* fsSize[v]: the size of the file system on it
    expand,     \* expand[n][v]: the size NodeExpandVolume was asked for
    expanded,   \* expanded[v]: history: the size it has confirmed
    skipped,    \* skipped[n]: history: volumes that sync failed to deactivate
    crashes

vars == <<raw, co, pc, up, lease, locked, entry, staged, target, inUse, size, fsSize,
          expand, expanded, skipped, crashes>>

lock == <<lease, locked, entry, skipped>>
mounts == <<staged, target, inUse>>
sizes == <<size, fsSize, expand, expanded, raw>>

Fs == Vol \ raw

Init ==
    /\ raw \in SUBSET Vol
    /\ co = [n \in Node |-> [v \in Vol |-> "unstaged"]]
    /\ pc = [n \in Node |-> [v \in Vol |-> "idle"]]
    /\ up = Node
    /\ lease = [v \in Vol |-> None]
    /\ locked = [n \in Node |-> {}]
    /\ entry = [n \in Node |-> {}]
    /\ staged = [n \in Node |-> {}]
    /\ target = [n \in Node |-> [v \in Vol |-> "nothing"]]
    /\ inUse = [n \in Node |-> {}]
    /\ size = [v \in Vol |-> 1]
    /\ fsSize = [v \in Vol |-> 1]
    /\ expand = [n \in Node |-> [v \in Vol |-> 0]]
    /\ expanded = [v \in Vol |-> 0]
    /\ skipped = [n \in Node |-> {}]
    /\ crashes = 0

-----------------------------------------------------------------------------
(* A device is open while a file system on it is mounted, at the staging   *)
(* or the target path, or a workload has the raw device open.              *)
DeviceOpen(n, v) ==
    IF v \in raw THEN v \in inUse[n] ELSE v \in staged[n] \/ target[n][v] = "volume"

Goto(n, v, step) == pc' = [pc EXCEPT ![n][v] = step]

Tell(n, v, answer) == co' = [co EXCEPT ![n][v] = answer] /\ Goto(n, v, "idle")

Error(n, v) == Goto(n, v, "idle") /\ UNCHANGED co

(* The orchestrator calls: phase is what it has been told, or a call of    *)
(* the same kind that failed, or one that it gives up and undoes.          *)
Calls(n, v, phases, phase, step) ==
    /\ n \in up
    /\ pc[n][v] = "idle"
    /\ co[n][v] \in phases
    /\ co' = [co EXCEPT ![n][v] = phase]
    /\ Goto(n, v, step)

-----------------------------------------------------------------------------
NodeStageVolume(n, v) ==
    /\ Calls(n, v, {"unstaged", "staging", "unstaging"}, "staging", "lock")
    /\ UNCHANGED <<up, lock, mounts, sizes, crashes>>

(* Exclusive activation: no other node has the lease. *)
Activatable_Shared(n, v) == TRUE
Activatable(n, v) == lease[v] \in {None, n}

(* LockVolume.  It fails when another node has the lease, or because a     *)
(* command did; then the lease may remain, or be gone if it was idle.      *)
StageLock(n, v) ==
    /\ pc[n][v] = "lock"
    /\ entry' = [entry EXCEPT ![n] = @ \cup {v}]
    /\ skipped' = [skipped EXCEPT ![n] = @ \ {v}]
    /\ \/ /\ v \in locked[n] \/ Activatable(n, v)
          /\ locked' = [locked EXCEPT ![n] = @ \cup {v}]
          /\ lease' = IF v \in locked[n] THEN lease ELSE [lease EXCEPT ![v] = n]
          /\ Goto(n, v, "mount")
          /\ UNCHANGED co
       \/ /\ v \notin locked[n]
          /\ \/ ~Activatable(n, v) /\ UNCHANGED lease
             \/ /\ Flaky /\ Activatable(n, v)
                /\ \E holder \in {lease[v], n} \cup {h \in {None} : ~DeviceOpen(n, v)} :
                      lease' = [lease EXCEPT ![v] = holder]
          /\ Error(n, v)
          /\ UNCHANGED locked
    /\ UNCHANGED <<up, mounts, sizes, crashes>>

(* mountFs leaves a staging path that is mounted alone; a raw volume is    *)
(* not mounted.  An error, of Lvs, of the mount or of the group access     *)
(* granted after it, leaves the volume locked, and maybe mounted.          *)
Mounted_Raw(n, v) == [staged EXCEPT ![n] = @ \cup {v}]
Mounted_Not(n, v) == staged
Mounted(n, v) == IF v \in raw THEN staged ELSE [staged EXCEPT ![n] = @ \cup {v}]

Mountable(n, v) == v \in raw \cup staged[n] \/ lease[v] = n

StageMount(n, v) ==
    /\ pc[n][v] = "mount"
    /\ \/ /\ Mountable(n, v)
          /\ staged' = Mounted(n, v)
          /\ Tell(n, v, "staged")
       \/ /\ Flaky \/ ~Mountable(n, v)
          /\ staged' \in {staged} \cup {s \in {Mounted(n, v)} : Mountable(n, v)}
          /\ Error(n, v)
    /\ UNCHANGED <<up, lock, target, inUse, sizes, crashes>>

-----------------------------------------------------------------------------
NodePublishVolume(n, v) ==
    /\ Calls(n, v, {"staged", "publishing", "unpublishing"}, "publishing", "publish")
    /\ UNCHANGED <<up, lock, mounts, sizes, crashes>>

(* A file system is published by binding the directory at its staging      *)
(* path, mounted or not, a raw volume by binding its device.               *)
Bound(n, v) == IF v \in raw \/ v \in staged[n] THEN "volume" ELSE "directory"

Publishable(n, v) == target[n][v] # "nothing" \/ v \in Fs \/ lease[v] = n

PublishMount(n, v) ==
    /\ pc[n][v] = "publish"
    /\ \/ /\ Publishable(n, v)
          /\ target' = IF target[n][v] # "nothing" THEN target
                       ELSE [target EXCEPT ![n][v] = Bound(n, v)]
          /\ Tell(n, v, "published")
       \/ /\ Flaky \/ ~Publishable(n, v)
          /\ Error(n, v)
          /\ UNCHANGED target
    /\ UNCHANGED <<up, lock, staged, inUse, sizes, crashes>>

NodeUnpublishVolume(n, v) ==
    /\ Calls(n, v, {"published", "publishing", "unpublishing"}, "unpublishing", "unpublish")
    /\ UNCHANGED <<up, lock, mounts, sizes, crashes>>

(* umountFs, and the removal of the target path.  A raw device that is     *)
(* open keeps its bind mount busy.                                         *)
Unmounted(n, v) ==
    IF v \in inUse[n] THEN {} ELSE {[target EXCEPT ![n][v] = "nothing"]}

UnpublishUnmount(n, v) ==
    /\ pc[n][v] = "unpublish"
    /\ \/ target' \in Unmounted(n, v) /\ Tell(n, v, "staged")
       \/ /\ Flaky \/ v \in inUse[n]
          /\ target' \in {target} \cup Unmounted(n, v)
          /\ Error(n, v)
    /\ UNCHANGED <<up, lock, staged, inUse, sizes, crashes>>

-----------------------------------------------------------------------------
NodeUnstageVolume(n, v) ==
    /\ Calls(n, v, {"staged", "staging", "unstaging"}, "unstaging", "unmount")
    /\ UNCHANGED <<up, lock, mounts, sizes, crashes>>

(* umountFs.  A path that cannot be looked up counts as not mounted, and   *)
(* the volume is unlocked all the same.                                    *)
UnstageUnmount(n, v) ==
    /\ pc[n][v] = "unmount"
    /\ \/ /\ staged' \in {[staged EXCEPT ![n] = @ \ {v}]} \cup {s \in {staged} : Flaky}
          /\ Goto(n, v, "unlock")
          /\ UNCHANGED co
       \/ Flaky /\ Error(n, v) /\ UNCHANGED staged
    /\ UNCHANGED <<up, lock, target, inUse, sizes, crashes>>

(* UnlockVolume.  The operation is gone from the locker even when the      *)
(* deactivation fails; the entry, and the volume's lease, are not.         *)
LeaseReleased(n, v) == IF lease[v] = n THEN [lease EXCEPT ![v] = None] ELSE lease

EntryAfterFailure_Gone(n, v) == [entry EXCEPT ![n] = @ \ {v}]
EntryAfterFailure(n, v) == entry

UnstageUnlock(n, v) ==
    /\ pc[n][v] = "unlock"
    /\ locked' = [locked EXCEPT ![n] = @ \ {v}]
    /\ UNCHANGED skipped
    /\ \/ /\ v \notin entry[n]
          /\ Tell(n, v, "unstaged")
          /\ UNCHANGED <<lease, entry>>
       \/ /\ v \in entry[n] /\ ~DeviceOpen(n, v)
          /\ lease' = LeaseReleased(n, v)
          /\ entry' = [entry EXCEPT ![n] = @ \ {v}]
          /\ Tell(n, v, "unstaged")
       \/ /\ v \in entry[n] /\ (Flaky \/ DeviceOpen(n, v))
          /\ lease' \in {lease} \cup {l \in {LeaseReleased(n, v)} : ~DeviceOpen(n, v)}
          /\ entry' = EntryAfterFailure(n, v)
          /\ Error(n, v)
    /\ UNCHANGED <<up, mounts, sizes, crashes>>

-----------------------------------------------------------------------------
(* NodeExpandVolume, of a volume that is staged. *)
NodeExpandVolume(n, v, required) ==
    /\ co[n][v] \in {"staged", "published"}
    /\ Calls(n, v, {co[n][v]}, co[n][v], "resize")
    /\ expand' = [expand EXCEPT ![n][v] = required]
    /\ UNCHANGED <<up, lock, mounts, size, fsSize, expanded, raw, crashes>>

(* lvresize sets the size; it takes the lock of a volume nobody has. *)
Resizable(n, v) == lease[v] \in {None, n}
Resized(n, v) == [size EXCEPT ![v] = expand[n][v]]

ExpandResize(n, v) ==
    /\ pc[n][v] = "resize"
    /\ \/ /\ size[v] >= expand[n][v] \/ Resizable(n, v)
          /\ size' = IF size[v] < expand[n][v] THEN Resized(n, v) ELSE size
          /\ Goto(n, v, "grow")
          /\ UNCHANGED co
       \/ /\ Flaky \/ (size[v] < expand[n][v] /\ ~Resizable(n, v))
          /\ size' \in {size} \cup
                {s \in {Resized(n, v)} : size[v] < expand[n][v] /\ Resizable(n, v)}
          /\ Error(n, v)
    /\ UNCHANGED <<up, lock, mounts, fsSize, expand, expanded, raw, crashes>>

(* fsadm resizes the file system to the size of the device, also when the  *)
(* volume was already large enough; failing, it may have done so.          *)
Grown_ToRequired(n, v) == [fsSize EXCEPT ![v] = expand[n][v]]
Grown(n, v) == IF v \in raw THEN fsSize ELSE [fsSize EXCEPT ![v] = size[v]]

ExpandGrow(n, v) ==
    /\ pc[n][v] = "grow"
    /\ \/ /\ v \in raw \/ lease[v] = n
          /\ fsSize' = Grown(n, v)
          /\ expanded' = [expanded EXCEPT ![v] = IF @ < expand[n][v] THEN expand[n][v] ELSE @]
       \/ /\ v \notin raw /\ (Flaky \/ lease[v] # n)
          /\ fsSize' \in {fsSize} \cup {s \in {Grown(n, v)} : lease[v] = n}
          /\ UNCHANGED expanded
    /\ Error(n, v)
    /\ UNCHANGED <<up, lock, mounts, size, expand, raw, crashes>>

-----------------------------------------------------------------------------
(* The workload opens and closes the raw device it finds at the target.    *)
Use(n, v) ==
    /\ v \in raw
    /\ co[n][v] = "published"
    /\ lease[v] = n
    /\ inUse' = [inUse EXCEPT ![n] = @ \cup {v}]
    /\ UNCHANGED <<co, pc, up, lock, staged, target, sizes, crashes>>

Unuse(n, v) ==
    /\ v \in inUse[n]
    /\ inUse' = [inUse EXCEPT ![n] = @ \ {v}]
    /\ UNCHANGED <<co, pc, up, lock, staged, target, sizes, crashes>>

(* The driver dies in the middle of its calls; mounts and leases survive.  *)
DriverCrash(n) ==
    /\ crashes < MaxCrashes
    /\ crashes' = crashes + 1
    /\ n \in up
    /\ up' = up \ {n}
    /\ locked' = [locked EXCEPT ![n] = {}]
    /\ entry' = [entry EXCEPT ![n] = {}]
    /\ pc' = [pc EXCEPT ![n] = [v \in Vol |-> "idle"]]
    /\ UNCHANGED <<co, lease, skipped, mounts, sizes>>

(* It restarts: sync adopts the active volumes whose device is open and    *)
(* deactivates the others; it ignores that a deactivation fails.           *)
Kept_None(n) == {}
Kept(n) == {v \in Vol : lease[v] = n /\ DeviceOpen(n, v)}

Idle(n) == {v \in Vol : lease[v] = n /\ ~DeviceOpen(n, v)}

Restart(n) ==
    /\ n \notin up
    /\ up' = up \cup {n}
    /\ locked' = [locked EXCEPT ![n] = Kept(n)]
    /\ entry' = [entry EXCEPT ![n] = Kept(n)]
    /\ \E failed \in SUBSET Idle(n) :
          /\ Flaky \/ failed = {}
          /\ skipped' = [skipped EXCEPT ![n] = failed]
          /\ lease' = [v \in Vol |-> IF v \in Idle(n) \ failed THEN None ELSE lease[v]]
    /\ UNCHANGED <<co, pc, mounts, sizes, crashes>>

(* The host dies: nothing is mounted, its leases expire, and the           *)
(* orchestrator starts over.                                               *)
HostCrash(n) ==
    /\ crashes < MaxCrashes
    /\ crashes' = crashes + 1
    /\ up' = up \ {n}
    /\ co' = [co EXCEPT ![n] = [v \in Vol |-> "unstaged"]]
    /\ pc' = [pc EXCEPT ![n] = [v \in Vol |-> "idle"]]
    /\ lease' = [v \in Vol |-> IF lease[v] = n THEN None ELSE lease[v]]
    /\ locked' = [locked EXCEPT ![n] = {}]
    /\ entry' = [entry EXCEPT ![n] = {}]
    /\ staged' = [staged EXCEPT ![n] = {}]
    /\ target' = [target EXCEPT ![n] = [v \in Vol |-> "nothing"]]
    /\ inUse' = [inUse EXCEPT ![n] = {}]
    /\ skipped' = [skipped EXCEPT ![n] = {}]
    /\ UNCHANGED sizes

Step(n, v) ==
    \/ StageLock(n, v) \/ StageMount(n, v) \/ PublishMount(n, v) \/ UnpublishUnmount(n, v)
    \/ UnstageUnmount(n, v) \/ UnstageUnlock(n, v) \/ ExpandResize(n, v) \/ ExpandGrow(n, v)

Next ==
    \E n \in Node :
        \/ \E v \in Vol :
              \/ NodeStageVolume(n, v) \/ NodePublishVolume(n, v)
              \/ NodeUnpublishVolume(n, v) \/ NodeUnstageVolume(n, v)
              \/ \E required \in 1..MaxSize : NodeExpandVolume(n, v, required)
              \/ Step(n, v) \/ Use(n, v) \/ Unuse(n, v)
        \/ DriverCrash(n) \/ Restart(n) \/ HostCrash(n)

Spec == Init /\ [][Next]_vars

-----------------------------------------------------------------------------
Phase == {"unstaged", "staging", "staged", "publishing", "published", "unpublishing",
          "unstaging"}

CallStep == {"idle", "lock", "mount", "publish", "unpublish", "unmount", "unlock", "resize",
             "grow"}

(* The shape of the state (nodeserver.go:86-431). *)
TypeOK ==
    /\ raw \subseteq Vol
    /\ co \in [Node -> [Vol -> Phase]]
    /\ pc \in [Node -> [Vol -> CallStep]]
    /\ up \subseteq Node
    /\ lease \in [Vol -> Node \cup {None}]
    /\ locked \in [Node -> SUBSET Vol]
    /\ entry \in [Node -> SUBSET Vol]
    /\ staged \in [Node -> SUBSET Fs]
    /\ target \in [Node -> [Vol -> {"nothing", "volume", "directory"}]]
    /\ inUse \in [Node -> SUBSET raw]
    /\ size \in [Vol -> 1..MaxSize]
    /\ fsSize \in [Vol -> 1..MaxSize]
    /\ expand \in [Node -> [Vol -> 0..MaxSize]]
    /\ expanded \in [Vol -> 0..MaxSize]
    /\ skipped \in [Node -> SUBSET Vol]
    /\ crashes \in 0..MaxCrashes

InCharge == {"staged", "publishing", "published", "unpublishing"}

(* A volume with a file system that the orchestrator was told is staged is *)
(* mounted, active, and locked whenever the driver is up, through crashes  *)
(* of drivers and failed calls on this and other nodes                     *)
(* (nodeserver.go:211-247, volumelock.go:217-254).                         *)
StagedIsUsable ==
    \A n \in Node, v \in Fs :
        co[n][v] \in InCharge =>
            /\ v \in staged[n]
            /\ lease[v] = n
            /\ n \in up => v \in locked[n]

(* What is at a target path is the volume, never the empty directory at a  *)
(* staging path that is not mounted (nodeserver.go:131-137,                *)
(* filesystem.go:119-125, 199-233).                                        *)
TargetShowsVolume ==
    \A n \in Node, v \in Vol :
        /\ target[n][v] # "directory"
        /\ co[n][v] = "published" => target[n][v] = "volume"

(* A volume that the orchestrator was told is unstaged can be staged       *)
(* elsewhere: the node has nothing mounted, no lock and no lease of it,    *)
(* however many calls failed or drivers died on the way.  The one          *)
(* exception is a volume that sync failed to deactivate, which it does not *)
(* enter into the map (nodeserver.go:284-296, volumelock.go:116-148, 239). *)
UnstagedIsReleased ==
    \A n \in Node, v \in Vol :
        co[n][v] = "unstaged" =>
            /\ v \notin staged[n] /\ target[n][v] = "nothing" /\ v \notin inUse[n]
            /\ v \notin locked[n]
            /\ lease[v] = n => v \in skipped[n]

(* "Support single node read/write access" (README.md:21): the devices of  *)
(* a volume are open on one node at a time.                                *)
SingleNodeAccess ==
    \A m, n \in Node, v \in Vol : DeviceOpen(m, v) /\ DeviceOpen(n, v) => m = n

(* A confirmed expansion has reached the file system, also when a driver   *)
(* died between the resize of the volume and that of the file system, and  *)
(* a file system never exceeds its volume (nodeserver.go:411-430).         *)
ExpansionIsComplete ==
    \A v \in Fs : expanded[v] <= fsSize[v] /\ fsSize[v] <= size[v]
=============================================================================
