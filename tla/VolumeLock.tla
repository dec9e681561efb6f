------------------------------- MODULE VolumeLock -------------------------------
(***************************************************************************)
(* The volume locker of driverd (pkg/driverd/volumelock.go): one locker    *)
(* per node, all of them driving the same volume group through the lvm     *)
(* commands that each node's lvmctrld runs.                                *)
(*                                                                         *)
(* A volume is locked by activating it exclusively, which makes lvmlockd   *)
(* take a sanlock lease, and by tagging it with the id of the owner node.  *)
(* The locker keeps, per volume, the set of operations that hold it, and   *)
(* releases the volume with the last one.  Every method holds the locker's *)
(* mutex throughout, so a node runs one method at a time, but the nodes,   *)
(* the lvm commands, crashes and the clients' use of the devices           *)
(* interleave freely.                                                      *)
(***************************************************************************)
EXTENDS Naturals, FiniteSets

CONSTANTS
    Node,       \* the cluster's nodes
    Vol,        \* the logical volumes that some driver locks
    Managed,    \* those with the csl-v- prefix; the rpc lock volume is not one
    Op,         \* operation names a lock can be held for
    StageOp,    \* defaultLockOp: the one used by NodeStage and by sync
    None,       \* no node, no volume, no operation
    Flaky,      \* TRUE: any lvm command may fail, with or without its effect
    MaxLate,    \* how many commands may be outstanding whose caller gave up
    MaxCrashes  \* how many times a driver or a host may crash

ASSUME VolumeLockAssumption ==
    /\ Managed \subseteq Vol
    /\ StageOp \in Op
    /\ None \notin Node /\ None \notin Vol /\ None \notin Op
    /\ Flaky \in BOOLEAN
    /\ MaxLate \in Nat
    /\ MaxCrashes \in Nat

VARIABLES
    lease,      \* lease[v]: the node on which v is active exclusively
    ownerTags,  \* ownerTags[v]: the nodes named by v's owner tags
    opened,     \* opened[n][v]: the operations that have v's device open on n
    locks,      \* locks[n][v]: the operations that hold v in n's locker
    entry,      \* entry[n]: the volumes with an entry, maybe empty, in n's map
    pc,         \* pc[n]: the next step of the method n's locker is in
    call,       \* call[n]: that method, its arguments and the tags it has read
    todo,       \* todo[n]: the volumes that sync has yet to release
    late,       \* commands still running whose caller has been told they failed
    crashes     \* how many crashes so far

lvm == <<lease, ownerTags, late>>
vars == <<lease, ownerTags, opened, locks, entry, pc, call, todo, late, crashes>>

Step == {"down", "list", "next", "idle", "activate", "fetch", "retag",
         "deactivate", "undo"}

Fn == {"none", "LockVolume", "UnlockVolume", "sync"}

Call == [fn : Fn, vol : Vol \cup {None}, op : Op \cup {None}, seen : SUBSET Node]

NoCall == [fn |-> "none", vol |-> None, op |-> None, seen |-> {}]

Command == [node : Node, cmd : {"activate", "deactivate", "retag"}, vol : Vol,
            add : SUBSET Node, del : SUBSET Node]

Init ==
    /\ lease = [v \in Vol |-> None]
    /\ ownerTags = [v \in Vol |-> {}]
    /\ opened = [n \in Node |-> [v \in Vol |-> {}]]
    /\ locks = [n \in Node |-> [v \in Vol |-> {}]]
    /\ entry = [n \in Node |-> {}]
    /\ pc = [n \in Node |-> "down"]
    /\ call = [n \in Node |-> NoCall]
    /\ todo = [n \in Node |-> {}]
    /\ late = {}
    /\ crashes = 0

-----------------------------------------------------------------------------
(* lvmlockd and the kernel, as the driver uses them.  A change to a volume *)
(* needs its lease, which lvm takes for the command when nobody has it; a  *)
(* device that is open cannot be deactivated, and deactivating a volume    *)
(* that is not active on the node has nothing to do.                       *)

Permitted(c) ==
    IF c.cmd = "deactivate"
    THEN opened[c.node][c.vol] = {}
    ELSE lease[c.vol] \in {None, c.node}

LeaseAfter(c) ==
    IF c.cmd = "activate" THEN c.node
    ELSE IF c.cmd = "deactivate" /\ lease[c.vol] = c.node THEN None
    ELSE lease[c.vol]

Apply(c) ==
    /\ Permitted(c)
    /\ lease' = [lease EXCEPT ![c.vol] = LeaseAfter(c)]
    /\ ownerTags' = [ownerTags EXCEPT ![c.vol] = (@ \ c.del) \cup c.add]

(* The command has run and its caller is told so. *)
Succeeds(c) == Apply(c) /\ late' = late

(* The caller is told that the command failed: lvm refused it, or it went  *)
(* wrong before or after its effect, or the call timed out or lost its     *)
(* connection while lvmctrld, which runs commands without the caller's     *)
(* context, has yet to run it.                                             *)
Fails(c) ==
    \/ ~Permitted(c) /\ UNCHANGED lvm
    \/ Flaky /\ UNCHANGED lvm
    \/ Flaky /\ Succeeds(c)
    \/ /\ Cardinality(late) < MaxLate
       /\ late' = late \cup {c}
       /\ UNCHANGED <<lease, ownerTags>>

(* A command that its caller has given up on runs after all. *)
LateCommand(c) ==
    /\ c \in late
    /\ late' = late \ {c}
    /\ \/ Apply(c)
       \/ ~Permitted(c) /\ UNCHANGED <<lease, ownerTags>>
    /\ UNCHANGED <<opened, locks, entry, pc, call, todo, crashes>>

-----------------------------------------------------------------------------
Serving(n) == pc[n] # "down" /\ call[n].fn # "sync"

Goto(n, step) == pc' = [pc EXCEPT ![n] = step]

Return(n) == Goto(n, "idle") /\ call' = [call EXCEPT ![n] = NoCall]

Enter(n, fn, v, o) ==
    call' = [call EXCEPT ![n] = [fn |-> fn, vol |-> v, op |-> o, seen |-> {}]]

LvChange(n, cmd, add, del) ==
    [node |-> n, cmd |-> cmd, vol |-> call[n].vol, add |-> add, del |-> del]

(* setOwner: the owner the method wants, the tag it adds for it, and the   *)
(* tags it removes, decided from the tags it has read.                     *)
Wanted(n) == IF call[n].fn = "LockVolume" THEN {n} ELSE {}

DelTags_KeepStale(n) == IF call[n].fn = "LockVolume" THEN {} ELSE call[n].seen
DelTags(n) == call[n].seen \ Wanted(n)

SetOwner(n) == LvChange(n, "retag", Wanted(n), DelTags(n))

-----------------------------------------------------------------------------
(* LockVolume.  A volume some operation of this node already holds is only *)
(* taken note of.  The entry is created before the volume is activated and *)
(* stays behind when that fails.                                           *)

LockVolume(n, v, o) ==
    /\ pc[n] = "idle"
    /\ entry' = [entry EXCEPT ![n] = @ \cup {v}]
    /\ IF locks[n][v] # {}
       THEN /\ locks' = [locks EXCEPT ![n][v] = @ \cup {o}]
            /\ UNCHANGED <<pc, call>>
       ELSE /\ Enter(n, "LockVolume", v, o)
            /\ Goto(n, "activate")
            /\ UNCHANGED locks
    /\ UNCHANGED <<lvm, opened, todo, crashes>>

Activate(n) ==
    /\ pc[n] = "activate"
    /\ LET c == LvChange(n, "activate", {}, {})
       IN  \/ Succeeds(c) /\ Goto(n, "fetch") /\ UNCHANGED call
           \/ Fails(c) /\ Return(n)
    /\ UNCHANGED <<opened, locks, entry, todo, crashes>>

(* LockVolume failed to tag the volume: try to release it, whatever comes  *)
(* of it.                                                                  *)
Undo(n) ==
    /\ pc[n] = "undo"
    /\ LET c == LvChange(n, "deactivate", {}, {}) IN Succeeds(c) \/ Fails(c)
    /\ Return(n)
    /\ UNCHANGED <<opened, locks, entry, todo, crashes>>

-----------------------------------------------------------------------------
(* setOwner, and what each of its callers does with its result. *)

SetOwnerDone(n) ==
    \/ /\ call[n].fn = "LockVolume"
       /\ locks' = [locks EXCEPT ![n][call[n].vol] = @ \cup {call[n].op}]
       /\ Return(n)
    \/ /\ call[n].fn = "UnlockVolume"
       /\ Goto(n, "deactivate")
       /\ UNCHANGED <<locks, call>>
    \/ /\ call[n].fn = "sync"
       /\ Goto(n, "next")
       /\ UNCHANGED <<locks, call>>

SetOwnerFailed(n) ==
    /\ \/ call[n].fn = "LockVolume" /\ Goto(n, "undo") /\ UNCHANGED call
       \/ call[n].fn = "UnlockVolume" /\ Return(n)
       \/ call[n].fn = "sync" /\ Goto(n, "next") /\ UNCHANGED call
    /\ UNCHANGED locks

(* decodeTags refuses a key that occurs twice, such as a second owner. *)
Decodable(tags) == Cardinality(tags) <= 1

(* Lvs and decodeTags, the first step of setOwner. *)
FetchTags(n) ==
    /\ pc[n] = "fetch"
    /\ LET tags == ownerTags[call[n].vol]
       IN  \/ /\ Decodable(tags)
              /\ call' = [call EXCEPT ![n].seen = tags]
              /\ Goto(n, "retag")
              /\ UNCHANGED locks
           \/ (Flaky \/ ~Decodable(tags)) /\ SetOwnerFailed(n)
    /\ UNCHANGED <<lvm, opened, entry, todo, crashes>>

Retag(n) ==
    /\ pc[n] = "retag"
    /\ IF Wanted(n) = {} /\ DelTags(n) = {}
       THEN UNCHANGED lvm /\ SetOwnerDone(n)
       ELSE \/ Succeeds(SetOwner(n)) /\ SetOwnerDone(n)
            \/ Fails(SetOwner(n)) /\ SetOwnerFailed(n)
    /\ UNCHANGED <<opened, entry, todo, crashes>>

-----------------------------------------------------------------------------
(* UnlockVolume.  Its callers no longer use the device for the operation   *)
(* they unlock.  The volume is released with its last operation: the owner *)
(* tag goes first, then the lease, and only then the entry.  Without an    *)
(* entry the method returns and changes nothing.                           *)

OtherOps_None(n, v, o) == {}
OtherOps(n, v, o) == locks[n][v] \ {o}

UnlockVolume(n, v, o) ==
    /\ pc[n] = "idle"
    /\ o \notin opened[n][v]
    /\ v \in entry[n]
    /\ locks' = [locks EXCEPT ![n][v] = @ \ {o}]
    /\ IF OtherOps(n, v, o) # {}
       THEN UNCHANGED <<pc, call>>
       ELSE Enter(n, "UnlockVolume", v, o) /\ Goto(n, "fetch")
    /\ UNCHANGED <<lvm, opened, entry, todo, crashes>>

(* The deactivation of UnlockVolume and of sync, which only warns when it  *)
(* fails and goes on to the owner tag.                                     *)
Deactivate(n) ==
    /\ pc[n] = "deactivate"
    /\ LET c == LvChange(n, "deactivate", {}, {})
       IN  IF call[n].fn = "sync"
           THEN /\ Succeeds(c) \/ Fails(c)
                /\ Goto(n, "fetch")
                /\ UNCHANGED <<entry, call>>
           ELSE \/ /\ Succeeds(c)
                   /\ entry' = [entry EXCEPT ![n] = @ \ {call[n].vol}]
                   /\ Return(n)
                \/ Fails(c) /\ Return(n) /\ UNCHANGED entry
    /\ UNCHANGED <<opened, locks, todo, crashes>>

-----------------------------------------------------------------------------
(* NewVolumeLocker and sync: a driver that starts releases the managed     *)
(* volumes that are active on its node and not open, and takes over those  *)
(* that are open as held by the stage operation.                           *)

Start(n) ==
    /\ pc[n] = "down"
    /\ Goto(n, "list")
    /\ Enter(n, "sync", None, None)
    /\ UNCHANGED <<lvm, opened, locks, entry, todo, crashes>>

Active_AnyPrefix(n) == {v \in Vol : lease[v] = n}
Active(n) == {v \in Managed : lease[v] = n}

Adopted_None(n) == {}
Adopted(n) == {v \in Active(n) : opened[n][v] # {}}

Idle_None(n) == {}
Idle(n) == {v \in Active(n) : opened[n][v] = {}}

SyncList(n) ==
    /\ pc[n] = "list"
    /\ \/ /\ locks' = [locks EXCEPT ![n] =
                [v \in Vol |-> IF v \in Adopted(n) THEN {StageOp} ELSE {}]]
          /\ entry' = [entry EXCEPT ![n] = Adopted(n)]
          /\ todo' = [todo EXCEPT ![n] = Idle(n)]
          /\ Goto(n, "next")
          /\ UNCHANGED call
       \/ /\ Flaky
          /\ Goto(n, "down")
          /\ call' = [call EXCEPT ![n] = NoCall]
          /\ UNCHANGED <<locks, entry, todo>>
    /\ UNCHANGED <<lvm, opened, crashes>>

SyncNext(n) ==
    /\ pc[n] = "next"
    /\ IF todo[n] = {}
       THEN Return(n) /\ UNCHANGED todo
       ELSE \E v \in todo[n] :
                /\ todo' = [todo EXCEPT ![n] = @ \ {v}]
                /\ Enter(n, "sync", v, None)
                /\ Goto(n, "deactivate")
    /\ UNCHANGED <<lvm, opened, locks, entry, crashes>>

-----------------------------------------------------------------------------
(* The clients: an operation that holds a volume opens its device, which   *)
(* exists while the volume is active on the node, and closes it before it  *)
(* unlocks the volume.  The rpc lock volume is never opened.               *)

Open(n, v, o) ==
    /\ Serving(n)
    /\ v \in Managed
    /\ o \in locks[n][v] \ opened[n][v]
    /\ lease[v] = n
    /\ opened' = [opened EXCEPT ![n][v] = @ \cup {o}]
    /\ UNCHANGED <<lvm, locks, entry, pc, call, todo, crashes>>

Close(n, v, o) ==
    /\ Serving(n)
    /\ o \in opened[n][v]
    /\ opened' = [opened EXCEPT ![n][v] = @ \ {o}]
    /\ UNCHANGED <<lvm, locks, entry, pc, call, todo, crashes>>

(* A dead driver forgets its locks and takes its children, which format    *)
(* and copy devices, with it; staged filesystems stay mounted, and leases  *)
(* and tags stay where they are.                                           *)
Forget(n) ==
    /\ crashes < MaxCrashes
    /\ crashes' = crashes + 1
    /\ locks' = [locks EXCEPT ![n] = [v \in Vol |-> {}]]
    /\ entry' = [entry EXCEPT ![n] = {}]
    /\ todo' = [todo EXCEPT ![n] = {}]
    /\ Goto(n, "down")
    /\ call' = [call EXCEPT ![n] = NoCall]

DriverCrash(n) ==
    /\ pc[n] # "down"
    /\ Forget(n)
    /\ opened' = [opened EXCEPT ![n] = [v \in Vol |-> opened[n][v] \cap {StageOp}]]
    /\ UNCHANGED lvm

(* A host that dies loses its leases and its devices too; only the tags,   *)
(* which are volume group metadata, remain.                                *)
HostCrash(n) ==
    /\ Forget(n)
    /\ lease' = [v \in Vol |-> IF lease[v] = n THEN None ELSE lease[v]]
    /\ late' = {c \in late : c.node # n}
    /\ opened' = [opened EXCEPT ![n] = [v \in Vol |-> {}]]
    /\ UNCHANGED ownerTags

-----------------------------------------------------------------------------
(* A step of the method that n's locker is in. *)
Proceed(n) ==
    \/ Activate(n) \/ Undo(n) \/ FetchTags(n) \/ Retag(n) \/ Deactivate(n)
    \/ SyncList(n) \/ SyncNext(n)

Request(n) ==
    \E v \in Vol, o \in Op :
        LockVolume(n, v, o) \/ UnlockVolume(n, v, o) \/ Open(n, v, o) \/ Close(n, v, o)

Next ==
    \/ \E n \in Node :
          Request(n) \/ Proceed(n) \/ Start(n) \/ DriverCrash(n) \/ HostCrash(n)
    \/ \E c \in late : LateCommand(c)

Spec == Init /\ [][Next]_vars

(* A method goes on until it returns, a driver that is down is restarted,  *)
(* and lvmctrld finishes its commands.  Clients promise nothing.           *)
Fairness ==
    /\ \A n \in Node : WF_vars(Proceed(n)) /\ WF_vars(Start(n))
    /\ WF_vars(\E c \in late : LateCommand(c))

FairSpec == Spec /\ Fairness

-----------------------------------------------------------------------------
(* The shape of the state; the method in progress fits the step it is at   *)
(* (volumelock.go:48-49).                                                  *)
TypeOK ==
    /\ lease \in [Vol -> Node \cup {None}]
    /\ ownerTags \in [Vol -> SUBSET Node]
    /\ opened \in [Node -> [Vol -> SUBSET Op]]
    /\ locks \in [Node -> [Vol -> SUBSET Op]]
    /\ entry \in [Node -> SUBSET Vol]
    /\ pc \in [Node -> Step]
    /\ call \in [Node -> Call]
    /\ todo \in [Node -> SUBSET Managed]
    /\ late \subseteq Command
    /\ crashes \in 0..MaxCrashes

(* "Acquire exclusive lock" (controllerserver.go:678): LockVolume returned *)
(* success on at most one node; two drivers never both believe that they   *)
(* hold a volume (volumelock.go:74-148).  It takes a command that runs     *)
(* after its caller has given up on it to break this (MaxLate > 0).        *)
MutualExclusion ==
    \A m, n \in Node, v \in Vol :
        locks[m][v] # {} /\ locks[n][v] # {} => m = n

(* Whoever holds a volume in its locker has the volume's lease, however    *)
(* its methods failed before, and whatever other nodes' sync and methods   *)
(* do to the volume, provided that no command runs late: the device the    *)
(* caller goes on to use is there (volumelock.go:84-112, 126-146, 234-251).*)
HeldIsActive ==
    \A n \in Node, v \in Vol : locks[n][v] # {} => lease[v] = n

(* The owner tag names the holder, and no one else, for as long as the     *)
(* volume is held: this is where other nodes delegate to, and what a stale *)
(* read in setOwner or the race of sync's comment could break              *)
(* (volumelock.go:99, 151-171, 177-215, 242-244).                          *)
OwnerTagWhileHeld ==
    \A n \in Node, v \in Vol : locks[n][v] # {} => ownerTags[v] = {n}

(* No interleaving of crashes, failed commands and restarts leaves two     *)
(* owner tags on a volume, which decodeTags refuses and which would lock   *)
(* every node out of the volume for good (volumelock.go:183-213).          *)
AtMostOneOwner ==
    \A v \in Vol : \A m, n \in ownerTags[v] : m = n

(* A device in use is never left unlocked: across crashes and restarts the *)
(* driver knows of every operation that still has the device open          *)
(* (volumelock.go:217-254).                                                *)
InUseIsLocked ==
    \A n \in Node, v \in Vol : Serving(n) => opened[n][v] \subseteq locks[n][v]

(* The volume locker provides an exclusive lock. *)
Abstract == INSTANCE ExclusiveLock
    WITH holders <- [v \in Vol |-> {n \in Node : locks[n][v] # {}}]

(* Refinement: the lockers together implement the exclusive lock, in which *)
(* a volume passes from one node to another only by way of nobody          *)
(* (volumelock.go:74-148, 217-254).                                        *)
ImplementsExclusiveLock == Abstract!Spec

Orphan(n, v) == lease[v] = n /\ locks[n][v] = {} /\ opened[n][v] = {}

(* A volume that no operation holds does not stay active for ever: after a *)
(* crash in the middle of any method the next sync releases it, provided   *)
(* that no command runs behind its caller's back and that deactivations    *)
(* succeed (Flaky = FALSE): one that fails leaves the volume active until  *)
(* the driver restarts or locks it again (volumelock.go:116-148, 217-254). *)
OrphansReclaimed ==
    [](late = {}) =>
        \A n \in Node, v \in Managed : Orphan(n, v) ~> ~Orphan(n, v)
=============================================================================
