----------------------------- MODULE ControllerServer -----------------------------
(***************************************************************************)
(* The controller server (pkg/driverd/controllerserver.go): volumes and    *)
(* snapshots are created, cloned, restored and deleted from any node, over *)
(* the volume locker, lvmctrld and, when the volume to lock is active      *)
(* elsewhere, over a disk rpc that runs the request on the owner.          *)
(*                                                                         *)
(* The orchestrator issues one request at a time for a name; it may give a *)
(* request up and issue another while the first one still runs.  Every lvm *)
(* command that changes something is a step, and may fail, with or without *)
(* its effect; look-ups in a row are one step.                             *)
(***************************************************************************)
EXTENDS Naturals

CONSTANTS
    Node,       \* the nodes
    Vol,        \* the names of volumes
    Snap,       \* the names of snapshots
    Call,       \* the uuids of requests, and of their temporary snapshots
    Used,       \* the volumes that exist at the start and that workloads use
    None,       \* nothing
    MaxFaults,  \* commands that fail and requests that are given up
    MaxCrashes  \* crashes of a driver

ASSUME ControllerServerAssumption ==
    /\ None \notin Node \cup Vol \cup Snap \cup Call
    /\ Vol \cap Snap = {} /\ Vol \cap Call = {} /\ Snap \cap Call = {}
    /\ "stage" \notin Call /\ Used \subseteq Vol
    /\ MaxFaults \in Nat /\ MaxCrashes \in Nat

VARIABLES
    call,       \* call[c]: a request, and how far its handler is
    waits,      \* the requests that the orchestrator waits for
    exists,     \* the logical volumes
    origin,     \* origin[x]: the volume that snapshot x was taken of
    lease,      \* lease[v]: the node on which v and its snapshots are active
    owner,      \* owner[v]: the owner tags of v
    ops,        \* ops[n][v]: the operations for which n's locker locks v
    data,       \* data[x]: the two halves of x: 0 blank, 1 as made, 2 rewritten
    told,       \* told[x]: what the orchestrator has been told of x
    spoiled,    \* history: names of which a request was given up, died or
                \*   failed to clean up, and what was made from these
    leaked,     \* history: what a failed command has left behind
    faults, crashes

lvm == <<exists, origin, lease, owner, data>>
history == <<told, spoiled, leaked>>
vars == <<call, waits, exists, origin, lease, owner, ops, data, told, spoiled,
          leaked, faults, crashes>>

Name == Vol \cup Snap
Lv == Name \cup Call        \* a temporary snapshot is named by a uuid

Blank == <<0, 0>>

NoCall == [op |-> "none", name |-> None, src |-> None, at |-> None, remote |-> FALSE,
           lockVol |-> None, cleanup |-> {}, pc |-> "new",
           ok |-> FALSE]

Over == [NoCall EXCEPT !.pc = "over"]

(* Some volumes exist, formatted and inactive, and some snapshots of them. *)
Init ==
    /\ call = [c \in Call |-> NoCall]
    /\ waits = {}
    /\ exists \in {Used \cup S : S \in SUBSET Snap}
    /\ \E v \in Used : origin = [x \in Snap \cup Call |-> IF x \in exists THEN v ELSE None]
    /\ lease = [v \in Vol |-> None]
    /\ owner = [v \in Vol |-> None]
    /\ ops = [n \in Node |-> [v \in Vol |-> {}]]
    /\ data = [x \in Lv |-> IF x \in exists THEN <<1, 1>> ELSE Blank]
    /\ told = [x \in Name |-> IF x \in exists THEN "created" ELSE "nothing"]
    /\ spoiled = {}
    /\ leaked = {}
    /\ faults = 0
    /\ crashes = 0

-----------------------------------------------------------------------------
(* The state of the logical volumes, as lvm and its lock manager keep it.  *)
Base(x) == IF x \in Vol THEN x ELSE origin[x]

Snapshots(v) == {x \in exists \ Vol : origin[x] = v}

Running(c) == call[c].pc \notin {"new", "over"}

(* A clone is copied from a temporary snapshot of its source. *)
DataVol_Source(c) == call[c].src
DataVol(c) == IF call[c].src \in Vol THEN c ELSE call[c].src

Staged(n, v) == "stage" \in ops[n][v]

(* Open devices: of staged volumes, and those that are formatted or copied. *)
Open(x) ==
    \/ x \in Vol /\ \E n \in Node : Staged(n, x)
    \/ \E c \in Call : call[c].pc = "half" /\ x \in {call[c].name, DataVol(c)}

Active(n, x) == x \in exists /\ lease[Base(x)] = n

Activatable(n, v) == v \in exists /\ lease[v] \in {None, n}

Removable(n, x) ==
    /\ lease[Base(x)] \in {None, n}
    /\ \A y \in {x} \cup Snapshots(x) : ~Open(y)

(* lvremove -f takes the snapshots of a volume with it. *)
LvRemove(x) ==
    LET gone == {x} \cup Snapshots(x)
    IN  /\ exists' = exists \ gone
        /\ origin' = [y \in Snap \cup Call |-> IF y \in gone THEN None ELSE origin[y]]
        /\ lease' = [v \in Vol |-> IF v \in gone THEN None ELSE lease[v]]
        /\ owner' = [v \in Vol |-> IF v \in gone THEN None ELSE owner[v]]
        /\ data' = [y \in Lv |-> IF y \in gone THEN Blank ELSE data[y]]

LvCreateSnapshot(x, v) ==
    /\ exists' = exists \cup {x}
    /\ origin' = [origin EXCEPT ![x] = v]
    /\ data' = [data EXCEPT ![x] = data[v]]
    /\ UNCHANGED <<lease, owner>>

(* A new volume is active on the node that creates it. *)
LvCreate(n, v) ==
    /\ exists' = exists \cup {v}
    /\ lease' = [lease EXCEPT ![v] = n]
    /\ UNCHANGED <<origin, owner, data>>

-----------------------------------------------------------------------------
Goto(c, step) == call' = [call EXCEPT ![c].pc = step]

(* A return statement: what is left to do are the deferred functions. *)
Return(c, ok) == call' = [call EXCEPT ![c].pc = "unwind", ![c].ok = ok]

(* The context of a request is cancelled when it is given up; a delegated  *)
(* request runs with the context of the rpc service, which never is.       *)
Expired(c) == c \notin waits /\ ~call[c].remote

Works(c) == ~Expired(c) /\ UNCHANGED faults

(* A command fails: it is not issued, or it may have been done all the     *)
(* same.                                                                   *)
NotIssued(c) == Expired(c) /\ UNCHANGED faults

Fails(c) == ~Expired(c) /\ faults < MaxFaults /\ faults' = faults + 1

-----------------------------------------------------------------------------
(* The orchestrator.  It clones, and snapshots, what it has been told was  *)
(* created, and deletes what is not staged; names are not used again.      *)
FirstStep(op, src) ==
    CASE op = "DeleteVolume" -> "remove"
      [] op = "CreateSnapshot" -> "lock"
      [] op = "CreateVolume" /\ src = None -> "create"
      [] OTHER -> "lookup"

Request(n, c, op, name, src) ==
    /\ call[c].pc = "new"
    /\ \A d \in waits : call[d].name # name
    /\ waits' = waits \cup {c}
    /\ call' = [call EXCEPT ![c] = [NoCall EXCEPT
          !.op = op, !.name = name, !.src = src, !.at = n, !.pc = FirstStep(op, src),
          !.lockVol = IF src \in Vol THEN src ELSE None]]
    /\ IF op \in {"CreateVolume", "CreateSnapshot"}
       THEN told[name] \in {"nothing", "created"} /\ UNCHANGED told
       ELSE told' = [told EXCEPT ![name] = "deleting"]
    /\ UNCHANGED <<lvm, ops, spoiled, leaked, faults, crashes>>

CreateVolume(n, c, v, src) ==
    /\ src # None => src # v /\ told[src] = "created"
    /\ Request(n, c, "CreateVolume", v, src)

DeleteVolume(n, c, v) ==
    /\ \A m \in Node : ~Staged(m, v)
    /\ Request(n, c, "DeleteVolume", v, None)

CreateSnapshot(n, c, s, v) ==
    /\ told[v] = "created"
    /\ Request(n, c, "CreateSnapshot", s, v)

DeleteSnapshot(n, c, s) == Request(n, c, "DeleteSnapshot", s, None)

GiveUp(c) ==
    /\ c \in waits
    /\ faults < MaxFaults
    /\ faults' = faults + 1
    /\ waits' = waits \ {c}
    /\ spoiled' = spoiled \cup {call[c].name}
    /\ UNCHANGED <<call, lvm, ops, told, leaked, crashes>>

-----------------------------------------------------------------------------
(* The rpc loop of a node runs one delegated request at a time, from the   *)
(* start of its handler.                                                   *)
LoopBusy(n) ==
    \E c \in Call : call[c].remote /\ call[c].at = n /\ Running(c) /\ call[c].pc # "queued"

HandleRequest(c) ==
    /\ call[c].pc = "queued"
    /\ ~LoopBusy(call[c].at)
    /\ Goto(c, FirstStep(call[c].op, call[c].src))
    /\ UNCHANGED <<waits, lvm, ops, history, faults, crashes>>

(* A volume or snapshot is fetched, with the volume to lock for it: itself, *)
(* or its origin.                                                          *)
Fetch(c, x, missing) ==
    /\ \/ Works(c) /\ x \in exists
          /\ call' = [call EXCEPT ![c].lockVol = Base(x), ![c].pc = "lock"]
       \/ Works(c) /\ x \notin exists /\ Return(c, missing)
       \/ (NotIssued(c) \/ Fails(c)) /\ Return(c, FALSE)
    /\ UNCHANGED <<waits, lvm, ops, history, crashes>>

(* A source must exist; a snapshot that does not counts as deleted. *)
LookupSource(c) ==
    call[c].pc = "lookup" /\ call[c].op = "CreateVolume" /\ Fetch(c, call[c].src, FALSE)

LookupSnapshot(c) ==
    call[c].pc = "lookup" /\ call[c].op = "DeleteSnapshot" /\ Fetch(c, call[c].name, TRUE)

(* LockVolume: it joins the operations that lock the volume already, or    *)
(* activates it and tags it.  One that fails may leave the volume active.  *)
Locked_NotJoined(n, v, op) ==
    /\ ops[n][v] # {} \/ Activatable(n, v)
    /\ ops' = IF ops[n][v] # {} THEN ops ELSE [ops EXCEPT ![n][v] = {op}]
    /\ IF ops[n][v] # {} THEN UNCHANGED <<lease, owner>>
       ELSE /\ lease' = [lease EXCEPT ![v] = n]
            /\ owner' = [owner EXCEPT ![v] = n]
Locked(n, v, op) ==
    /\ ops[n][v] # {} \/ Activatable(n, v)
    /\ ops' = [ops EXCEPT ![n][v] = @ \cup {op}]
    /\ IF ops[n][v] # {} THEN UNCHANGED <<lease, owner>>
       ELSE /\ lease' = [lease EXCEPT ![v] = n]
            /\ owner' = [owner EXCEPT ![v] = n]

LockFails(c, v) ==
    LET n == call[c].at
    IN  /\ ops[n][v] = {}
        /\ \/ /\ NotIssued(c) \/ (Works(c) /\ v \notin exists) \/ Fails(c)
              /\ UNCHANGED <<lease, owner, leaked>>
           \/ /\ Fails(c) /\ Activatable(n, v)
              /\ lease' = [lease EXCEPT ![v] = n]
              /\ owner' \in {owner, [owner EXCEPT ![v] = n]}
              /\ leaked' = leaked \cup {v}

(* GetOwner: without an owner's tag, mailbox 0, which is this node. *)
GetOwner_Untagged(c, v) == owner[v]
GetOwner(c, v) == IF owner[v] = None THEN call[c].at ELSE owner[v]

(* The lock of a source.  When another node has it the request is sent to  *)
(* its owner.  One that was delegated already waits, in the rpc loop, for  *)
(* an answer that this loop would have to take: for ever.                  *)
Delegated(c, v) ==
    IF call[c].remote THEN [call[c] EXCEPT !.pc = "stuck"]
    ELSE [call[c] EXCEPT !.remote = TRUE, !.pc = "queued", !.at = GetOwner(c, v)]

LockSource(c) ==
    LET r == call[c]
        v == r.lockVol
    IN  /\ r.pc = "lock"
        /\ \/ /\ Locked(r.at, v, c) /\ (ops[r.at][v] # {} \/ ~Expired(c))
              /\ UNCHANGED <<faults, leaked>>
              /\ Goto(c, CASE r.op = "CreateSnapshot" -> "snapshot"
                           [] r.op = "DeleteSnapshot" -> "remove"
                           [] r.op = "CreateVolume" /\ r.src \in Vol -> "temp"
                           [] OTHER -> "create")
           \/ /\ Works(c)
              /\ ops[r.at][v] = {} /\ v \in exists /\ ~Activatable(r.at, v)
              /\ call' = [call EXCEPT ![c] = Delegated(c, v)]
              /\ UNCHANGED <<lease, owner, ops, leaked>>
           \/ LockFails(c, v) /\ Return(c, FALSE) /\ UNCHANGED ops
        /\ UNCHANGED <<waits, exists, origin, data, told, spoiled, crashes>>

-----------------------------------------------------------------------------
(* CreateVolume: the temporary snapshot, to be cleaned up. *)
Cleanup_Later(c) == call[c].cleanup
Cleanup(c) == call[c].cleanup \cup {IF call[c].pc = "temp" THEN c ELSE call[c].name}

CreateTemporary(c) ==
    LET r == call[c]
    IN  /\ r.pc = "temp"
        /\ \/ /\ Works(c) /\ Active(r.at, r.src)
              /\ LvCreateSnapshot(c, r.src)
              /\ call' = [call EXCEPT ![c].pc = "create", ![c].cleanup = Cleanup(c)]
              /\ UNCHANGED leaked
           \/ /\ NotIssued(c) \/ Fails(c) \/ (Works(c) /\ ~Active(r.at, r.src))
              /\ Return(c, FALSE)
              /\ UNCHANGED <<lvm, leaked>>
           \/ /\ Fails(c) /\ Active(r.at, r.src)
              /\ LvCreateSnapshot(c, r.src)
              /\ Return(c, FALSE)
              /\ leaked' = leaked \cup {c}
        /\ UNCHANGED <<waits, ops, told, spoiled, crashes>>

(* The new volume, to be cleaned up too; or it exists: it is looked up. *)
CreateLv(c) ==
    LET r == call[c]
        v == r.name
    IN  /\ r.pc = "create"
        /\ \/ /\ Works(c) /\ v \in exists
              /\ Goto(c, "existing")
              /\ UNCHANGED <<lvm, spoiled, leaked>>
           \/ /\ Works(c) /\ v \notin exists
              /\ LvCreate(r.at, v)
              /\ call' = [call EXCEPT ![c].pc = "locknew", ![c].cleanup = Cleanup(c)]
              /\ UNCHANGED <<spoiled, leaked>>
           \/ /\ NotIssued(c) \/ Fails(c)
              /\ Return(c, FALSE)
              /\ UNCHANGED <<lvm, spoiled, leaked>>
           \/ /\ Fails(c) /\ v \notin exists
              /\ LvCreate(r.at, v)
              /\ Return(c, FALSE)
              /\ spoiled' = spoiled \cup {v}
              /\ leaked' = leaked \cup {v}
        /\ UNCHANGED <<waits, ops, told, crashes>>

(* What is there is looked up.  A volume of this name, if it is large      *)
(* enough, is taken for the one asked for; a snapshot, new or not, must    *)
(* have the same origin.                                                   *)
Existing(c) ==
    LET r == call[c]
    IN  /\ r.pc = "existing"
        /\ \/ Works(c) /\ Return(c, r.name \in exists /\ (r.name \in Snap => origin[r.name] = r.src))
           \/ (NotIssued(c) \/ Fails(c)) /\ Return(c, FALSE)
        /\ UNCHANGED <<waits, lvm, ops, history, crashes>>

LockNew(c) ==
    LET r == call[c]
        v == r.name
    IN  /\ r.pc = "locknew"
        /\ \/ /\ Locked(r.at, v, c) /\ (ops[r.at][v] # {} \/ ~Expired(c))
              /\ UNCHANGED <<faults, leaked>>
              /\ Goto(c, "fill")
           \/ /\ Works(c)
              /\ ops[r.at][v] = {} /\ ~Activatable(r.at, v)
              /\ Return(c, FALSE)
              /\ UNCHANGED <<lease, owner, ops, leaked>>
           \/ LockFails(c, v) /\ Return(c, FALSE) /\ UNCHANGED ops
        /\ UNCHANGED <<waits, exists, origin, data, told, spoiled, crashes>>

(* The volume is formatted, or the data copied, one half after the other.  *)
(* No context bounds it.  The last step takes the volume off the list of   *)
(* those to clean up.                                                      *)
Content(c, half) == IF call[c].src = None THEN 1 ELSE data[DataVol(c)][half]

Ready(c) ==
    /\ Active(call[c].at, call[c].name)
    /\ call[c].src # None => Active(call[c].at, DataVol(c))

Fill(c) ==
    LET r == call[c]
    IN  /\ \/ /\ r.pc = "fill" /\ Ready(c)
              /\ data' = [data EXCEPT ![r.name] = <<Content(c, 1), @[2]>>]
              /\ Goto(c, "half")
              /\ UNCHANGED faults
           \/ /\ r.pc = "half"
              /\ data' = [data EXCEPT ![r.name] = <<@[1], Content(c, 2)>>]
              /\ call' = [call EXCEPT ![c].pc = "unwind", ![c].ok = TRUE,
                                      ![c].cleanup = @ \ {r.name}]
              /\ UNCHANGED faults
           \/ /\ r.pc = "fill" /\ ~Ready(c)
              /\ Return(c, FALSE)
              /\ UNCHANGED <<data, faults>>
           \/ /\ r.pc \in {"fill", "half"}
              /\ faults < MaxFaults /\ faults' = faults + 1
              /\ Return(c, FALSE)
              /\ UNCHANGED data
        /\ UNCHANGED <<waits, exists, origin, lease, owner, ops, history, crashes>>

-----------------------------------------------------------------------------
(* CreateSnapshot: an error that says that it exists is tolerated. *)
TakeSnapshot(c) ==
    LET r == call[c]
    IN  /\ r.pc = "snapshot"
        /\ \/ /\ Works(c) /\ r.name \in exists
              /\ Goto(c, "existing")
              /\ UNCHANGED lvm
           \/ /\ Works(c) /\ r.name \notin exists /\ Active(r.at, r.src)
              /\ LvCreateSnapshot(r.name, r.src)
              /\ Goto(c, "existing")
           \/ /\ NotIssued(c) \/ Fails(c) \/ (Works(c) /\ ~Active(r.at, r.src))
              /\ Return(c, FALSE)
              /\ UNCHANGED lvm
           \/ /\ Fails(c) /\ r.name \notin exists /\ Active(r.at, r.src)
              /\ LvCreateSnapshot(r.name, r.src)
              /\ Return(c, FALSE)
        /\ UNCHANGED <<waits, ops, history, crashes>>

(* DeleteVolume and DeleteSnapshot: lvremove skips the origin of a         *)
(* snapshot, which the handler finds out by listing the volume.            *)
Selected_All(x) == TRUE
Selected(x) == Snapshots(x) = {}

RemoveNamed(c, after) ==
    LET r == call[c]
        x == r.name
    IN  /\ r.pc = "remove"
        /\ \/ /\ Works(c) /\ x \notin exists
              /\ Return(c, TRUE)
              /\ UNCHANGED lvm
           \/ /\ Works(c) /\ x \in exists /\ ~Selected(x)
              /\ call' = [call EXCEPT ![c] = after]
              /\ UNCHANGED lvm
           \/ /\ Works(c) /\ x \in exists /\ Selected(x) /\ Removable(r.at, x)
              /\ LvRemove(x)
              /\ call' = [call EXCEPT ![c] = after]
           \/ /\ \/ NotIssued(c) \/ Fails(c)
                 \/ Works(c) /\ x \in exists /\ Selected(x) /\ ~Removable(r.at, x)
              /\ Return(c, FALSE)
              /\ UNCHANGED lvm
           \/ /\ Fails(c) /\ x \in exists /\ Selected(x) /\ Removable(r.at, x)
              /\ LvRemove(x)
              /\ Return(c, FALSE)
        /\ UNCHANGED <<waits, ops, history, crashes>>

RemoveVolume(c) ==
    call[c].name \in Vol /\ RemoveNamed(c, [call[c] EXCEPT !.pc = "check"])

RemoveSnapshot(c) ==
    call[c].name \in Snap /\ RemoveNamed(c, [call[c] EXCEPT !.pc = "unwind", !.ok = TRUE])

Gone(x) == x \notin exists

CheckRemoved(c) ==
    /\ call[c].pc = "check"
    /\ \/ Works(c) /\ Return(c, Gone(call[c].name))
       \/ (NotIssued(c) \/ Fails(c)) /\ Return(c, FALSE)
    /\ UNCHANGED <<waits, lvm, ops, history, crashes>>

-----------------------------------------------------------------------------
(* The deferred functions, last registered first: unlock the new volume,   *)
(* unlock the source, remove what is on the clean-up list.  Their errors   *)
(* are logged.                                                             *)
Mine_New(c) == {v \in {call[c].name} \cap Vol : c \in ops[call[c].at][v]}
Mine(c) == {v \in {call[c].name, call[c].lockVol} \cap Vol : c \in ops[call[c].at][v]}

UnlockFirst(c, v) == v = call[c].name \/ call[c].name \notin Mine(c)

(* UnlockVolume: the last operation removes the tags and deactivates. *)
Unlock(c, v) ==
    LET n == call[c].at
        last == ops[n][v] = {c}
    IN  /\ call[c].pc = "unwind"
        /\ v \in Mine(c) /\ UnlockFirst(c, v)
        /\ ops' = [ops EXCEPT ![n][v] = @ \ {c}]
        /\ \/ /\ last => Works(c) /\ Active(n, v)
              /\ ~last => UNCHANGED faults
              /\ lease' = IF last THEN [lease EXCEPT ![v] = None] ELSE lease
              /\ owner' = IF last THEN [owner EXCEPT ![v] = None] ELSE owner
              /\ UNCHANGED leaked
           \/ /\ last
              /\ \/ /\ NotIssued(c) \/ Fails(c) \/ (Works(c) /\ ~Active(n, v))
                    /\ UNCHANGED owner
                 \/ /\ Fails(c) /\ Active(n, v)
                    /\ owner' = [owner EXCEPT ![v] = None]
              /\ leaked' = leaked \cup {v}
              /\ UNCHANGED lease
        /\ UNCHANGED <<call, waits, exists, origin, data, told, spoiled, crashes>>

CleanUp(c, x) ==
    LET n == call[c].at
        done == call' = [call EXCEPT ![c].cleanup = @ \ {x}]
    IN  /\ call[c].pc = "unwind"
        /\ Mine(c) = {}
        /\ x \in call[c].cleanup
        /\ done
        /\ \/ /\ Works(c) /\ x \in exists /\ Removable(n, x)
              /\ LvRemove(x)
              /\ UNCHANGED <<spoiled, leaked>>
           \/ /\ \/ NotIssued(c) \/ Fails(c)
                 \/ Works(c) /\ (x \in exists => ~Removable(n, x))
              /\ spoiled' = spoiled \cup ({x} \cap Vol)
              /\ leaked' = leaked \cup {x}
              /\ UNCHANGED lvm
        /\ UNCHANGED <<waits, ops, told, crashes>>

(* The answer reaches the orchestrator if it still waits for it. *)
Answer(c) ==
    LET r == call[c]
    IN  /\ r.pc = "unwind" /\ Mine(c) = {} /\ r.cleanup = {}
        /\ call' = [call EXCEPT ![c] = Over]
        /\ waits' = waits \ {c}
        /\ told' = IF r.ok /\ c \in waits
                   THEN [told EXCEPT ![r.name] =
                           IF r.op \in {"CreateVolume", "CreateSnapshot"}
                           THEN "created" ELSE "deleted"]
                   ELSE told
        /\ spoiled' = IF r.src \in spoiled THEN spoiled \cup {r.name} ELSE spoiled
        /\ UNCHANGED <<lvm, ops, leaked, faults, crashes>>

-----------------------------------------------------------------------------
(* The node servers stage and unstage volumes, whose workloads write them: *)
(* the first half, then the second.  Only an active volume can be staged.  *)
Stage(n, v) ==
    /\ told[v] = "created" /\ ~Staged(n, v)
    /\ v \in exists /\ Locked(n, v, "stage")
    /\ ops[n][v] # {} => lease[v] = n
    /\ UNCHANGED <<call, waits, exists, origin, data, history, faults, crashes>>

Unstage(n, v) ==
    /\ Staged(n, v)
    /\ ops' = [ops EXCEPT ![n][v] = @ \ {"stage"}]
    /\ lease' = IF ops[n][v] = {"stage"} THEN [lease EXCEPT ![v] = None] ELSE lease
    /\ owner' = IF ops[n][v] = {"stage"} THEN [owner EXCEPT ![v] = None] ELSE owner
    /\ UNCHANGED <<call, waits, exists, origin, data, history, faults, crashes>>

Write(n, v) ==
    /\ Staged(n, v)
    /\ \/ data[v] = <<1, 1>> /\ data' = [data EXCEPT ![v] = <<2, 1>>]
       \/ data[v] = <<2, 1>> /\ data' = [data EXCEPT ![v] = <<2, 2>>]
    /\ UNCHANGED <<call, waits, exists, origin, lease, owner, ops, history, faults, crashes>>

(* The driver of n dies and restarts: its handlers are gone, what was sent *)
(* over the disk rpc is not.  It deactivates the volumes that are not      *)
(* open, and finds the others staged.                                      *)
Crash(n) ==
    LET dead == {c \in Call : Running(c) /\ call[c].at = n /\ call[c].pc # "queued"}
        idle == {v \in Vol : lease[v] = n /\ ~Staged(n, v)}
    IN  /\ crashes < MaxCrashes
        /\ crashes' = crashes + 1
        /\ call' = [c \in Call |-> IF c \in dead
                                   THEN Over ELSE call[c]]
        /\ waits' = waits \ dead
        /\ ops' = [ops EXCEPT ![n] = [v \in Vol |-> @[v] \cap {"stage"}]]
        /\ lease' = [v \in Vol |-> IF v \in idle THEN None ELSE lease[v]]
        /\ owner' = [v \in Vol |-> IF v \in idle THEN None ELSE owner[v]]
        /\ spoiled' = spoiled \cup {call[c].name : c \in dead}
        /\ leaked' = leaked \cup (dead \cap exists)
        /\ UNCHANGED <<exists, origin, data, told, faults>>

Step(c) ==
    \/ HandleRequest(c) \/ LookupSource(c) \/ LookupSnapshot(c) \/ LockSource(c)
    \/ CreateTemporary(c) \/ CreateLv(c) \/ Existing(c) \/ LockNew(c) \/ Fill(c)
    \/ TakeSnapshot(c) \/ RemoveVolume(c) \/ RemoveSnapshot(c) \/ CheckRemoved(c)
    \/ \E v \in Vol : Unlock(c, v)
    \/ \E x \in Vol \cup {c} : CleanUp(c, x)
    \/ Answer(c)

Next ==
    \/ \E n \in Node, c \in Call :
          \/ \E v \in Vol, src \in {None} \cup Name : CreateVolume(n, c, v, src)
          \/ \E v \in Vol : DeleteVolume(n, c, v)
          \/ \E s \in Snap, v \in Vol : CreateSnapshot(n, c, s, v)
          \/ \E s \in Snap : DeleteSnapshot(n, c, s)
    \/ \E c \in Call : Step(c) \/ GiveUp(c)
    \/ \E n \in Node, v \in Used : Stage(n, v) \/ Unstage(n, v) \/ Write(n, v)
    \/ \E n \in Node : Crash(n)

Spec == Init /\ [][Next]_vars

-----------------------------------------------------------------------------
(* A request, with what its handler keeps in local variables. *)
CallRec ==
    [op : {"none", "CreateVolume", "DeleteVolume", "CreateSnapshot", "DeleteSnapshot"},
     name : Name \cup {None}, src : Name \cup {None}, at : Node \cup {None},
     remote : BOOLEAN, lockVol : Vol \cup {None}, cleanup : SUBSET Lv,
     pc : {"new", "lookup", "queued", "stuck", "lock", "temp", "create", "existing",
           "locknew", "fill", "half", "snapshot", "remove", "check", "unwind", "over"},
     ok : BOOLEAN]

(* The shape of the state (controllerserver.go:140-431, 662-819). *)
TypeOK ==
    /\ call \in [Call -> CallRec]
    /\ \A c \in Call : /\ Running(c) => call[c].at \in Node /\ call[c].name \in Name
                       /\ call[c].cleanup \subseteq {c, call[c].name}
    /\ waits \subseteq {c \in Call : Running(c)}
    /\ exists \subseteq Lv
    /\ origin \in [Snap \cup Call -> Vol \cup {None}]
    /\ lease \in [Vol -> Node \cup {None}]
    /\ owner \in [Vol -> Node \cup {None}]
    /\ ops \in [Node -> [Vol -> SUBSET (Call \cup {"stage"})]]
    /\ data \in [Lv -> (0..2) \X (0..2)]
    /\ told \in [Name -> {"nothing", "created", "deleting", "deleted"}]
    /\ spoiled \subseteq Name /\ leaked \subseteq Vol \cup Call
    /\ faults \in 0..MaxFaults /\ crashes \in 0..MaxCrashes

(* "Format the volume if no source is specified, else copy the data"       *)
(* (controllerserver.go:371): a volume that CreateVolume answered for      *)
(* exists and holds all of its content.  Whatever step of an earlier       *)
(* attempt failed, on whatever node, its remains are not taken for the     *)
(* volume, unless that attempt was given up, died, or could not clean up   *)
(* after itself (controllerserver.go:261-273, 341-362, 421).               *)
CreatedIsUsable ==
    \A v \in Vol \ spoiled :
        told[v] = "created" => v \in exists /\ data[v][1] > 0 /\ data[v][2] > 0

(* "we'll create a temporary snapshot to have a consistent data view"      *)
(* (controllerserver.go:299): a clone, a restored volume or a snapshot is  *)
(* the source as it was at one instant, also while a workload writes it.   *)
PointInTime ==
    \A x \in exists \ (spoiled \cup Call) :
        told[x] = "created" => data[x][1] >= data[x][2]

(* A snapshot that was created stays until its deletion is asked for,      *)
(* although the volume it depends on may be deleted, on any node, without  *)
(* a lock; and a volume or a snapshot whose deletion succeeded is gone,    *)
(* also when it is the origin of a snapshot (controllerserver.go:448-470,  *)
(* 726-756, 811-818).                                                      *)
KeptUntilDeleted ==
    /\ \A s \in Snap \ spoiled : told[s] = "created" => s \in exists
    /\ \A x \in Name \ spoiled : told[x] = "deleted" => x \notin exists

(* From the lock of a volume on, its handler keeps it active on its node,  *)
(* through whatever requests and stagings lock and unlock it in between,   *)
(* and what is being copied or formatted is not removed.  A volume that is *)
(* deleted under its lock and made again elsewhere, by a request that was  *)
(* given up, is the exception                                              *)
(* (controllerserver.go:277-296, 364-368; volumelock.go:74-146).           *)
HandlerKeepsLease ==
    \A c \in Call :
        LET r == call[c]
        IN  /\ r.pc \in {"temp", "create", "existing", "locknew", "fill", "half", "snapshot"}
                  => r.lockVol \notin exists \ spoiled \/ lease[r.lockVol] = r.at
            /\ r.pc \in {"fill", "half"}
                  => r.name \notin exists \ spoiled \/ lease[r.name] = r.at
            /\ r.pc = "half" /\ r.src \notin spoiled => Ready(c)

(* A request that is over leaves no temporary snapshot and no lock, so     *)
(* that any node may stage the volume next, unless a command to that       *)
(* effect failed (controllerserver.go:261-296, 364-368, 910-914).          *)
NothingLeftBehind ==
    /\ \A c \in exists \cap Call : Running(c) \/ c \in leaked
    /\ \A v \in Vol \ leaked :
          lease[v] = None \/ Staged(lease[v], v)
          \/ \E c \in Call : Running(c) /\ v \in {call[c].name, call[c].lockVol}
=============================================================================
