------------------------- MODULE ControllerServerProofs -------------------------
(***************************************************************************)
(* Proofs about ControllerServer, for any nodes, volumes, snapshots and    *)
(* requests, any number of faults and of crashes.                          *)
(***************************************************************************)
EXTENDS ControllerServer, TLAPS

(* Where a handler is: before the lock of its source, or with it. *)
Early == {"lookup", "queued", "stuck", "lock"}
Held == {"temp", "create", "existing", "locknew", "fill", "half", "snapshot"}

Creates(c) == call[c].op \in {"CreateVolume", "CreateSnapshot"}
Deletes(c) == call[c].op \in {"DeleteVolume", "DeleteSnapshot"}

EndsWell(c) == call[c].pc = "unwind" /\ call[c].ok

(* The handlers, each with its steps and its arguments. *)
CallShape(c) ==
    LET r == call[c]
    IN  /\ Running(c) =>
              \/ /\ r.op = "CreateVolume" /\ r.name \in Vol
                 /\ r.pc \in Early \cup (Held \ {"snapshot"}) \cup {"unwind"}
                 /\ r.src = None => r.lockVol = None /\ r.pc \notin Early \cup {"temp"}
              \/ /\ r.op = "DeleteVolume" /\ r.name \in Vol
                 /\ r.src = None /\ r.lockVol = None
                 /\ r.pc \in {"remove", "check", "unwind"}
              \/ /\ r.op = "CreateSnapshot" /\ r.name \in Snap /\ r.src \in Vol
                 /\ r.pc \in {"queued", "stuck", "lock", "snapshot", "existing", "unwind"}
              \/ /\ r.op = "DeleteSnapshot" /\ r.name \in Snap /\ r.src = None
                 /\ r.pc \in Early \cup {"remove", "unwind"}
        /\ r.src \in Vol => r.lockVol = r.src
        /\ r.pc \in {"lock", "temp"} => r.lockVol \in Vol
        /\ r.pc = "temp" => r.src \in Vol
        /\ c \in r.cleanup => r.pc \in Held \cup {"unwind"} /\ r.src \in Vol
        /\ r.pc \in {"queued", "stuck"} => r.lockVol \in Vol
        /\ r.pc = "temp" => r.cleanup = {}
        /\ r.name \in r.cleanup =>
              /\ r.op = "CreateVolume"
              /\ r.pc \in {"locknew", "fill", "half"} \/ (r.pc = "unwind" /\ ~r.ok)
        /\ r.pc \in {"locknew", "fill", "half"} => r.name \in r.cleanup
        /\ ~Running(c) => r.cleanup = {}

(* Requests, and what the orchestrator was told. *)
OneWaits ==
    \A c, d \in waits : call[c].name = call[d].name => c = d

UnspoiledWaits ==
    \A c \in Call : Running(c) /\ call[c].name \notin spoiled => c \in waits

CreatorTold ==
    \A c \in waits : Creates(c) => told[call[c].name] \in {"nothing", "created"}

DeleterTold ==
    \A c \in Call :
        Running(c) /\ Deletes(c) => told[call[c].name] \in {"deleting", "deleted"}

SourceTold ==
    \A c \in Call : Running(c) =>
        /\ call[c].src # None => told[call[c].src] # "nothing"
        /\ call[c].lockVol # None => told[call[c].lockVol] # "nothing"

CleanupTold ==
    \A c \in Call :
        call[c].name \in call[c].cleanup \ spoiled => told[call[c].name] = "nothing"

(* The logical volumes. *)
LeaseExists == \A v \in Vol : lease[v] # None => v \in exists

OriginExists ==
    \A x \in exists \ Vol :
        origin[x] \in Vol \cap exists /\ told[origin[x]] # "nothing"

TemporaryOrigin ==
    \A c \in exists \cap Call :
        /\ call[c].pc \in (Held \ {"temp", "snapshot"}) \cup {"unwind", "over"}
        /\ Running(c) => origin[c] = call[c].src

SourceOrigin ==
    \A c \in Call :
        call[c].pc \in Held \cup {"lock"} /\ call[c].src \in (Snap \cap exists) \ spoiled
            => origin[call[c].src] = call[c].lockVol

(* The locks. *)
OpsOfCalls ==
    \A n \in Node, v \in Vol : \A c \in ops[n][v] \cap Call :
        /\ call[c].at = n
        /\ \/ v = call[c].name /\ call[c].pc \in {"fill", "half", "unwind"}
           \/ v = call[c].lockVol /\ call[c].pc \in Held \cup {"remove", "unwind"}

HeldLocks ==
    \A c \in Call :
        /\ call[c].pc \in Held /\ call[c].lockVol # None
              => c \in ops[call[c].at][call[c].lockVol]
        /\ call[c].pc \in {"fill", "half"} => c \in ops[call[c].at][call[c].name]

StagedActive ==
    \A n \in Node, v \in Vol :
        Staged(n, v) => v \in exists /\ lease[v] = n /\ told[v] # "nothing"

LockedActive ==
    \A n \in Node, v \in Vol :
        ops[n][v] # {} /\ v \in exists \ spoiled => lease[v] = n

FilledActive ==
    \A c \in Call : call[c].pc = "half" =>
        /\ call[c].name \in exists /\ lease[call[c].name] = call[c].at
        /\ call[c].src # None => DataVol(c) \in exists
        /\ call[c].src # None /\ call[c].src \notin spoiled
              => lease[call[c].lockVol] = call[c].at

(* What is left behind. *)
TemporaryCleanup ==
    \A c \in exists \cap Call : c \in leaked \/ c \in call[c].cleanup

LeaseCleanup ==
    \A v \in Vol \ leaked : lease[v] # None =>
        \/ ops[lease[v]][v] # {}
        \/ \E c \in Call : call[c].at = lease[v] /\ v \in call[c].cleanup

(* What exists, and what it holds. *)
Good(d) == d[1] >= d[2] /\ d[2] >= 1

CreatedExists ==
    \A x \in Name \ spoiled : told[x] = "created" => x \in exists /\ Good(data[x])

DeletedGone ==
    \A x \in Name \ spoiled : told[x] = "deleted" => x \notin exists

OriginKept ==
    \A s \in Snap \ spoiled : told[s] = "created" =>
        \A c \in Call : origin[s] \notin call[c].cleanup

UntoldIsMade ==
    \A v \in (Vol \cap exists) \ spoiled : told[v] = "nothing" =>
        \E c \in waits : call[c].name = v /\ (v \in call[c].cleanup \/ EndsWell(c))

AnswerHolds ==
    \A c \in Call : EndsWell(c) /\ call[c].name \notin spoiled =>
        /\ Creates(c) /\ call[c].src \notin spoiled =>
              /\ call[c].name \in exists /\ Good(data[call[c].name])
              /\ call[c].name \in Snap => origin[call[c].name] = call[c].src
        /\ Deletes(c) => call[c].name \notin exists

SourceGood ==
    \A c \in Call :
        Running(c) /\ call[c].src \in exists \ spoiled => Good(data[call[c].src])

SnapshotGood ==
    \A s \in (Snap \cap exists) \ spoiled : origin[s] \notin spoiled => Good(data[s])

TemporaryGood ==
    \A c \in exists \cap Call :
        Running(c) /\ call[c].src \notin spoiled => Good(data[c])

HalfIsCopied ==
    \A c \in Call :
        call[c].pc = "half" /\ call[c].name \notin spoiled
            => data[call[c].name][1] = Content(c, 1)

Inv ==
    /\ TypeOK /\ \A c \in Call : CallShape(c)
    /\ OneWaits /\ UnspoiledWaits /\ CreatorTold /\ DeleterTold /\ SourceTold /\ CleanupTold
    /\ LeaseExists /\ OriginExists /\ TemporaryOrigin /\ SourceOrigin
    /\ OpsOfCalls /\ HeldLocks /\ StagedActive /\ LockedActive /\ FilledActive
    /\ TemporaryCleanup /\ LeaseCleanup
    /\ CreatedExists /\ DeletedGone /\ OriginKept /\ UntoldIsMade /\ AnswerHolds
    /\ SourceGood /\ SnapshotGood /\ TemporaryGood /\ HalfIsCopied

-----------------------------------------------------------------------------
(* The kinds of steps that a handler takes. *)
Frame(c) ==
    /\ Running(c) /\ Running(c)'
    /\ call' \in [Call -> CallRec]
    /\ \A d \in Call \ {c} : call'[d] = call[d]
    /\ call'[c].op = call[c].op
    /\ call'[c].name = call[c].name
    /\ call'[c].src = call[c].src
    /\ call'[c].at \in Node
    /\ call[c].pc \notin Early => call'[c].at = call[c].at /\ call'[c].lockVol = call[c].lockVol
    /\ call'[c].cleanup \subseteq {c, call[c].name}
    /\ UNCHANGED <<waits, told, crashes>>
    /\ spoiled \subseteq spoiled' /\ spoiled' \subseteq Name
    /\ leaked \subseteq leaked' /\ leaked' \subseteq Vol \cup Call
    /\ faults' \in 0..MaxFaults

(* A look-up, a return, a command without effect. *)
Moves(c) ==
    LET r == call[c]
        q == call'[c]
    IN  /\ UNCHANGED <<lvm, ops>>
        /\ q.cleanup \subseteq r.cleanup
        /\ \A x \in r.cleanup \ q.cleanup : x \in leaked' /\ (x \in Vol => x \in spoiled')
        /\ r.pc \in Early => q.pc \in Early \cup {"unwind"}
        /\ r.pc \notin Early => q.pc \in {"existing", "check", "unwind"}
        /\ q.pc = "existing" => r.pc \in {"create", "snapshot"}
        /\ q.pc = "check" => r.op = "DeleteVolume"
        /\ r.pc = "unwind" => q.pc = "unwind" /\ q.ok = r.ok
        /\ \/ q.lockVol = r.lockVol /\ (q.pc = "lock" => r.src \notin Snap)
           \/ /\ q.pc = "lock"
              /\ \E x \in exists \cap {r.src, r.name} \cap Name :
                    q.lockVol = Base(x) /\ (r.src # None => x = r.src)
        /\ q.pc = "unwind" /\ q.ok =>
              \/ r.pc = "unwind"
              \/ /\ Creates(c) /\ r.pc = "existing" /\ r.name \in exists
                 /\ r.name \in Snap => origin[r.name] = r.src
              \/ Deletes(c) /\ r.name \notin exists

(* LockVolume, and one that fails with its effect. *)
Takes(c, v) ==
    LET r == call[c]
        q == call'[c]
    IN  /\ Locked(r.at, v, c)
        /\ UNCHANGED <<exists, origin, data, spoiled, leaked>>
        /\ q.at = r.at /\ q.lockVol = r.lockVol /\ q.cleanup = r.cleanup
        /\ \/ r.pc = "lock" /\ v = r.lockVol /\ q.pc \in {"snapshot", "remove", "temp", "create"}
           \/ r.pc = "locknew" /\ v = r.name /\ q.pc = "fill"

Activates(c, v) ==
    LET r == call[c]
        q == call'[c]
    IN  /\ ops[r.at][v] = {} /\ Activatable(r.at, v)
        /\ lease' = [lease EXCEPT ![v] = r.at]
        /\ owner' \in {owner, [owner EXCEPT ![v] = r.at]}
        /\ leaked' = leaked \cup {v}
        /\ UNCHANGED <<exists, origin, data, ops, spoiled>>
        /\ r.pc \in {"lock", "locknew"} /\ q.pc = "unwind" /\ ~q.ok
        /\ q.at = r.at /\ q.lockVol = r.lockVol /\ q.cleanup = r.cleanup

(* lvremove, lvcreate of a snapshot, and of a volume. *)
Removes(c, x) ==
    LET r == call[c]
        q == call'[c]
    IN  /\ x \in exists /\ Removable(r.at, x) /\ LvRemove(x)
        /\ UNCHANGED <<ops, spoiled, leaked>>
        /\ \/ /\ r.pc = "remove" /\ x = r.name /\ Selected(x)
              /\ q.pc \in {"check", "unwind"} /\ q.cleanup = r.cleanup
              /\ q.pc = "check" => r.op = "DeleteVolume"
           \/ /\ r.pc = "unwind" /\ x \in r.cleanup
              /\ q.pc = "unwind" /\ q.ok = r.ok /\ q.cleanup = r.cleanup \ {x}

Snaps(c, x) ==
    LET r == call[c]
        q == call'[c]
    IN  /\ Active(r.at, r.src) /\ r.src \in Vol /\ LvCreateSnapshot(x, r.src)
        /\ UNCHANGED <<ops, spoiled>>
        /\ \/ /\ r.pc = "temp" /\ x = c
              /\ \/ q.pc = "create" /\ q.cleanup = {c}
                 \/ q.pc = "unwind" /\ ~q.ok /\ q.cleanup = r.cleanup /\ c \in leaked'
           \/ /\ r.pc = "snapshot" /\ x = r.name /\ x \in Snap /\ x \notin exists
              /\ q.pc = "existing" \/ (q.pc = "unwind" /\ ~q.ok)
              /\ q.cleanup = r.cleanup

Makes(c) ==
    LET r == call[c]
        q == call'[c]
    IN  /\ r.pc = "create" /\ r.name \in Vol \ exists /\ LvCreate(r.at, r.name)
        /\ UNCHANGED ops
        /\ \/ /\ q.pc = "locknew" /\ q.cleanup = r.cleanup \cup {r.name}
              /\ UNCHANGED <<spoiled, leaked>>
           \/ /\ q.pc = "unwind" /\ ~q.ok /\ q.cleanup = r.cleanup
              /\ r.name \in spoiled' \cap leaked'

(* mkfs, or the copy: its first half, and its second. *)
FillsFirst(c) ==
    LET r == call[c]
    IN  /\ r.pc = "fill" /\ call'[c].pc = "half" /\ call'[c].cleanup = r.cleanup
        /\ r.name \in Vol /\ Ready(c)
        /\ data' = [data EXCEPT ![r.name] = <<Content(c, 1), @[2]>>]
        /\ UNCHANGED <<exists, origin, lease, owner, ops, spoiled, leaked>>

FillsSecond(c) ==
    LET r == call[c]
    IN  /\ r.pc = "half" /\ call'[c].pc = "unwind" /\ call'[c].ok
        /\ call'[c].cleanup = r.cleanup \ {r.name}
        /\ r.name \in Vol
        /\ data' = [data EXCEPT ![r.name] = <<@[1], Content(c, 2)>>]
        /\ UNCHANGED <<exists, origin, lease, owner, ops, spoiled, leaked>>

HandlerStep(c) ==
    /\ Frame(c) /\ CallShape(c)'
    /\ \/ Moves(c)
       \/ \E v \in Vol : Takes(c, v) \/ Activates(c, v)
       \/ \E x \in Lv : Removes(c, x)
       \/ \E x \in Snap \cup {c} : Snaps(c, x)
       \/ Makes(c) \/ FillsFirst(c) \/ FillsSecond(c)

-----------------------------------------------------------------------------
(* A request's record, after the assignments that handlers make to it. *)
LEMMA UpdatePc ==
    ASSUME call \in [Call -> CallRec], NEW c \in Call, NEW step, Goto(c, step),
           step \in {"lookup", "queued", "stuck", "lock", "temp", "create", "existing",
                     "locknew", "fill", "half", "snapshot", "remove", "check", "unwind"}
    PROVE  /\ call' \in [Call -> CallRec]
           /\ \A d \in Call \ {c} : call'[d] = call[d]
           /\ call'[c].op = call[c].op /\ call'[c].name = call[c].name
           /\ call'[c].src = call[c].src /\ call'[c].at = call[c].at
           /\ call'[c].remote = call[c].remote /\ call'[c].lockVol = call[c].lockVol
           /\ call'[c].cleanup = call[c].cleanup /\ call'[c].ok = call[c].ok
           /\ call'[c].pc = step
    BY DEF Goto, CallRec

(* A return. *)
LEMMA UpdateReturn ==
    ASSUME call \in [Call -> CallRec], NEW c \in Call, NEW ok \in BOOLEAN, Return(c, ok)
    PROVE  /\ call' \in [Call -> CallRec]
           /\ \A d \in Call \ {c} : call'[d] = call[d]
           /\ call'[c].op = call[c].op /\ call'[c].name = call[c].name
           /\ call'[c].src = call[c].src /\ call'[c].at = call[c].at
           /\ call'[c].remote = call[c].remote /\ call'[c].lockVol = call[c].lockVol
           /\ call'[c].cleanup = call[c].cleanup
           /\ call'[c].pc = "unwind" /\ call'[c].ok = ok
    BY DEF Return, CallRec

(* A step that changes the list of what is to be cleaned up. *)
Lists(c, step, set) == call' = [call EXCEPT ![c].pc = step, ![c].cleanup = set]

Unlists(c, ok, x) ==
    call' = [call EXCEPT ![c].pc = "unwind", ![c].ok = ok, ![c].cleanup = @ \ {x}]

(* What is created is listed. *)
LEMMA UpdateCleanup ==
    ASSUME call \in [Call -> CallRec], NEW c \in Call, NEW set \in SUBSET Lv, NEW step,
           step \in {"create", "locknew"}, Lists(c, step, set)
    PROVE  /\ call' \in [Call -> CallRec]
           /\ \A d \in Call \ {c} : call'[d] = call[d]
           /\ call'[c].op = call[c].op /\ call'[c].name = call[c].name
           /\ call'[c].src = call[c].src /\ call'[c].at = call[c].at
           /\ call'[c].remote = call[c].remote /\ call'[c].lockVol = call[c].lockVol
           /\ call'[c].cleanup = set /\ call'[c].ok = call[c].ok
           /\ call'[c].pc = step
<1> DEFINE r == call[c]
           q == [r EXCEPT !.pc = step, !.cleanup = set]
<1>1. r \in CallRec
    OBVIOUS
<1>2. q \in CallRec /\ call' = [call EXCEPT ![c] = q]
    BY <1>1 DEF CallRec, Lists
<1> QED
    BY <1>1, <1>2 DEF CallRec

(* One that takes something off it. *)
LEMMA UpdateDone ==
    ASSUME call \in [Call -> CallRec], NEW c \in Call, NEW x, NEW ok \in BOOLEAN,
           Unlists(c, ok, x)
    PROVE  /\ call' \in [Call -> CallRec]
           /\ \A d \in Call \ {c} : call'[d] = call[d]
           /\ call'[c].op = call[c].op /\ call'[c].name = call[c].name
           /\ call'[c].src = call[c].src /\ call'[c].at = call[c].at
           /\ call'[c].remote = call[c].remote /\ call'[c].lockVol = call[c].lockVol
           /\ call'[c].cleanup = call[c].cleanup \ {x} /\ call'[c].ok = ok
           /\ call'[c].pc = "unwind"
<1> DEFINE r == call[c]
           q == [r EXCEPT !.pc = "unwind", !.ok = ok, !.cleanup = @ \ {x}]
<1>1. r \in CallRec
    OBVIOUS
<1>2. r.cleanup \ {x} \in SUBSET Lv
    BY <1>1 DEF CallRec
<1>3. q \in CallRec /\ call' = [call EXCEPT ![c] = q]
    BY <1>1, <1>2 DEF CallRec, Unlists
<1> QED
    BY <1>1, <1>3 DEF CallRec

(* Faults are counted. *)
LEMMA FaultsType ==
    ASSUME TypeOK, NEW c \in Call, Works(c) \/ NotIssued(c) \/ Fails(c)
    PROVE  faults' \in 0..MaxFaults
    BY ControllerServerAssumption DEF TypeOK, Works, NotIssued, Fails

(* A step of a handler that changes nothing but its request. *)
Quietly == UNCHANGED <<lvm, ops, waits, told, spoiled, leaked, crashes>>

(* A return is a move. *)
LEMMA ReturnMoves ==
    ASSUME TypeOK, NEW c \in Call, CallShape(c), Running(c), call[c].pc # "unwind",
           NEW ok \in BOOLEAN, Return(c, ok), Quietly, faults' \in 0..MaxFaults,
           ok => \/ /\ Creates(c) /\ call[c].pc = "existing" /\ call[c].name \in exists
                    /\ call[c].name \in Snap => origin[call[c].name] = call[c].src
                 \/ Deletes(c) /\ call[c].name \notin exists
    PROVE  HandlerStep(c)
<1> DEFINE r == call[c]
           q == call'[c]
<1>1. /\ call' \in [Call -> CallRec]
      /\ \A d \in Call \ {c} : call'[d] = call[d]
      /\ q.op = r.op /\ q.name = r.name /\ q.src = r.src /\ q.at = r.at
      /\ q.lockVol = r.lockVol /\ q.cleanup = r.cleanup /\ q.pc = "unwind" /\ q.ok = ok
    BY UpdateReturn DEF TypeOK
<1>2. Frame(c)
    BY <1>1 DEF Frame, Quietly, TypeOK, Running
<1>3. CallShape(c)'
    BY <1>1 DEF CallShape, Running, Early, Held, Creates, Deletes
<1>4. Moves(c)
    BY <1>1 DEF Moves, Quietly, CallShape, Running
<1> QED
    BY <1>2, <1>3, <1>4 DEF HandlerStep

(* The look-ups. *)
LEMMA HandleRequestKind ==
    ASSUME TypeOK, NEW c \in Call, CallShape(c), HandleRequest(c)
    PROVE  HandlerStep(c)
<1> DEFINE r == call[c]
           q == call'[c]
           step == FirstStep(r.op, r.src)
<1>1. r.pc = "queued" /\ Running(c) /\ Goto(c, step) /\ Quietly /\ UNCHANGED faults
    BY DEF HandleRequest, Quietly, history, Running
<1>2. \/ step = "lookup" /\ r.op \in {"CreateVolume", "DeleteSnapshot"}
      \/ step = "lock" /\ r.op = "CreateSnapshot" /\ r.src \in Vol
    BY <1>1 DEF CallShape, FirstStep, Early, Held
<1>3. /\ call' \in [Call -> CallRec]
      /\ \A d \in Call \ {c} : call'[d] = call[d]
      /\ q.op = r.op /\ q.name = r.name /\ q.src = r.src /\ q.at = r.at
      /\ q.lockVol = r.lockVol /\ q.cleanup = r.cleanup /\ q.pc = step /\ q.ok = r.ok
    BY <1>1, <1>2, UpdatePc DEF TypeOK
<1>4. Frame(c)
    BY <1>1, <1>2, <1>3 DEF Frame, Quietly, TypeOK, Running
<1>5. CallShape(c)'
    BY <1>1, <1>2, <1>3 DEF CallShape, Running, Early, Held
<1>6. Moves(c)
    BY <1>1, <1>2, <1>3, ControllerServerAssumption DEF Moves, Quietly, Early
<1> QED
    BY <1>4, <1>5, <1>6 DEF HandlerStep

(* A look-up takes the volume to lock from the metadata. *)
LEMMA FetchKind ==
    ASSUME TypeOK, OriginExists, NEW c \in Call, CallShape(c), call[c].pc = "lookup",
           NEW x, NEW missing \in BOOLEAN, Fetch(c, x, missing),
           \/ call[c].op = "CreateVolume" /\ x = call[c].src /\ ~missing
           \/ call[c].op = "DeleteSnapshot" /\ x = call[c].name
    PROVE  HandlerStep(c)
<1> DEFINE r == call[c]
           q == call'[c]
<1>0. Running(c) /\ Quietly /\ faults' \in 0..MaxFaults
    BY FaultsType DEF Running, Quietly, Fetch, history
<1>1. ASSUME NEW ok \in BOOLEAN, Return(c, ok), ok => r.op = "DeleteSnapshot" /\ x \notin exists
      PROVE  HandlerStep(c)
    BY <1>0, <1>1, ReturnMoves DEF Deletes
<1>2. ASSUME x \in exists, call' = [call EXCEPT ![c].lockVol = Base(x), ![c].pc = "lock"]
      PROVE  HandlerStep(c)
    <2>1. x \in Name /\ (r.op = "CreateVolume" => r.src # None) /\ (r.op # "CreateVolume" => r.src = None)
        BY DEF CallShape, Running, Early, TypeOK, CallRec, Name
    <2>2. Base(x) \in Vol
        BY <1>2, <2>1, ControllerServerAssumption DEF Base, OriginExists, Name
    <2>3. /\ call' \in [Call -> CallRec]
          /\ \A d \in Call \ {c} : call'[d] = call[d]
          /\ q.op = r.op /\ q.name = r.name /\ q.src = r.src /\ q.at = r.at
          /\ q.lockVol = Base(x) /\ q.cleanup = r.cleanup /\ q.pc = "lock" /\ q.ok = r.ok
        BY <1>2, <2>2 DEF TypeOK, CallRec
    <2>4. Frame(c)
        BY <1>0, <2>3 DEF Frame, Quietly, TypeOK, Running, Early
    <2>5. r.src \in Vol => Base(x) = r.src
        BY <2>1, ControllerServerAssumption DEF Base, TypeOK, CallRec
    <2>6. CallShape(c)'
        BY <1>0, <2>2, <2>3, <2>5 DEF CallShape, Running, Early, Held
    <2>7. Moves(c)
        <3>1. x \in exists \cap {r.src, r.name} \cap Name /\ (r.src # None => x = r.src)
            BY <1>2, <2>1
        <3>2. \E y \in exists \cap {r.src, r.name} \cap Name :
                    q.lockVol = Base(y) /\ (r.src # None => y = r.src)
            BY <2>3, <3>1
        <3> QED
            BY <1>0, <2>3, <3>2 DEF Moves, Quietly, Early
    <2> QED
        BY <2>4, <2>6, <2>7 DEF HandlerStep
<1> QED
    BY <1>1, <1>2 DEF Fetch

(* The locks of a source, and of a new volume. *)
LEMMA LockFailsKind ==
    ASSUME TypeOK, NEW c \in Call, CallShape(c), NEW v \in Vol, LockFails(c, v),
           Return(c, FALSE), call[c].pc \in {"lock", "locknew"},
           UNCHANGED <<ops, waits, exists, origin, data, told, spoiled, crashes>>
    PROVE  HandlerStep(c)
<1> DEFINE r == call[c]
           q == call'[c]
<1>0. Running(c) /\ faults' \in 0..MaxFaults
    BY FaultsType DEF Running, LockFails
<1>1. CASE UNCHANGED <<lease, owner, leaked>>
    <2>1. Quietly
        BY <1>1 DEF Quietly, lvm
    <2> QED
        BY <1>0, <2>1, ReturnMoves
<1>2. CASE ~UNCHANGED <<lease, owner, leaked>>
    <2>1. /\ ops[r.at][v] = {} /\ Activatable(r.at, v)
          /\ lease' = [lease EXCEPT ![v] = r.at]
          /\ owner' \in {owner, [owner EXCEPT ![v] = r.at]}
          /\ leaked' = leaked \cup {v}
        BY <1>2 DEF LockFails
    <2>2. /\ call' \in [Call -> CallRec]
          /\ \A d \in Call \ {c} : call'[d] = call[d]
          /\ q.op = r.op /\ q.name = r.name /\ q.src = r.src /\ q.at = r.at
          /\ q.lockVol = r.lockVol /\ q.cleanup = r.cleanup /\ q.pc = "unwind" /\ q.ok = FALSE
        BY UpdateReturn DEF TypeOK
    <2>3. Frame(c)
        BY <1>0, <2>1, <2>2 DEF Frame, TypeOK, Running
    <2>4. CallShape(c)'
        BY <1>0, <2>2 DEF CallShape, Running, Early, Held
    <2>5. Activates(c, v)
        BY <2>1, <2>2 DEF Activates
    <2> QED
        BY <2>3, <2>4, <2>5 DEF HandlerStep
<1> QED
    BY <1>1, <1>2

(* The lock of a source leads on, to the owner of the source, or back. *)
LEMMA LockSourceKind ==
    ASSUME TypeOK, NEW c \in Call, CallShape(c), LockSource(c)
    PROVE  HandlerStep(c)
<1> DEFINE r == call[c]
           q == call'[c]
           v == r.lockVol
<1>0. Running(c) /\ r.pc = "lock" /\ v \in Vol /\ UNCHANGED <<waits, exists, origin, data, told, spoiled, crashes>>
    BY DEF LockSource, Running, CallShape
<1>1. ASSUME Locked(r.at, v, c), UNCHANGED <<faults, leaked>>,
             Goto(c, CASE r.op = "CreateSnapshot" -> "snapshot"
                       [] r.op = "DeleteSnapshot" -> "remove"
                       [] r.op = "CreateVolume" /\ r.src \in Vol -> "temp"
                       [] OTHER -> "create")
      PROVE  HandlerStep(c)
    <2>1. PICK step : /\ Goto(c, step)
                      /\ \/ r.op = "CreateSnapshot" /\ step = "snapshot"
                         \/ r.op = "DeleteSnapshot" /\ step = "remove"
                         \/ r.op = "CreateVolume" /\ r.src \in Vol /\ step = "temp"
                         \/ r.op = "CreateVolume" /\ r.src \notin Vol /\ step = "create"
        BY <1>0, <1>1 DEF CallShape
    <2>2. /\ call' \in [Call -> CallRec]
          /\ \A d \in Call \ {c} : call'[d] = call[d]
          /\ q.op = r.op /\ q.name = r.name /\ q.src = r.src /\ q.at = r.at
          /\ q.lockVol = r.lockVol /\ q.cleanup = r.cleanup /\ q.pc = step /\ q.ok = r.ok
        BY <2>1, UpdatePc DEF TypeOK
    <2>3. Frame(c)
        BY <1>0, <1>1, <2>1, <2>2 DEF Frame, TypeOK, Running, Early
    <2>4. CallShape(c)'
        <3>1. r.cleanup = {}
            <4>1. c \notin r.cleanup /\ r.name \notin r.cleanup
                BY <1>0 DEF CallShape, Held
            <4>2. r.cleanup \subseteq {c, r.name}
                BY DEF TypeOK
            <4> QED
                BY <4>1, <4>2
        <3> QED
            BY <1>0, <2>1, <2>2, <3>1 DEF CallShape, Running, Early, Held
    <2>5. Takes(c, v)
        BY <1>0, <1>1, <2>1, <2>2 DEF Takes
    <2> QED
        BY <1>0, <2>3, <2>4, <2>5 DEF HandlerStep
<1>2. ASSUME Works(c), v \in exists, ~Activatable(r.at, v), call' = [call EXCEPT ![c] = Delegated(c, v)],
             UNCHANGED <<lease, owner, ops, leaked>>
      PROVE  HandlerStep(c)
    <2>0. Quietly /\ faults' \in 0..MaxFaults
        BY <1>0, <1>2, FaultsType DEF Quietly, lvm
    <2>1. r \in CallRec /\ r.at \in Node /\ GetOwner(c, v) \in Node
        BY <1>0 DEF TypeOK, GetOwner
    <2>2. /\ call' \in [Call -> CallRec]
          /\ \A d \in Call \ {c} : call'[d] = call[d]
          /\ q.op = r.op /\ q.name = r.name /\ q.src = r.src /\ q.at \in Node
          /\ q.lockVol = r.lockVol /\ q.cleanup = r.cleanup /\ q.pc \in {"queued", "stuck"} /\ q.ok = r.ok
        BY <1>2, <2>1 DEF TypeOK, CallRec, Delegated
    <2>3. Frame(c)
        BY <1>0, <2>0, <2>2 DEF Frame, TypeOK, Running, Early, Quietly
    <2>4. CallShape(c)'
        BY <1>0, <2>2 DEF CallShape, Running, Early, Held
    <2>5. Moves(c)
        BY <1>0, <2>0, <2>2 DEF Moves, Quietly, Early
    <2> QED
        BY <2>3, <2>4, <2>5 DEF HandlerStep
<1>3. ASSUME LockFails(c, v), Return(c, FALSE), UNCHANGED ops PROVE HandlerStep(c)
    BY <1>0, <1>3, LockFailsKind
<1> QED
    BY <1>1, <1>2, <1>3 DEF LockSource

(* The lock of a new volume. *)
LEMMA LockNewKind ==
    ASSUME TypeOK, NEW c \in Call, CallShape(c), LockNew(c)
    PROVE  HandlerStep(c)
<1> DEFINE r == call[c]
           q == call'[c]
           v == r.name
<1>0. Running(c) /\ r.pc = "locknew" /\ v \in Vol /\ UNCHANGED <<waits, exists, origin, data, told, spoiled, crashes>>
    BY DEF LockNew, Running, CallShape, Early
<1>1. ASSUME Locked(r.at, v, c), UNCHANGED <<faults, leaked>>, Goto(c, "fill")
      PROVE  HandlerStep(c)
    <2>2. /\ call' \in [Call -> CallRec]
          /\ \A d \in Call \ {c} : call'[d] = call[d]
          /\ q.op = r.op /\ q.name = r.name /\ q.src = r.src /\ q.at = r.at
          /\ q.lockVol = r.lockVol /\ q.cleanup = r.cleanup /\ q.pc = "fill" /\ q.ok = r.ok
        BY <1>1, UpdatePc DEF TypeOK
    <2>3. Frame(c)
        BY <1>0, <1>1, <2>2 DEF Frame, TypeOK, Running
    <2>4. CallShape(c)'
        BY <1>0, <2>2 DEF CallShape, Running, Early, Held
    <2>5. Takes(c, v)
        BY <1>0, <1>1, <2>2 DEF Takes
    <2> QED
        BY <1>0, <2>3, <2>4, <2>5 DEF HandlerStep
<1>2. ASSUME Works(c), Return(c, FALSE), UNCHANGED <<lease, owner, ops, leaked>>
      PROVE  HandlerStep(c)
    <2>1. Quietly /\ faults' \in 0..MaxFaults
        BY <1>0, <1>2, FaultsType DEF Quietly, lvm
    <2> QED
        BY <1>0, <1>2, <2>1, ReturnMoves
<1>3. ASSUME LockFails(c, v), Return(c, FALSE), UNCHANGED ops PROVE HandlerStep(c)
    BY <1>0, <1>3, LockFailsKind
<1> QED
    BY <1>1, <1>2, <1>3 DEF LockNew

(* The commands that create. *)
LEMMA CreateTemporaryKind ==
    ASSUME TypeOK, NEW c \in Call, CallShape(c), CreateTemporary(c)
    PROVE  HandlerStep(c)
<1> DEFINE r == call[c]
           q == call'[c]
<1>0. /\ Running(c) /\ r.pc = "temp" /\ r.src \in Vol /\ r.cleanup = {} /\ r.op = "CreateVolume"
      /\ UNCHANGED <<waits, ops, told, spoiled, crashes>>
      /\ faults' \in 0..MaxFaults
    BY FaultsType DEF CreateTemporary, Running, CallShape, Early
<1>1. ASSUME Active(r.at, r.src), LvCreateSnapshot(c, r.src), UNCHANGED leaked,
             call' = [call EXCEPT ![c].pc = "create", ![c].cleanup = Cleanup(c)]
      PROVE  HandlerStep(c)
    <2>1. Cleanup(c) = {c}
        BY <1>0 DEF Cleanup
    <2>2. /\ call' \in [Call -> CallRec]
          /\ \A d \in Call \ {c} : call'[d] = call[d]
          /\ q.op = r.op /\ q.name = r.name /\ q.src = r.src /\ q.at = r.at
          /\ q.lockVol = r.lockVol /\ q.cleanup = {c} /\ q.pc = "create" /\ q.ok = r.ok
        <3>1. Lists(c, "create", {c}) /\ {c} \in SUBSET Lv
            BY <1>1, <2>1 DEF Lists, Lv
        <3> QED
            BY <3>1, UpdateCleanup DEF TypeOK
    <2>3. Frame(c)
        BY <1>0, <1>1, <2>2 DEF Frame, TypeOK, Running
    <2>4. CallShape(c)'
        <3>1. c # r.name
            BY <1>0, ControllerServerAssumption DEF CallShape
        <3> QED
            BY <1>0, <2>2, <3>1, ControllerServerAssumption DEF CallShape, Running, Early, Held
    <2>5. Snaps(c, c)
        BY <1>0, <1>1, <2>2 DEF Snaps
    <2> QED
        BY <2>3, <2>4, <2>5 DEF HandlerStep
<1>2. ASSUME Return(c, FALSE), UNCHANGED <<lvm, leaked>> PROVE HandlerStep(c)
    <2>1. Quietly
        BY <1>0, <1>2 DEF Quietly
    <2> QED
        BY <1>0, <1>2, <2>1, ReturnMoves
<1>3. ASSUME Active(r.at, r.src), LvCreateSnapshot(c, r.src), Return(c, FALSE),
             leaked' = leaked \cup {c}
      PROVE  HandlerStep(c)
    <2>2. /\ call' \in [Call -> CallRec]
          /\ \A d \in Call \ {c} : call'[d] = call[d]
          /\ q.op = r.op /\ q.name = r.name /\ q.src = r.src /\ q.at = r.at
          /\ q.lockVol = r.lockVol /\ q.cleanup = r.cleanup /\ q.pc = "unwind" /\ q.ok = FALSE
        BY <1>3, UpdateReturn DEF TypeOK
    <2>3. Frame(c)
        BY <1>0, <1>3, <2>2 DEF Frame, TypeOK, Running
    <2>4. CallShape(c)'
        BY <1>0, <2>2 DEF CallShape, Running, Early, Held
    <2>5. Snaps(c, c)
        BY <1>0, <1>3, <2>2 DEF Snaps
    <2> QED
        BY <2>3, <2>4, <2>5 DEF HandlerStep
<1> QED
    BY <1>1, <1>2, <1>3 DEF CreateTemporary

(* The new volume. *)
LEMMA CreateLvKind ==
    ASSUME TypeOK, NEW c \in Call, CallShape(c), CreateLv(c)
    PROVE  HandlerStep(c)
<1> DEFINE r == call[c]
           q == call'[c]
<1>0. /\ Running(c) /\ r.pc = "create" /\ r.op = "CreateVolume" /\ r.name \in Vol
      /\ UNCHANGED <<waits, ops, told, crashes>>
      /\ faults' \in 0..MaxFaults
    BY FaultsType DEF CreateLv, Running, CallShape, Early
<1>1. ASSUME Goto(c, "existing"), UNCHANGED <<lvm, spoiled, leaked>> PROVE HandlerStep(c)
    <2>1. Quietly
        BY <1>0, <1>1 DEF Quietly
    <2>2. /\ call' \in [Call -> CallRec]
          /\ \A d \in Call \ {c} : call'[d] = call[d]
          /\ q.op = r.op /\ q.name = r.name /\ q.src = r.src /\ q.at = r.at
          /\ q.lockVol = r.lockVol /\ q.cleanup = r.cleanup /\ q.pc = "existing" /\ q.ok = r.ok
        BY <1>1, UpdatePc DEF TypeOK
    <2>3. Frame(c)
        BY <1>0, <2>1, <2>2 DEF Frame, Quietly, TypeOK, Running
    <2>4. CallShape(c)'
        BY <1>0, <2>2 DEF CallShape, Running, Early, Held
    <2>5. Moves(c)
        BY <1>0, <2>1, <2>2 DEF Moves, Quietly, Early
    <2> QED
        BY <2>3, <2>4, <2>5 DEF HandlerStep
<1>2. ASSUME r.name \notin exists, LvCreate(r.at, r.name), UNCHANGED <<spoiled, leaked>>,
             call' = [call EXCEPT ![c].pc = "locknew", ![c].cleanup = Cleanup(c)]
      PROVE  HandlerStep(c)
    <2>1. Cleanup(c) = r.cleanup \cup {r.name} /\ Cleanup(c) \subseteq {c, r.name}
        BY <1>0 DEF Cleanup, TypeOK
    <2>2. /\ call' \in [Call -> CallRec]
          /\ \A d \in Call \ {c} : call'[d] = call[d]
          /\ q.op = r.op /\ q.name = r.name /\ q.src = r.src /\ q.at = r.at
          /\ q.lockVol = r.lockVol /\ q.cleanup = Cleanup(c) /\ q.pc = "locknew" /\ q.ok = r.ok
        <3>1. Lists(c, "locknew", Cleanup(c)) /\ Cleanup(c) \in SUBSET Lv
            BY <1>0, <1>2, <2>1 DEF Lists, Lv, Name
        <3> QED
            BY <3>1, UpdateCleanup DEF TypeOK
    <2>3. Frame(c)
        BY <1>0, <1>2, <2>1, <2>2 DEF Frame, TypeOK, Running
    <2>4. CallShape(c)'
        <3>1. c \in q.cleanup => c \in r.cleanup
            BY <1>0, <2>1, <2>2, ControllerServerAssumption
        <3> QED
            BY <1>0, <2>1, <2>2, <3>1 DEF CallShape, Running, Early, Held
    <2>5. Makes(c)
        BY <1>0, <1>2, <2>1, <2>2 DEF Makes
    <2> QED
        BY <2>3, <2>4, <2>5 DEF HandlerStep
<1>3. ASSUME Return(c, FALSE), UNCHANGED <<lvm, spoiled, leaked>> PROVE HandlerStep(c)
    <2>1. Quietly
        BY <1>0, <1>3 DEF Quietly
    <2> QED
        BY <1>0, <1>3, <2>1, ReturnMoves
<1>4. ASSUME r.name \notin exists, LvCreate(r.at, r.name), Return(c, FALSE),
             spoiled' = spoiled \cup {r.name}, leaked' = leaked \cup {r.name}
      PROVE  HandlerStep(c)
    <2>2. /\ call' \in [Call -> CallRec]
          /\ \A d \in Call \ {c} : call'[d] = call[d]
          /\ q.op = r.op /\ q.name = r.name /\ q.src = r.src /\ q.at = r.at
          /\ q.lockVol = r.lockVol /\ q.cleanup = r.cleanup /\ q.pc = "unwind" /\ q.ok = FALSE
        BY <1>4, UpdateReturn DEF TypeOK
    <2>3. Frame(c)
        BY <1>0, <1>4, <2>2 DEF Frame, TypeOK, Running, Name
    <2>4. CallShape(c)'
        BY <1>0, <2>2 DEF CallShape, Running, Early, Held
    <2>5. Makes(c)
        BY <1>0, <1>4, <2>2 DEF Makes
    <2> QED
        BY <2>3, <2>4, <2>5 DEF HandlerStep
<1> QED
    BY <1>1, <1>2, <1>3, <1>4 DEF CreateLv

(* What was found is looked at. *)
LEMMA ExistingKind ==
    ASSUME TypeOK, NEW c \in Call, CallShape(c), Existing(c)
    PROVE  HandlerStep(c)
<1> DEFINE r == call[c]
           found == r.name \in exists /\ (r.name \in Snap => origin[r.name] = r.src)
<1>0. Running(c) /\ r.pc = "existing" /\ Creates(c) /\ Quietly /\ faults' \in 0..MaxFaults
    BY FaultsType DEF Existing, Running, CallShape, Early, Creates, Quietly, history
<1>1. ASSUME Return(c, found) PROVE HandlerStep(c)
    BY <1>0, <1>1, ReturnMoves
<1>2. ASSUME Return(c, FALSE) PROVE HandlerStep(c)
    BY <1>0, <1>2, ReturnMoves
<1> QED
    BY <1>1, <1>2 DEF Existing

(* The new snapshot. *)
LEMMA TakeSnapshotKind ==
    ASSUME TypeOK, NEW c \in Call, CallShape(c), TakeSnapshot(c)
    PROVE  HandlerStep(c)
<1> DEFINE r == call[c]
           q == call'[c]
<1>0. /\ Running(c) /\ r.pc = "snapshot" /\ r.op = "CreateSnapshot" /\ r.name \in Snap /\ r.src \in Vol
      /\ UNCHANGED <<waits, ops, told, spoiled, leaked, crashes>>
      /\ faults' \in 0..MaxFaults
    BY FaultsType DEF TakeSnapshot, Running, CallShape, Early, history
<1>1. ASSUME Goto(c, "existing"),
             UNCHANGED lvm \/ (r.name \notin exists /\ Active(r.at, r.src) /\ LvCreateSnapshot(r.name, r.src))
      PROVE  HandlerStep(c)
    <2>2. /\ call' \in [Call -> CallRec]
          /\ \A d \in Call \ {c} : call'[d] = call[d]
          /\ q.op = r.op /\ q.name = r.name /\ q.src = r.src /\ q.at = r.at
          /\ q.lockVol = r.lockVol /\ q.cleanup = r.cleanup /\ q.pc = "existing" /\ q.ok = r.ok
        BY <1>1, UpdatePc DEF TypeOK
    <2>3. Frame(c)
        BY <1>0, <2>2 DEF Frame, TypeOK, Running
    <2>4. CallShape(c)'
        BY <1>0, <2>2 DEF CallShape, Running, Early, Held
    <2>5. UNCHANGED lvm => Moves(c)
        BY <1>0, <2>2 DEF Moves, Early
    <2>6. ~UNCHANGED lvm => Snaps(c, r.name)
        BY <1>0, <1>1, <2>2 DEF Snaps
    <2> QED
        BY <1>0, <2>3, <2>4, <2>5, <2>6 DEF HandlerStep
<1>2. ASSUME Return(c, FALSE), UNCHANGED lvm PROVE HandlerStep(c)
    <2>1. Quietly
        BY <1>0, <1>2 DEF Quietly
    <2> QED
        BY <1>0, <1>2, <2>1, ReturnMoves
<1>3. ASSUME Return(c, FALSE), r.name \notin exists, Active(r.at, r.src), LvCreateSnapshot(r.name, r.src)
      PROVE  HandlerStep(c)
    <2>2. /\ call' \in [Call -> CallRec]
          /\ \A d \in Call \ {c} : call'[d] = call[d]
          /\ q.op = r.op /\ q.name = r.name /\ q.src = r.src /\ q.at = r.at
          /\ q.lockVol = r.lockVol /\ q.cleanup = r.cleanup /\ q.pc = "unwind" /\ q.ok = FALSE
        BY <1>3, UpdateReturn DEF TypeOK
    <2>3. Frame(c)
        BY <1>0, <2>2 DEF Frame, TypeOK, Running
    <2>4. CallShape(c)'
        BY <1>0, <2>2 DEF CallShape, Running, Early, Held
    <2>5. Snaps(c, r.name)
        BY <1>0, <1>3, <2>2 DEF Snaps
    <2> QED
        BY <1>0, <2>3, <2>4, <2>5 DEF HandlerStep
<1> QED
    BY <1>1, <1>2, <1>3 DEF TakeSnapshot

(* A format or a copy. *)
LEMMA FillKind ==
    ASSUME TypeOK, NEW c \in Call, CallShape(c), Fill(c)
    PROVE  HandlerStep(c)
<1> DEFINE r == call[c]
           q == call'[c]
<1>0. /\ Running(c) /\ r.pc \in {"fill", "half"} /\ r.op = "CreateVolume" /\ r.name \in Vol
      /\ UNCHANGED <<waits, exists, origin, lease, owner, ops, told, spoiled, leaked, crashes>>
      /\ faults' \in 0..MaxFaults
    <2>1. faults' \in 0..MaxFaults
        <3>1. UNCHANGED faults \/ (faults < MaxFaults /\ faults' = faults + 1)
            BY DEF Fill
        <3>2. faults \in 0..MaxFaults
            BY DEF TypeOK
        <3> QED
            BY <3>1, <3>2, ControllerServerAssumption
    <2> QED
        BY <2>1 DEF Fill, Running, CallShape, Early, history
<1>1. ASSUME r.pc = "fill", Ready(c), Goto(c, "half"),
             data' = [data EXCEPT ![r.name] = <<Content(c, 1), @[2]>>]
      PROVE  HandlerStep(c)
    <2>2. /\ call' \in [Call -> CallRec]
          /\ \A d \in Call \ {c} : call'[d] = call[d]
          /\ q.op = r.op /\ q.name = r.name /\ q.src = r.src /\ q.at = r.at
          /\ q.lockVol = r.lockVol /\ q.cleanup = r.cleanup /\ q.pc = "half" /\ q.ok = r.ok
        BY <1>1, UpdatePc DEF TypeOK
    <2>3. Frame(c)
        BY <1>0, <2>2 DEF Frame, TypeOK, Running
    <2>4. CallShape(c)'
        BY <1>1, <1>0, <2>2 DEF CallShape, Running, Early, Held
    <2>5. FillsFirst(c)
        BY <1>0, <1>1, <2>2 DEF FillsFirst
    <2> QED
        BY <1>0, <2>3, <2>4, <2>5 DEF HandlerStep
<1>2. ASSUME r.pc = "half", data' = [data EXCEPT ![r.name] = <<@[1], Content(c, 2)>>],
             call' = [call EXCEPT ![c].pc = "unwind", ![c].ok = TRUE, ![c].cleanup = @ \ {r.name}]
      PROVE  HandlerStep(c)
    <2>2. /\ call' \in [Call -> CallRec]
          /\ \A d \in Call \ {c} : call'[d] = call[d]
          /\ q.op = r.op /\ q.name = r.name /\ q.src = r.src /\ q.at = r.at
          /\ q.lockVol = r.lockVol /\ q.cleanup = r.cleanup \ {r.name} /\ q.pc = "unwind" /\ q.ok = TRUE
        <3>1. Unlists(c, TRUE, r.name)
            BY <1>2 DEF Unlists
        <3> QED
            BY <3>1, UpdateDone DEF TypeOK
    <2>3. Frame(c)
        BY <1>0, <2>2 DEF Frame, TypeOK, Running
    <2>4. CallShape(c)'
        BY <1>0, <2>2 DEF CallShape, Running, Early, Held
    <2>5. FillsSecond(c)
        BY <1>0, <1>2, <2>2 DEF FillsSecond
    <2> QED
        BY <1>0, <2>3, <2>4, <2>5 DEF HandlerStep
<1>3. ASSUME Return(c, FALSE), UNCHANGED data PROVE HandlerStep(c)
    <2>1. Quietly
        BY <1>0, <1>3 DEF Quietly, lvm
    <2> QED
        BY <1>0, <1>3, <2>1, ReturnMoves
<1> QED
    BY <1>1, <1>2, <1>3 DEF Fill

(* The removal of what the request names.  A snapshot is no origin. *)
LEMMA RemoveNamedKind ==
    ASSUME TypeOK, OriginExists, NEW c \in Call, CallShape(c), NEW after, RemoveNamed(c, after),
           \/ call[c].name \in Vol /\ after = [call[c] EXCEPT !.pc = "check"]
           \/ call[c].name \in Snap /\ after = [call[c] EXCEPT !.pc = "unwind", !.ok = TRUE]
    PROVE  HandlerStep(c)
<1> DEFINE r == call[c]
           q == call'[c]
<1>0. /\ Running(c) /\ r.pc = "remove" /\ Deletes(c)
      /\ r.name \in Vol <=> r.op = "DeleteVolume"
      /\ UNCHANGED <<waits, ops, told, spoiled, leaked, crashes>>
      /\ faults' \in 0..MaxFaults
    BY FaultsType, ControllerServerAssumption
       DEF RemoveNamed, Running, CallShape, Early, Held, Deletes, history
<1>1. ASSUME r.name \notin exists, Return(c, TRUE), UNCHANGED lvm PROVE HandlerStep(c)
    <2>1. Quietly
        BY <1>0, <1>1 DEF Quietly
    <2> QED
        BY <1>0, <1>1, <2>1, ReturnMoves
<1>2. ASSUME Return(c, FALSE), UNCHANGED lvm PROVE HandlerStep(c)
    <2>1. Quietly
        BY <1>0, <1>2 DEF Quietly
    <2> QED
        BY <1>0, <1>2, <2>1, ReturnMoves
<1>3. ASSUME r.name \in exists, Selected(r.name), Removable(r.at, r.name), LvRemove(r.name),
             Return(c, FALSE)
      PROVE  HandlerStep(c)
    <2>1. /\ call' \in [Call -> CallRec]
          /\ \A d \in Call \ {c} : call'[d] = call[d]
          /\ q.op = r.op /\ q.name = r.name /\ q.src = r.src /\ q.at = r.at
          /\ q.lockVol = r.lockVol /\ q.cleanup = r.cleanup /\ q.pc = "unwind" /\ q.ok = FALSE
        BY <1>3, UpdateReturn DEF TypeOK
    <2>2. Frame(c)
        BY <1>0, <2>1 DEF Frame, TypeOK, Running
    <2>3. CallShape(c)'
        BY <1>0, <2>1 DEF CallShape, Running, Early, Held
    <2>4. Removes(c, r.name) /\ r.name \in Lv
        BY <1>0, <1>3, <2>1 DEF Removes, TypeOK
    <2> QED
        BY <2>2, <2>3, <2>4 DEF HandlerStep
<1>4. ASSUME call' = [call EXCEPT ![c] = after], r.name \in exists,
             \/ ~Selected(r.name) /\ UNCHANGED lvm
             \/ Selected(r.name) /\ Removable(r.at, r.name) /\ LvRemove(r.name)
      PROVE  HandlerStep(c)
    <2>1. /\ call' \in [Call -> CallRec]
          /\ \A d \in Call \ {c} : call'[d] = call[d]
          /\ q.op = r.op /\ q.name = r.name /\ q.src = r.src /\ q.at = r.at
          /\ q.lockVol = r.lockVol /\ q.cleanup = r.cleanup
          /\ \/ r.name \in Vol /\ q.pc = "check"
             \/ r.name \in Snap /\ q.pc = "unwind"
        <3>1. r \in CallRec
            BY DEF TypeOK
        <3>2. after \in CallRec
            BY <3>1 DEF CallRec
        <3> QED
            BY <1>4, <3>1, <3>2 DEF TypeOK, CallRec
    <2>2. Frame(c)
        BY <1>0, <2>1 DEF Frame, TypeOK, Running
    <2>3. CallShape(c)'
        BY <1>0, <2>1 DEF CallShape, Running, Early, Held, Deletes
    <2>4. CASE Selected(r.name)
        <3>1. Removes(c, r.name) /\ r.name \in Lv
            BY <1>0, <1>4, <2>1, <2>4 DEF Removes, TypeOK
        <3> QED
            BY <2>2, <2>3, <3>1 DEF HandlerStep
    <2>5. CASE ~Selected(r.name)
        <3>1. r.name \in Vol
            <4>1. r.name \notin Vol => Snapshots(r.name) = {}
                BY <1>0 DEF Snapshots, OriginExists
            <4> QED
                BY <2>5, <4>1 DEF Selected
        <3>2. q.pc = "check" /\ UNCHANGED lvm
            BY <1>4, <2>1, <2>5, <3>1, ControllerServerAssumption
        <3>3. Moves(c)
            BY <1>0, <2>1, <3>1, <3>2 DEF Moves, Early
        <3> QED
            BY <2>2, <2>3, <3>3 DEF HandlerStep
    <2> QED
        BY <2>4, <2>5
<1> QED
    BY <1>1, <1>2, <1>3, <1>4 DEF RemoveNamed

(* Whether a volume was removed is looked up. *)
LEMMA CheckRemovedKind ==
    ASSUME TypeOK, NEW c \in Call, CallShape(c), CheckRemoved(c)
    PROVE  HandlerStep(c)
<1> DEFINE r == call[c]
<1>0. Running(c) /\ r.pc = "check" /\ Deletes(c) /\ Quietly /\ faults' \in 0..MaxFaults
    BY FaultsType DEF CheckRemoved, Running, CallShape, Early, Held, Deletes, Quietly, history
<1>1. ASSUME Return(c, Gone(r.name)) PROVE HandlerStep(c)
    BY <1>0, <1>1, ReturnMoves DEF Gone
<1>2. ASSUME Return(c, FALSE) PROVE HandlerStep(c)
    BY <1>0, <1>2, ReturnMoves
<1> QED
    BY <1>1, <1>2 DEF CheckRemoved

(* The deferred removals. *)
LEMMA CleanUpKind ==
    ASSUME TypeOK, NEW c \in Call, CallShape(c), NEW x, CleanUp(c, x)
    PROVE  HandlerStep(c)
<1> DEFINE r == call[c]
           q == call'[c]
<1>0. /\ Running(c) /\ r.pc = "unwind" /\ x \in r.cleanup /\ x \in Lv
      /\ UNCHANGED <<waits, ops, told, crashes>>
      /\ faults' \in 0..MaxFaults
    BY FaultsType DEF CleanUp, Running, TypeOK, CallRec
<1>1. /\ call' \in [Call -> CallRec]
      /\ \A d \in Call \ {c} : call'[d] = call[d]
      /\ q.op = r.op /\ q.name = r.name /\ q.src = r.src /\ q.at = r.at
      /\ q.lockVol = r.lockVol /\ q.cleanup = r.cleanup \ {x} /\ q.pc = "unwind" /\ q.ok = r.ok
    <2>1. r \in CallRec /\ call' = [call EXCEPT ![c] = [r EXCEPT !.cleanup = @ \ {x}]]
        BY DEF TypeOK, CleanUp
    <2>2. r.cleanup \ {x} \in SUBSET Lv
        BY <2>1 DEF CallRec
    <2>3. [r EXCEPT !.cleanup = @ \ {x}] \in CallRec
        BY <2>1, <2>2 DEF CallRec
    <2> QED
        BY <1>0, <2>1, <2>3 DEF TypeOK, CallRec
<1>2. CallShape(c)'
    BY <1>0, <1>1 DEF CallShape, Running, Early, Held
<1>3. ASSUME x \in exists, Removable(r.at, x), LvRemove(x), UNCHANGED <<spoiled, leaked>>
      PROVE  HandlerStep(c)
    <2>1. Frame(c)
        BY <1>0, <1>1, <1>3 DEF Frame, TypeOK, Running
    <2>2. Removes(c, x)
        BY <1>0, <1>1, <1>3 DEF Removes
    <2> QED
        BY <1>0, <1>2, <2>1, <2>2 DEF HandlerStep
<1>4. ASSUME spoiled' = spoiled \cup ({x} \cap Vol), leaked' = leaked \cup {x}, UNCHANGED lvm
      PROVE  HandlerStep(c)
    <2>1. Frame(c)
        <3>1. x \in Vol \cup Call /\ ({x} \cap Vol) \subseteq Name
            <4>1. x = c \/ (x = r.name /\ r.op = "CreateVolume")
                BY <1>0 DEF TypeOK, CallShape
            <4> QED
                BY <1>0, <4>1 DEF CallShape, Name
        <3> QED
            BY <1>0, <1>1, <1>4, <3>1 DEF Frame, TypeOK, Running
    <2>2. Moves(c)
        BY <1>0, <1>1, <1>4 DEF Moves, Early
    <2> QED
        BY <1>2, <2>1, <2>2 DEF HandlerStep
<1> QED
    BY <1>3, <1>4 DEF CleanUp

(* Every step of a handler is of one of the kinds, is an unlock or an answer. *)
LEMMA StepKinds ==
    ASSUME TypeOK, OriginExists, NEW c \in Call, CallShape(c), Step(c)
    PROVE  HandlerStep(c) \/ (\E v \in Vol : Unlock(c, v)) \/ Answer(c)
<1>1. ASSUME LookupSource(c) PROVE HandlerStep(c)
    BY <1>1, FetchKind DEF LookupSource
<1>2. ASSUME LookupSnapshot(c) PROVE HandlerStep(c)
    BY <1>2, FetchKind DEF LookupSnapshot
<1>3. ASSUME RemoveVolume(c) PROVE HandlerStep(c)
    BY <1>3, RemoveNamedKind DEF RemoveVolume
<1>4. ASSUME RemoveSnapshot(c) PROVE HandlerStep(c)
    BY <1>4, RemoveNamedKind DEF RemoveSnapshot
<1> QED
    BY <1>1, <1>2, <1>3, <1>4, HandleRequestKind, LockSourceKind, CreateTemporaryKind,
       CreateLvKind, ExistingKind, LockNewKind, FillKind, TakeSnapshotKind, CheckRemovedKind,
       CleanUpKind DEF Step

-----------------------------------------------------------------------------
(* The requests of the orchestrator. *)
Asks(n, c, op, name, src) ==
    /\ Request(n, c, op, name, src)
    /\ \/ /\ op = "CreateVolume" /\ name \in Vol /\ src \in {None} \cup Name
          /\ src # None => told[src] = "created"
       \/ op = "DeleteVolume" /\ name \in Vol /\ src = None
       \/ op = "CreateSnapshot" /\ name \in Snap /\ src \in Vol /\ told[src] = "created"
       \/ op = "DeleteSnapshot" /\ name \in Snap /\ src = None

Asked(c) == \E n, op, name, src : n \in Node /\ Asks(n, c, op, name, src)

(* Every step, by its kind. *)
LEMMA NextKinds ==
    ASSUME TypeOK, OriginExists, \A c \in Call : CallShape(c), [Next]_vars
    PROVE  \/ UNCHANGED vars
           \/ \E c \in Call : \/ Asked(c) \/ GiveUp(c) \/ HandlerStep(c) \/ Answer(c)
                              \/ \E v \in Vol : Unlock(c, v)
           \/ \E n \in Node, v \in Vol : Stage(n, v) \/ Unstage(n, v) \/ Write(n, v)
           \/ \E n \in Node : Crash(n)
<1>1. ASSUME NEW n \in Node, NEW c \in Call, NEW v \in Vol, NEW src \in {None} \cup Name,
             CreateVolume(n, c, v, src)
      PROVE  Asked(c)
    BY <1>1 DEF CreateVolume, Asks, Asked
<1>2. ASSUME NEW n \in Node, NEW c \in Call, NEW v \in Vol, DeleteVolume(n, c, v) PROVE Asked(c)
    BY <1>2 DEF DeleteVolume, Asks, Asked
<1>3. ASSUME NEW n \in Node, NEW c \in Call, NEW s \in Snap, NEW v \in Vol, CreateSnapshot(n, c, s, v)
      PROVE  Asked(c)
    BY <1>3 DEF CreateSnapshot, Asks, Asked
<1>4. ASSUME NEW n \in Node, NEW c \in Call, NEW s \in Snap, DeleteSnapshot(n, c, s) PROVE Asked(c)
    BY <1>4 DEF DeleteSnapshot, Asks, Asked
<1>5. \A v \in Used : v \in Vol
    BY ControllerServerAssumption
<1> QED
    BY <1>1, <1>2, <1>3, <1>4, <1>5, StepKinds DEF Next

(* The record of a new request. *)
LEMMA AskedCall ==
    ASSUME TypeOK, NEW c \in Call, NEW n \in Node, NEW op, NEW name, NEW src, Asks(n, c, op, name, src)
    PROVE  /\ call[c].pc = "new" /\ ~Running(c) /\ Running(c)'
           /\ call' \in [Call -> CallRec]
           /\ \A d \in Call \ {c} : call'[d] = call[d]
           /\ call'[c].op = op /\ call'[c].name = name /\ call'[c].src = src
           /\ call'[c].at = n /\ call'[c].cleanup = {}
           /\ call'[c].lockVol = IF src \in Vol THEN src ELSE None
           /\ call'[c].pc = FirstStep(op, src)
           /\ call'[c].pc \in {"remove", "lock", "create", "lookup"}
           /\ CallShape(c)'
<1> DEFINE r == [NoCall EXCEPT !.op = op, !.name = name, !.src = src, !.at = n,
                    !.pc = FirstStep(op, src), !.lockVol = IF src \in Vol THEN src ELSE None]
<1>1. FirstStep(op, src) \in {"remove", "lock", "create", "lookup"}
    BY DEF FirstStep
<1>2. name \in Name /\ src \in Name \cup {None}
      /\ op \in {"CreateVolume", "DeleteVolume", "CreateSnapshot", "DeleteSnapshot"}
    BY DEF Asks, Name
<1>3. r \in CallRec
    BY <1>1, <1>2 DEF NoCall, CallRec
<1>4. call' = [call EXCEPT ![c] = r] /\ call[c].pc = "new"
    BY DEF Asks, Request
<1>5. /\ call' \in [Call -> CallRec] /\ call'[c] = r
      /\ \A d \in Call \ {c} : call'[d] = call[d]
    BY <1>3, <1>4 DEF TypeOK
<1>6. /\ r.op = op /\ r.name = name /\ r.src = src /\ r.at = n /\ r.cleanup = {}
      /\ r.lockVol = IF src \in Vol THEN src ELSE None
      /\ r.pc = FirstStep(op, src)
    BY DEF NoCall
<1> HIDE DEF r
<1>7. CallShape(c)'
    <2>1. \/ op = "CreateVolume" /\ src = None /\ r.pc = "create"
          \/ op = "CreateVolume" /\ src # None /\ r.pc = "lookup"
          \/ op = "DeleteVolume" /\ src = None /\ r.pc = "remove"
          \/ op = "CreateSnapshot" /\ src \in Vol /\ r.pc = "lock"
          \/ op = "DeleteSnapshot" /\ src = None /\ r.pc = "lookup"
        BY <1>6 DEF FirstStep, Asks
    <2> QED
        BY <1>2, <1>5, <1>6, <2>1, ControllerServerAssumption
           DEF CallShape, Running, Early, Held, Asks
<1> QED
    BY <1>1, <1>4, <1>5, <1>6, <1>7 DEF Running

(* The record of a request that is over. *)
LEMMA OverCall ==
    /\ Over \in CallRec /\ Over.pc = "over" /\ Over.cleanup = {}
    /\ Over.name = None /\ Over.src = None /\ Over.lockVol = None
    BY DEF Over, NoCall, CallRec

(* An answer. *)
LEMMA AnsweredCall ==
    ASSUME TypeOK, NEW c \in Call, Answer(c)
    PROVE  /\ Running(c) /\ ~Running(c)'
           /\ call' \in [Call -> CallRec] /\ call'[c] = Over
           /\ \A d \in Call \ {c} : call'[d] = call[d]
           /\ CallShape(c)'
<1>1. /\ call' \in [Call -> CallRec] /\ call'[c] = Over
      /\ \A d \in Call \ {c} : call'[d] = call[d]
    BY OverCall DEF Answer, TypeOK
<1>2. CallShape(c)'
    BY <1>1, OverCall, ControllerServerAssumption DEF CallShape, Running
<1> QED
    BY <1>1, <1>2, OverCall DEF Running, Answer

(* The requests that a crash ends. *)
Dead(n) == {c \in Call : Running(c) /\ call[c].at = n /\ call[c].pc # "queued"}

(* A crash leaves the requests of the other nodes alone. *)
LEMMA CrashedCall ==
    ASSUME TypeOK, \A c \in Call : CallShape(c), NEW n \in Node, Crash(n)
    PROVE  /\ call' \in [Call -> CallRec]
           /\ \A c \in Dead(n) : call'[c] = Over /\ ~Running(c)' /\ Running(c)
           /\ \A c \in Call \ Dead(n) : call'[c] = call[c]
           /\ \A c \in Call : CallShape(c)'
<1>1. call' = [c \in Call |-> IF c \in Dead(n) THEN Over ELSE call[c]]
    BY DEF Crash, Dead
<1>2. call' \in [Call -> CallRec]
    BY <1>1, OverCall DEF TypeOK
<1>3. /\ \A c \in Dead(n) : call'[c] = Over /\ Running(c) /\ c \in Call
      /\ \A c \in Call \ Dead(n) : call'[c] = call[c]
    BY <1>1 DEF Dead
<1>4. \A c \in Dead(n) : ~Running(c)'
    BY <1>3, OverCall DEF Running
<1>5. ASSUME NEW c \in Call PROVE CallShape(c)'
    <2>1. CASE c \in Dead(n)
        BY <1>3, <2>1, OverCall, ControllerServerAssumption DEF CallShape, Running
    <2>2. CASE c \notin Dead(n)
        BY <1>3, <2>2 DEF CallShape, Running
    <2> QED
        BY <2>1, <2>2
<1> QED
    BY <1>2, <1>3, <1>4, <1>5

-----------------------------------------------------------------------------
(* A record that stays keeps its shape. *)
LEMMA ShapeStays ==
    ASSUME NEW d \in Call, CallShape(d), call'[d] = call[d]
    PROVE  CallShape(d)'
    BY DEF CallShape, Running

(* The types of the call records and of the sets of requests. *)
CallType ==
    /\ call \in [Call -> CallRec]
    /\ \A c \in Call : /\ Running(c) => call[c].at \in Node /\ call[c].name \in Name
                       /\ call[c].cleanup \subseteq {c, call[c].name}
    /\ waits \subseteq {c \in Call : Running(c)}

LvmType ==
    /\ exists \subseteq Lv
    /\ origin \in [Snap \cup Call -> Vol \cup {None}]
    /\ lease \in [Vol -> Node \cup {None}]
    /\ owner \in [Vol -> Node \cup {None}]
    /\ ops \in [Node -> [Vol -> SUBSET (Call \cup {"stage"})]]
    /\ data \in [Lv -> (0..2) \X (0..2)]

HistoryType ==
    /\ told \in [Name -> {"nothing", "created", "deleting", "deleted"}]
    /\ spoiled \subseteq Name /\ leaked \subseteq Vol \cup Call
    /\ faults \in 0..MaxFaults /\ crashes \in 0..MaxCrashes

(* The commands of lvm keep the shape of what lvm keeps. *)
LEMMA LvmTypes ==
    ASSUME TypeOK
    PROVE  /\ \A x : LvRemove(x) /\ UNCHANGED ops => LvmType'
           /\ \A x \in Snap \cup Call, v \in Vol : LvCreateSnapshot(x, v) /\ UNCHANGED ops => LvmType'
           /\ \A n \in Node, v \in Vol : LvCreate(n, v) /\ UNCHANGED ops => LvmType'
           /\ \A n \in Node, v \in Vol, op \in Call \cup {"stage"} :
                 Locked(n, v, op) /\ UNCHANGED <<exists, origin, data>> => LvmType'
<1> USE DEF TypeOK, LvmType
<1>1. ASSUME NEW x, LvRemove(x), UNCHANGED ops PROVE LvmType'
    <2>1. Blank \in (0..2) \X (0..2)
        BY DEF Blank
    <2>2. data' \in [Lv -> (0..2) \X (0..2)]
        BY <1>1, <2>1 DEF LvRemove
    <2> QED
        BY <1>1, <2>2 DEF LvRemove
<1>2. ASSUME NEW x \in Snap \cup Call, NEW v \in Vol, LvCreateSnapshot(x, v), UNCHANGED ops PROVE LvmType'
    BY <1>2 DEF LvCreateSnapshot, Lv, Name
<1>3. ASSUME NEW n \in Node, NEW v \in Vol, LvCreate(n, v), UNCHANGED ops PROVE LvmType'
    BY <1>3 DEF LvCreate, Lv, Name
<1>4. ASSUME NEW n \in Node, NEW v \in Vol, NEW op \in Call \cup {"stage"},
             Locked(n, v, op), UNCHANGED <<exists, origin, data>>
      PROVE  LvmType'
    <2>1. ops' \in [Node -> [Vol -> SUBSET (Call \cup {"stage"})]]
        BY <1>4 DEF Locked
    <2>2. lease' \in [Vol -> Node \cup {None}] /\ owner' \in [Vol -> Node \cup {None}]
        BY <1>4 DEF Locked
    <2> QED
        BY <1>4, <2>1, <2>2
<1> QED
    BY <1>1, <1>2, <1>3, <1>4

(* What a volume is filled with. *)
LEMMA ContentType ==
    ASSUME TypeOK, NEW c \in Call, Running(c), CallShape(c), call[c].op = "CreateVolume",
           NEW half \in {1, 2}
    PROVE  Content(c, half) \in 0..2
<1>1. CASE call[c].src = None
    BY <1>1 DEF Content
<1>2. CASE call[c].src # None
    <2>1. DataVol(c) \in Lv
        BY <1>2 DEF DataVol, Lv, Name, TypeOK, CallRec
    <2>2. data[DataVol(c)] \in (0..2) \X (0..2)
        BY <2>1 DEF TypeOK
    <2> QED
        BY <1>2, <2>2 DEF Content
<1> QED
    BY <1>1, <1>2

(* Handlers keep the types. *)
LEMMA HandlerType ==
    ASSUME TypeOK, \A d \in Call : CallShape(d), NEW c \in Call, HandlerStep(c)
    PROVE  TypeOK' /\ \A d \in Call : CallShape(d)'
<1>0. Frame(c) /\ CallShape(c) /\ CallShape(c)'
    BY DEF HandlerStep
<1>1. \A d \in Call : CallShape(d)'
    BY <1>0, ShapeStays DEF Frame
<1>2. CallType'
    <2>1. \A d \in Call : Running(d) <=> Running(d)'
        BY <1>0 DEF Frame, Running
    <2> QED
        BY <1>0, <2>1 DEF Frame, TypeOK, CallType
<1>3. HistoryType'
    BY <1>0 DEF Frame, TypeOK, HistoryType
<1>4. LvmType'
    <2>0. call[c].at \in Node /\ call[c] \in CallRec /\ Running(c)
        BY <1>0 DEF TypeOK, Frame
    <2>1. ASSUME Moves(c) PROVE LvmType'
        BY <2>1 DEF Moves, lvm, TypeOK, LvmType
    <2>2. ASSUME NEW v \in Vol, Takes(c, v) PROVE LvmType'
        BY <2>0, <2>2, LvmTypes DEF Takes
    <2>3. ASSUME NEW v \in Vol, Activates(c, v) PROVE LvmType'
        BY <2>0, <2>3 DEF Activates, TypeOK, LvmType
    <2>4. ASSUME NEW x \in Lv, Removes(c, x) PROVE LvmType'
        BY <2>4, LvmTypes DEF Removes
    <2>5. ASSUME NEW x \in Snap \cup {c}, Snaps(c, x) PROVE LvmType'
        BY <2>5, LvmTypes DEF Snaps
    <2>6. ASSUME Makes(c) PROVE LvmType'
        BY <2>0, <2>6, LvmTypes DEF Makes
    <2>7. ASSUME FillsFirst(c) PROVE LvmType'
        <3>1. Content(c, 1) \in 0..2 /\ call[c].name \in Lv /\ data \in [Lv -> (0..2) \X (0..2)]
            BY <1>0, <2>0, <2>7, ContentType DEF FillsFirst, CallShape, Early, Held, Lv, Name, TypeOK
        <3>2. data' \in [Lv -> (0..2) \X (0..2)]
            BY <2>7, <3>1 DEF FillsFirst
        <3> QED
            BY <2>7, <3>2 DEF FillsFirst, TypeOK, LvmType
    <2>8. ASSUME FillsSecond(c) PROVE LvmType'
        <3>1. Content(c, 2) \in 0..2 /\ call[c].name \in Lv /\ data \in [Lv -> (0..2) \X (0..2)]
            BY <1>0, <2>0, <2>8, ContentType DEF FillsSecond, CallShape, Early, Held, Lv, Name, TypeOK
        <3>2. data' \in [Lv -> (0..2) \X (0..2)]
            BY <2>8, <3>1 DEF FillsSecond
        <3> QED
            BY <2>8, <3>2 DEF FillsSecond, TypeOK, LvmType
    <2> QED
        BY <2>1, <2>2, <2>3, <2>4, <2>5, <2>6, <2>7, <2>8 DEF HandlerStep
<1>5. TypeOK'
    BY <1>2, <1>3, <1>4 DEF TypeOK, CallType, LvmType, HistoryType
<1> QED
    BY <1>1, <1>5

(* The shape of the state is preserved by every step. *)
LEMMA NextType ==
    ASSUME TypeOK, OriginExists, \A c \in Call : CallShape(c), [Next]_vars
    PROVE  TypeOK' /\ \A c \in Call : CallShape(c)'
<1> USE DEF TypeOK
<1>1. CASE UNCHANGED vars
    BY <1>1 DEF vars, CallShape, Running
<1>2. ASSUME NEW c \in Call, Asked(c) PROVE TypeOK' /\ \A d \in Call : CallShape(d)'
    <2>1. PICK n, op, name, src : n \in Node /\ Asks(n, c, op, name, src)
        BY <1>2 DEF Asked
    <2>2. /\ Running(c)' /\ call' \in [Call -> CallRec]
          /\ \A d \in Call \ {c} : call'[d] = call[d]
          /\ call'[c].name = name /\ call'[c].at = n /\ call'[c].cleanup = {}
          /\ CallShape(c)'
        BY <2>1, AskedCall
    <2>3. name \in Name /\ waits' = waits \cup {c} /\ UNCHANGED <<lvm, ops, spoiled, leaked, faults, crashes>>
          /\ told' \in {told, [told EXCEPT ![name] = "deleting"]}
        BY <2>1 DEF Asks, Request, Name
    <2>4. \A d \in Call : CallShape(d)'
        BY <2>2, ShapeStays
    <2>5. CallType'
        BY <2>1, <2>2, <2>3 DEF CallType, Running
    <2>6. LvmType' /\ HistoryType'
        BY <2>3 DEF LvmType, HistoryType, lvm
    <2> QED
        BY <2>4, <2>5, <2>6 DEF CallType, LvmType, HistoryType
<1>3. ASSUME NEW c \in Call, GiveUp(c) PROVE TypeOK' /\ \A d \in Call : CallShape(d)'
    <2>1. \A d \in Call : CallShape(d)' /\ (Running(d)' <=> Running(d))
        BY <1>3, ShapeStays DEF GiveUp, Running
    <2>2. CallType'
        BY <1>3, <2>1 DEF CallType, GiveUp
    <2>3. LvmType'
        BY <1>3 DEF LvmType, GiveUp, lvm
    <2>4. HistoryType'
        BY <1>3, ControllerServerAssumption DEF HistoryType, GiveUp
    <2> QED
        BY <2>1, <2>2, <2>3, <2>4 DEF CallType, LvmType, HistoryType
<1>4. ASSUME NEW c \in Call, HandlerStep(c) PROVE TypeOK' /\ \A d \in Call : CallShape(d)'
    BY <1>4, HandlerType
<1>5. ASSUME NEW c \in Call, Answer(c) PROVE TypeOK' /\ \A d \in Call : CallShape(d)'
    <2>1. /\ ~Running(c)' /\ call' \in [Call -> CallRec] /\ call'[c] = Over
          /\ \A d \in Call \ {c} : call'[d] = call[d]
          /\ CallShape(c)'
        BY <1>5, AnsweredCall
    <2>2. \A d \in Call : CallShape(d)'
        BY <2>1, ShapeStays
    <2>3. CallType'
        BY <1>5, <2>1, OverCall DEF CallType, Answer, Running
    <2>4. LvmType'
        BY <1>5 DEF LvmType, Answer, lvm
    <2>5. HistoryType'
        <3>1. call[c].name \in Name
            BY <1>5, AnsweredCall
        <3> QED
            BY <1>5, <3>1 DEF HistoryType, Answer
    <2> QED
        BY <2>2, <2>3, <2>4, <2>5 DEF CallType, LvmType, HistoryType
<1>6. ASSUME NEW c \in Call, NEW v \in Vol, Unlock(c, v) PROVE TypeOK' /\ \A d \in Call : CallShape(d)'
    <2>1. /\ UNCHANGED <<call, waits, exists, origin, data, told, spoiled, crashes>>
          /\ \A d \in Call : CallShape(d)' /\ (Running(d)' <=> Running(d))
        BY <1>6, ShapeStays DEF Unlock, Running
    <2>2. CallType'
        BY <2>1 DEF CallType
    <2>3. LvmType'
        <3>1. call[c].at \in Node
            BY <1>6 DEF Unlock, Running
        <3>2. ops' \in [Node -> [Vol -> SUBSET (Call \cup {"stage"})]]
            BY <1>6, <3>1 DEF Unlock
        <3>3. lease' \in [Vol -> Node \cup {None}] /\ owner' \in [Vol -> Node \cup {None}]
            BY <1>6, <3>1 DEF Unlock
        <3> QED
            BY <2>1, <3>2, <3>3 DEF LvmType
    <2>4. faults' \in 0..MaxFaults
        BY <1>6, ControllerServerAssumption DEF Unlock, Works, NotIssued, Fails
    <2>5. HistoryType'
        BY <1>6, <2>1, <2>4 DEF HistoryType, Unlock
    <2> QED
        BY <2>1, <2>2, <2>3, <2>5 DEF CallType, LvmType, HistoryType
<1>7. ASSUME NEW n \in Node, NEW v \in Vol, Stage(n, v) \/ Unstage(n, v) \/ Write(n, v)
      PROVE  TypeOK' /\ \A d \in Call : CallShape(d)'
    <2>1. /\ UNCHANGED <<call, waits, exists, origin, told, spoiled, leaked, faults, crashes>>
          /\ \A d \in Call : CallShape(d)' /\ (Running(d)' <=> Running(d))
        BY <1>7, ShapeStays DEF Stage, Unstage, Write, Running, history
    <2>2. CallType' /\ HistoryType'
        BY <2>1 DEF CallType, HistoryType
    <2>3. LvmType'
        <3>1. ASSUME Stage(n, v) PROVE LvmType'
            BY <3>1, LvmTypes DEF Stage
        <3>2. ASSUME Unstage(n, v) PROVE LvmType'
            BY <3>2 DEF Unstage, LvmType
        <3>3. ASSUME Write(n, v) PROVE LvmType'
            <4>1. v \in Lv /\ data \in [Lv -> (0..2) \X (0..2)]
                BY DEF Lv, Name
            <4>2. <<2, 1>> \in (0..2) \X (0..2) /\ <<2, 2>> \in (0..2) \X (0..2)
                OBVIOUS
            <4>3. data' \in [Lv -> (0..2) \X (0..2)]
                BY <3>3, <4>1, <4>2 DEF Write
            <4> QED
                BY <3>3, <4>3 DEF Write, LvmType
        <3> QED
            BY <1>7, <3>1, <3>2, <3>3
    <2> QED
        BY <2>1, <2>2, <2>3 DEF CallType, LvmType, HistoryType
<1>8. ASSUME NEW n \in Node, Crash(n) PROVE TypeOK' /\ \A d \in Call : CallShape(d)'
    <2>1. /\ call' \in [Call -> CallRec]
          /\ \A c \in Dead(n) : call'[c] = Over /\ ~Running(c)' /\ Running(c)
          /\ \A c \in Call \ Dead(n) : call'[c] = call[c]
          /\ \A c \in Call : CallShape(c)'
        BY <1>8, CrashedCall
    <2>2. Dead(n) \subseteq Call /\ waits' = waits \ Dead(n)
        BY <1>8 DEF Crash, Dead
    <2>3. CallType'
        BY <2>1, <2>2, OverCall DEF CallType, Running
    <2>4. LvmType'
        <3>1. ops' \in [Node -> [Vol -> SUBSET (Call \cup {"stage"})]]
            BY <1>8 DEF Crash
        <3>2. lease' \in [Vol -> Node \cup {None}] /\ owner' \in [Vol -> Node \cup {None}]
            BY <1>8 DEF Crash
        <3> QED
            BY <1>8, <3>1, <3>2 DEF LvmType, Crash
    <2>5. HistoryType'
        <3>1. spoiled' \subseteq Name
            BY <1>8, <2>1 DEF Crash, Dead
        <3>2. leaked' \subseteq Vol \cup Call
            BY <1>8 DEF Crash
        <3> QED
            BY <1>8, <3>1, <3>2, ControllerServerAssumption DEF HistoryType, Crash
    <2> QED
        BY <2>1, <2>3, <2>4, <2>5 DEF CallType, LvmType, HistoryType
<1> QED
    BY <1>1, <1>2, <1>3, <1>4, <1>5, <1>6, <1>7, <1>8, NextKinds

-----------------------------------------------------------------------------
(* The parts of the invariant, by what they are about. *)
RequestInv ==
    OneWaits /\ UnspoiledWaits /\ CreatorTold /\ DeleterTold /\ SourceTold /\ CleanupTold

(* The volume that a handler locks is as it was, or was just looked up. *)
LEMMA HandlerLockVol ==
    ASSUME TypeOK, OriginExists, SourceTold, NEW c \in Call, CallShape(c), HandlerStep(c),
           call'[c].lockVol # None
    PROVE  told[call'[c].lockVol] # "nothing"
<1> DEFINE r == call[c]
           q == call'[c]
<1>0. Frame(c) /\ Running(c)
    BY DEF HandlerStep, Frame
<1>1. CASE q.lockVol = r.lockVol
    BY <1>0, <1>1 DEF SourceTold
<1>2. CASE q.lockVol # r.lockVol
    <2>1. r.pc \in Early
        BY <1>0, <1>2 DEF Frame
    <2>2. Moves(c)
        BY <1>2, <2>1 DEF HandlerStep, Takes, Activates, Removes, Snaps, Makes, FillsFirst,
           FillsSecond, Early
    <2>3. PICK x \in exists \cap {r.src, r.name} \cap Name :
                  q.lockVol = Base(x) /\ (r.src # None => x = r.src)
        BY <1>2, <2>2 DEF Moves
    <2>4. CASE x \in Vol
        <3>1. x = r.src /\ q.lockVol = x
            BY <1>0, <2>1, <2>3, <2>4, ControllerServerAssumption DEF Base, CallShape, Early
        <3> QED
            BY <1>0, <2>3, <3>1, ControllerServerAssumption DEF SourceTold, Name
    <2>5. CASE x \notin Vol
        BY <2>3, <2>5 DEF Base, OriginExists
    <2> QED
        BY <2>4, <2>5
<1> QED
    BY <1>1, <1>2

(* Only a new volume's name is added to what is to be cleaned up. *)
LEMMA HandlerCleanup ==
    ASSUME TypeOK, NEW c \in Call, CallShape(c), HandlerStep(c),
           call[c].name \in call'[c].cleanup
    PROVE  call[c].name \in call[c].cleanup \/ Makes(c)
<1>1. c # call[c].name
    BY ControllerServerAssumption DEF TypeOK, HandlerStep, Frame, Name
<1> QED
    BY <1>1 DEF HandlerStep, Moves, Takes, Activates, Removes, Snaps, FillsFirst, FillsSecond

(* What is to be cleaned up belongs to a handler that runs. *)
LEMMA CleanupRuns ==
    ASSUME NEW c \in Call, CallShape(c), NEW x \in call[c].cleanup
    PROVE  Running(c)
    BY DEF CallShape

(* Requests and what the orchestrator was told of their names. *)
LEMMA HandlerRequests ==
    ASSUME Inv, NEW c \in Call, HandlerStep(c)
    PROVE  RequestInv'
<1>0. /\ TypeOK /\ (\A d \in Call : CallShape(d)) /\ OriginExists /\ CreatedExists
      /\ OneWaits /\ UnspoiledWaits /\ CreatorTold /\ DeleterTold /\ SourceTold /\ CleanupTold
    BY DEF Inv
<1>1. Frame(c)
    BY DEF HandlerStep
<1>2. \A d \in Call :
         /\ call'[d].name = call[d].name /\ call'[d].op = call[d].op /\ call'[d].src = call[d].src
         /\ Running(d)' <=> Running(d)
    BY <1>1 DEF Frame, Running
<1>3. waits' = waits /\ told' = told /\ spoiled \subseteq spoiled' /\ waits \subseteq Call
    BY <1>0, <1>1 DEF Frame, TypeOK
<1>4. OneWaits' /\ UnspoiledWaits' /\ CreatorTold' /\ DeleterTold'
    BY <1>0, <1>2, <1>3 DEF OneWaits, UnspoiledWaits, CreatorTold, DeleterTold, Creates, Deletes
<1>5. SourceTold'
    <2> SUFFICES ASSUME NEW d \in Call, Running(d)'
                 PROVE  /\ call'[d].src # None => told'[call'[d].src] # "nothing"
                        /\ call'[d].lockVol # None => told'[call'[d].lockVol] # "nothing"
        BY DEF SourceTold
    <2>1. CASE d = c
        BY <1>0, <1>2, <1>3, <2>1, HandlerLockVol DEF SourceTold
    <2>2. CASE d # c
        BY <1>0, <1>1, <1>2, <1>3, <2>2 DEF SourceTold, Frame
    <2> QED
        BY <2>1, <2>2
<1>6. CleanupTold'
    <2> SUFFICES ASSUME NEW d \in Call, call'[d].name \in call'[d].cleanup, call'[d].name \notin spoiled'
                 PROVE  told'[call'[d].name] = "nothing"
        BY DEF CleanupTold
    <2>1. CASE call[d].name \in call[d].cleanup
        BY <1>0, <1>2, <1>3, <2>1 DEF CleanupTold
    <2>2. CASE call[d].name \notin call[d].cleanup
        <3>1. d = c /\ Makes(c)
            BY <1>0, <1>1, <1>2, <2>2, HandlerCleanup DEF Frame
        <3>2. c \in waits /\ Creates(c) /\ call[c].name \in Name \ exists
            BY <1>0, <1>1, <1>2, <1>3, <3>1 DEF UnspoiledWaits, Makes, Frame, CallShape, Creates, Early, TypeOK
        <3> QED
            BY <1>0, <1>2, <1>3, <3>1, <3>2 DEF CreatorTold, CreatedExists
    <2> QED
        BY <2>1, <2>2
<1> QED
    BY <1>4, <1>5, <1>6 DEF RequestInv

(* Every step preserves them. *)
LEMMA NextRequests == ASSUME Inv, [Next]_vars PROVE RequestInv'
<1>0. /\ TypeOK /\ (\A d \in Call : CallShape(d)) /\ OriginExists
      /\ OneWaits /\ UnspoiledWaits /\ CreatorTold /\ DeleterTold /\ SourceTold /\ CleanupTold
    BY DEF Inv
<1>a. /\ waits \subseteq Call /\ (\A c \in waits : Running(c))
      /\ told \in [Name -> {"nothing", "created", "deleting", "deleted"}]
      /\ \A c \in Call : /\ Running(c) => call[c].name \in Name
                         /\ call[c].src \in Name \cup {None}
                         /\ call[c].lockVol \in Vol \cup {None}
    BY <1>0 DEF TypeOK, CallRec
<1>b. \A c \in Call : call[c].cleanup # {} => Running(c)
    BY <1>0 DEF CallShape
<1> USE DEF RequestInv
<1>1. ASSUME UNCHANGED <<call, waits, told, spoiled>> PROVE RequestInv'
    BY <1>0, <1>1 DEF OneWaits, UnspoiledWaits, CreatorTold, DeleterTold, SourceTold, CleanupTold,
       Running, Creates, Deletes
<1>2. ASSUME NEW c \in Call, Asked(c) PROVE RequestInv'
    <2>1. PICK n, op, name, src : n \in Node /\ Asks(n, c, op, name, src)
        BY <1>2 DEF Asked
    <2>2. /\ ~Running(c) /\ Running(c)' /\ call' \in [Call -> CallRec]
          /\ \A d \in Call \ {c} : call'[d] = call[d]
          /\ call'[c].op = op /\ call'[c].name = name /\ call'[c].src = src /\ call'[c].cleanup = {}
          /\ call'[c].lockVol = IF src \in Vol THEN src ELSE None
        BY <1>0, <2>1, AskedCall
    <2>3. /\ name \in Name /\ waits' = waits \cup {c} /\ spoiled' = spoiled
          /\ \A d \in waits : call[d].name # name
          /\ src # None => src \in Name /\ told[src] = "created"
        BY <2>1, ControllerServerAssumption DEF Asks, Request, Name
    <2>4. \/ op \in {"CreateVolume", "CreateSnapshot"} /\ told' = told /\ told[name] \in {"nothing", "created"}
          \/ op \in {"DeleteVolume", "DeleteSnapshot"} /\ told' = [told EXCEPT ![name] = "deleting"]
        BY <2>1 DEF Asks, Request
    <2>5. \A x \in Name : /\ x # name => told'[x] = told[x]
                          /\ told[x] # "nothing" => told'[x] # "nothing"
        BY <1>a, <2>3, <2>4
    <2>6. \A d \in Call \ {c} : /\ Running(d)' <=> Running(d)
                                /\ Creates(d)' <=> Creates(d)
                                /\ Deletes(d)' <=> Deletes(d)
        BY <2>2 DEF Running, Creates, Deletes
    <2>7. c \notin waits /\ \A d \in waits : d # c /\ d \in Call /\ call[d].name \in Name
        BY <1>a, <2>2
    <2>8. OneWaits' /\ UnspoiledWaits'
        BY <1>0, <2>2, <2>3, <2>6, <2>7 DEF OneWaits, UnspoiledWaits
    <2>9. CreatorTold'
        BY <1>0, <2>2, <2>3, <2>4, <2>5, <2>6, <2>7 DEF CreatorTold, Creates
    <2>10. DeleterTold'
        <3> SUFFICES ASSUME NEW d \in Call, Running(d)', Deletes(d)'
                     PROVE  told'[call'[d].name] \in {"deleting", "deleted"}
            BY DEF DeleterTold
        <3>1. CASE d = c
            BY <1>a, <2>2, <2>3, <2>4, <3>1 DEF Deletes
        <3>2. CASE d # c
            <4>1. call'[d] = call[d] /\ call[d].name \in Name /\ told[call[d].name] \in {"deleting", "deleted"}
                BY <1>0, <1>a, <2>2, <2>6, <3>2 DEF DeleterTold
            <4> QED
                BY <1>a, <2>3, <2>4, <4>1
        <3> QED
            BY <3>1, <3>2
    <2>11. SourceTold'
        <3> SUFFICES ASSUME NEW d \in Call, Running(d)'
                     PROVE  /\ call'[d].src # None => told'[call'[d].src] # "nothing"
                            /\ call'[d].lockVol # None => told'[call'[d].lockVol] # "nothing"
            BY DEF SourceTold
        <3>1. CASE d = c
            BY <2>2, <2>3, <2>5, <3>1
        <3>2. CASE d # c
            BY <1>0, <1>a, <2>2, <2>5, <2>6, <3>2 DEF SourceTold, Name
        <3> QED
            BY <3>1, <3>2
    <2>12. CleanupTold'
        <3> SUFFICES ASSUME NEW d \in Call, call'[d].name \in call'[d].cleanup, call'[d].name \notin spoiled'
                     PROVE  told'[call'[d].name] = "nothing"
            BY DEF CleanupTold
        <3>1. d # c /\ call'[d] = call[d] /\ Running(d)
            BY <1>b, <2>2
        <3>2. d \in waits
            BY <1>0, <2>3, <3>1 DEF UnspoiledWaits
        <3> QED
            BY <1>0, <2>3, <2>5, <2>7, <3>1, <3>2 DEF CleanupTold
    <2> QED
        BY <2>8, <2>9, <2>10, <2>11, <2>12
<1>3. ASSUME NEW c \in Call, GiveUp(c) PROVE RequestInv'
    <2>1. /\ waits' = waits \ {c} /\ UNCHANGED <<call, told>>
          /\ spoiled' = spoiled \cup {call[c].name}
        BY <1>3 DEF GiveUp
    <2> QED
        BY <1>0, <2>1 DEF OneWaits, UnspoiledWaits, CreatorTold, DeleterTold, SourceTold,
           CleanupTold, Running, Creates, Deletes
<1>4. ASSUME NEW c \in Call, HandlerStep(c) PROVE RequestInv'
    BY <1>4, HandlerRequests
<1>5. ASSUME NEW c \in Call, Answer(c) PROVE RequestInv'
    <2>1. /\ Running(c) /\ ~Running(c)' /\ call'[c] = Over
          /\ \A d \in Call \ {c} : call'[d] = call[d]
        BY <1>0, <1>5, AnsweredCall
    <2>2. waits' = waits \ {c} /\ spoiled \subseteq spoiled'
        BY <1>5 DEF Answer
    <2>3. \/ told' = told
          \/ c \in waits /\ Creates(c) /\ told' = [told EXCEPT ![call[c].name] = "created"]
          \/ c \in waits /\ ~Creates(c) /\ told' = [told EXCEPT ![call[c].name] = "deleted"]
        BY <1>5 DEF Answer, Creates
    <2>4. \A d \in Call \ {c} : /\ Running(d)' <=> Running(d)
                                /\ Creates(d)' <=> Creates(d)
                                /\ Deletes(d)' <=> Deletes(d)
        BY <2>1 DEF Running, Creates, Deletes
    <2>5. /\ \A x \in Name : told[x] # "nothing" => told'[x] # "nothing"
          /\ \A d \in waits \ {c} : told'[call[d].name] = told[call[d].name]
        BY <1>0, <1>a, <2>3 DEF OneWaits
    <2>6. OneWaits' /\ UnspoiledWaits' /\ CreatorTold'
        BY <1>0, <1>a, <2>1, <2>2, <2>4, <2>5 DEF OneWaits, UnspoiledWaits, CreatorTold
    <2>7. DeleterTold'
        <3> SUFFICES ASSUME NEW d \in Call \ {c}, Running(d), Deletes(d)
                     PROVE  told'[call[d].name] \in {"deleting", "deleted"}
            BY <2>1, <2>4 DEF DeleterTold
        <3>1. told[call[d].name] \in {"deleting", "deleted"} /\ call[d].name \in Name
            BY <1>0, <1>a DEF DeleterTold
        <3>2. c \in waits /\ Creates(c) => call[c].name # call[d].name
            BY <1>0, <3>1 DEF CreatorTold
        <3> QED
            BY <1>a, <2>1, <2>3, <3>1, <3>2
    <2>8. SourceTold'
        BY <1>0, <1>a, <2>1, <2>4, <2>5 DEF SourceTold, Name
    <2>9. CleanupTold'
        <3> SUFFICES ASSUME NEW d \in Call, call'[d].name \in call'[d].cleanup, call'[d].name \notin spoiled'
                     PROVE  told'[call'[d].name] = "nothing"
            BY DEF CleanupTold
        <3>1. d # c /\ call'[d] = call[d] /\ Running(d)
            BY <1>b, <2>1, OverCall
        <3>2. d \in waits
            BY <1>0, <2>2, <3>1 DEF UnspoiledWaits
        <3> QED
            BY <1>0, <2>2, <2>5, <3>1, <3>2 DEF CleanupTold
    <2> QED
        BY <2>6, <2>7, <2>8, <2>9
<1>6. ASSUME NEW n \in Node, Crash(n) PROVE RequestInv'
    <2>1. /\ \A c \in Dead(n) : call'[c] = Over /\ ~Running(c)' /\ Running(c)
          /\ \A c \in Call \ Dead(n) : call'[c] = call[c]
        BY <1>0, <1>6, CrashedCall
    <2>2. /\ waits' = waits \ Dead(n) /\ UNCHANGED told /\ spoiled \subseteq spoiled'
        BY <1>6 DEF Crash, Dead
    <2>3. \A d \in Call \ Dead(n) : /\ Running(d)' <=> Running(d)
                                    /\ Creates(d)' <=> Creates(d)
                                    /\ Deletes(d)' <=> Deletes(d)
        BY <2>1 DEF Running, Creates, Deletes
    <2>4. OneWaits' /\ UnspoiledWaits' /\ CreatorTold' /\ DeleterTold' /\ SourceTold'
        BY <1>0, <1>a, <2>1, <2>2, <2>3
           DEF OneWaits, UnspoiledWaits, CreatorTold, DeleterTold, SourceTold
    <2>5. CleanupTold'
        BY <1>0, <2>1, <2>2, OverCall DEF CleanupTold
    <2> QED
        BY <2>4, <2>5
<1>7. ASSUME NEW c \in Call, NEW v \in Vol, Unlock(c, v) PROVE RequestInv'
    BY <1>1, <1>7 DEF Unlock
<1>8. ASSUME NEW n \in Node, NEW v \in Vol, Stage(n, v) \/ Unstage(n, v) \/ Write(n, v) PROVE RequestInv'
    BY <1>1, <1>8 DEF Stage, Unstage, Write, history
<1>9. CASE UNCHANGED vars
    BY <1>1, <1>9 DEF vars
<1> QED
    BY <1>0, <1>2, <1>3, <1>4, <1>5, <1>6, <1>7, <1>8, <1>9, NextKinds

-----------------------------------------------------------------------------
(* The commands of lvm, point by point. *)
Removed(x) == {x} \cup Snapshots(x)

(* lvremove. *)
LEMMA RemoveFacts ==
    ASSUME TypeOK, NEW x \in Lv, LvRemove(x)
    PROVE  /\ exists' = exists \ Removed(x) /\ x \in Removed(x)
           /\ \A y \in Removed(x) : y = x \/ (y \in Snap \cup Call /\ y \in exists /\ origin[y] = x)
           /\ \A y \in (exists \ Vol) \ Removed(x) : origin[y] # x
           /\ \A y \in (Snap \cup Call) \ Removed(x) : origin'[y] = origin[y]
           /\ \A v \in Vol : lease'[v] = IF v = x THEN None ELSE lease[v]
           /\ \A y \in Lv \ Removed(x) : data'[y] = data[y]
    BY DEF LvRemove, Removed, Snapshots, TypeOK, Lv, Name

(* A new snapshot. *)
LEMMA SnapFacts ==
    ASSUME TypeOK, NEW x \in Snap \cup Call, NEW v \in Vol, LvCreateSnapshot(x, v)
    PROVE  /\ exists' = exists \cup {x} /\ lease' = lease
           /\ origin'[x] = v /\ data'[x] = data[v]
           /\ \A y \in (Snap \cup Call) \ {x} : origin'[y] = origin[y]
           /\ \A y \in Lv \ {x} : data'[y] = data[y]
    BY DEF LvCreateSnapshot, TypeOK, Lv, Name

(* A new volume. *)
LEMMA MakeFacts ==
    ASSUME TypeOK, NEW n \in Node, NEW v \in Vol, LvCreate(n, v)
    PROVE  /\ exists' = exists \cup {v} /\ origin' = origin /\ data' = data
           /\ \A w \in Vol : lease'[w] = IF w = v THEN n ELSE lease[w]
    BY DEF LvCreate, TypeOK

(* A lock. *)
LEMMA LockFacts ==
    ASSUME TypeOK, NEW n \in Node, NEW v \in Vol, NEW op \in Call \cup {"stage"}, Locked(n, v, op)
    PROVE  /\ ops'[n][v] = ops[n][v] \cup {op}
           /\ \A m \in Node, w \in Vol : m # n \/ w # v => ops'[m][w] = ops[m][w]
           /\ \A w \in Vol \ {v} : lease'[w] = lease[w]
           /\ ops[n][v] # {} => lease'[v] = lease[v]
           /\ ops[n][v] = {} => lease'[v] = n /\ v \in exists /\ lease[v] \in {None, n}
    BY DEF Locked, TypeOK, Activatable

(* A step that is not one of a handler, as far as requests see it. *)
Fresh(d) ==
    /\ call[d].pc = "new" /\ ~Running(d) /\ Running(d)'
    /\ call'[d].cleanup = {} /\ call'[d].at \in Node
    /\ call'[d].pc \in {"remove", "lock", "create", "lookup"}
    /\ call'[d].src \in Snap => call'[d].pc = "lookup"
    /\ call'[d].pc = "create" => call'[d].lockVol = None

Outside ==
    /\ UNCHANGED <<exists, origin>>
    /\ spoiled \subseteq spoiled' /\ leaked \subseteq leaked'
    /\ \A x \in Name : told[x] # "nothing" => told'[x] # "nothing"
    /\ \A d \in Call : call'[d] = call[d] \/ call'[d] = Over \/ Fresh(d)

(* Requests come, are given up, are answered; volumes are unlocked, staged and written; *)
(* drivers die.                                                            *)
LEMMA OutsideSteps ==
    ASSUME TypeOK, \A d \in Call : CallShape(d),
           \/ UNCHANGED vars
           \/ \E c \in Call : \/ Asked(c) \/ GiveUp(c) \/ Answer(c)
                              \/ \E v \in Vol : Unlock(c, v)
           \/ \E n \in Node, v \in Vol : Stage(n, v) \/ Unstage(n, v) \/ Write(n, v)
           \/ \E n \in Node : Crash(n)
    PROVE  Outside
<1>0. told \in [Name -> {"nothing", "created", "deleting", "deleted"}]
    BY DEF TypeOK
<1>1. CASE UNCHANGED vars
    BY <1>1 DEF vars, Outside
<1>2. ASSUME NEW c \in Call, Asked(c) PROVE Outside
    <2>1. PICK n, op, name, src : n \in Node /\ Asks(n, c, op, name, src)
        BY <1>2 DEF Asked
    <2>2. /\ \A d \in Call \ {c} : call'[d] = call[d]
          /\ call[c].pc = "new" /\ ~Running(c) /\ Running(c)'
          /\ call'[c].cleanup = {} /\ call'[c].at = n /\ call'[c].src = src
          /\ call'[c].lockVol = IF src \in Vol THEN src ELSE None
          /\ call'[c].pc = FirstStep(op, src)
          /\ call'[c].pc \in {"remove", "lock", "create", "lookup"}
        BY <2>1, AskedCall
    <2>3. /\ src \in Snap => FirstStep(op, src) = "lookup"
          /\ FirstStep(op, src) = "create" => src = None
        BY <2>1, ControllerServerAssumption DEF Asks, FirstStep
    <2>4. Fresh(c)
        BY <2>1, <2>2, <2>3, ControllerServerAssumption DEF Fresh
    <2>5. UNCHANGED <<exists, origin, spoiled, leaked>>
          /\ told' \in {told, [told EXCEPT ![name] = "deleting"]}
        BY <2>1 DEF Asks, Request, lvm
    <2> QED
        BY <1>0, <2>2, <2>4, <2>5 DEF Outside
<1>3. ASSUME NEW c \in Call, GiveUp(c) PROVE Outside
    BY <1>3 DEF GiveUp, lvm, Outside
<1>4. ASSUME NEW c \in Call, Answer(c) PROVE Outside
    <2>1. call'[c] = Over /\ \A d \in Call \ {c} : call'[d] = call[d]
        BY <1>4, AnsweredCall
    <2>2. \A x \in Name : told[x] # "nothing" => told'[x] # "nothing"
        BY <1>0, <1>4 DEF Answer
    <2>3. UNCHANGED <<exists, origin, leaked>> /\ spoiled \subseteq spoiled'
        BY <1>4 DEF Answer, lvm
    <2> QED
        BY <2>1, <2>2, <2>3 DEF Outside
<1>5. ASSUME NEW c \in Call, NEW v \in Vol, Unlock(c, v) PROVE Outside
    BY <1>5 DEF Unlock, Outside
<1>6. ASSUME NEW n \in Node, NEW v \in Vol, Stage(n, v) \/ Unstage(n, v) \/ Write(n, v) PROVE Outside
    BY <1>6 DEF Stage, Unstage, Write, history, Outside
<1>7. ASSUME NEW n \in Node, Crash(n) PROVE Outside
    <2>1. /\ \A c \in Dead(n) : call'[c] = Over
          /\ \A c \in Call \ Dead(n) : call'[c] = call[c]
        BY <1>7, CrashedCall
    <2>2. /\ UNCHANGED <<exists, origin, told>>
          /\ spoiled \subseteq spoiled' /\ leaked \subseteq leaked'
        BY <1>7 DEF Crash
    <2> QED
        BY <2>1, <2>2 DEF Outside
<1> QED
    BY <1>1, <1>2, <1>3, <1>4, <1>5, <1>6, <1>7

-----------------------------------------------------------------------------
LvmInv == LeaseExists /\ OriginExists /\ TemporaryOrigin /\ SourceOrigin

(* A volume is active only if it exists. *)
LEMMA NextLeaseExists == ASSUME Inv, [Next]_vars PROVE LeaseExists'
<1>0. TypeOK /\ LeaseExists /\ OriginExists /\ \A c \in Call : CallShape(c)
    BY DEF Inv
<1> USE <1>0 DEF LeaseExists
<1>1. ASSUME UNCHANGED <<exists, lease>> PROVE LeaseExists'
    BY <1>1
<1>2. ASSUME NEW c \in Call, HandlerStep(c) PROVE LeaseExists'
    <2>0. call[c].at \in Node
        BY <1>2 DEF HandlerStep, Frame, TypeOK
    <2>1. ASSUME NEW v \in Vol, Takes(c, v) PROVE LeaseExists'
        BY <2>0, <2>1, LockFacts DEF Takes
    <2>2. ASSUME NEW v \in Vol, Activates(c, v) PROVE LeaseExists'
        BY <2>2 DEF Activates, Activatable, TypeOK
    <2>3. ASSUME NEW x \in Lv, Removes(c, x) PROVE LeaseExists'
        <3>1. LvRemove(x) /\ Vol \cap (Snap \cup Call) = {}
            BY <2>3, ControllerServerAssumption DEF Removes
        <3> QED
            BY <3>1, RemoveFacts
    <2>4. ASSUME NEW x \in Snap \cup {c}, Snaps(c, x) PROVE LeaseExists'
        BY <2>4, SnapFacts DEF Snaps
    <2>5. ASSUME Makes(c) PROVE LeaseExists'
        BY <2>0, <2>5, MakeFacts DEF Makes
    <2>6. ASSUME Moves(c) \/ FillsFirst(c) \/ FillsSecond(c) PROVE LeaseExists'
        BY <1>1, <2>6 DEF Moves, lvm, FillsFirst, FillsSecond
    <2> QED
        BY <1>2, <2>1, <2>2, <2>3, <2>4, <2>5, <2>6 DEF HandlerStep
<1>3. ASSUME NEW c \in Call, Asked(c) \/ GiveUp(c) \/ Answer(c) PROVE LeaseExists'
    BY <1>1, <1>3 DEF Asked, Asks, Request, GiveUp, Answer, lvm
<1>4. ASSUME NEW c \in Call, NEW v \in Vol, Unlock(c, v) PROVE LeaseExists'
    BY <1>4 DEF Unlock, TypeOK
<1>5. ASSUME NEW n \in Node, NEW v \in Vol, Stage(n, v) \/ Unstage(n, v) \/ Write(n, v) PROVE LeaseExists'
    <2>1. ASSUME Stage(n, v) PROVE LeaseExists'
        BY <2>1, LockFacts DEF Stage
    <2>2. ASSUME Unstage(n, v) PROVE LeaseExists'
        BY <2>2 DEF Unstage, TypeOK
    <2> QED
        BY <1>1, <1>5, <2>1, <2>2 DEF Write
<1>6. ASSUME NEW n \in Node, Crash(n) PROVE LeaseExists'
    BY <1>6 DEF Crash, TypeOK
<1>7. CASE UNCHANGED vars
    BY <1>1, <1>7 DEF vars
<1> QED
    BY <1>2, <1>3, <1>4, <1>5, <1>6, <1>7, NextKinds

(* The parts that are about snapshots and their origins, when a handler runs. *)
LEMMA HandlerOrigin ==
    ASSUME Inv, NEW c \in Call, HandlerStep(c)
    PROVE  OriginExists' /\ TemporaryOrigin' /\ SourceOrigin'
<1> DEFINE r == call[c]
           q == call'[c]
<1>0. TypeOK /\ OriginExists /\ TemporaryOrigin /\ SourceOrigin /\ \A d \in Call : CallShape(d)
    BY DEF Inv
<1>1. Frame(c) /\ CallShape(c) /\ CallShape(c)'
    BY <1>0 DEF HandlerStep
<1>2. /\ told' = told /\ spoiled \subseteq spoiled' /\ r.at \in Node /\ r \in CallRec
      /\ q.src = r.src /\ q.op = r.op /\ q.name = r.name /\ r.name \in Name
      /\ Running(c) /\ Running(c)'
      /\ \A d \in Call \ {c} : call'[d] = call[d] /\ (Running(d)' <=> Running(d))
    BY <1>0, <1>1 DEF Frame, TypeOK, Running
<1>3. Vol \cap (Snap \cup Call) = {} /\ Snap \cap Call = {} /\ None \notin Vol \cup Snap \cup Call /\ exists \subseteq Lv
    BY <1>0, ControllerServerAssumption DEF TypeOK
<1>4. ASSUME UNCHANGED <<exists, origin>>,
             c \in exists => q.pc \in (Held \ {"temp", "snapshot"}) \cup {"unwind", "over"},
             q.pc \in Held \cup {"lock"} /\ r.src \in Snap \cap exists
                 => \/ r.pc \in Held \cup {"lock"} /\ q.lockVol = r.lockVol
                    \/ q.lockVol = origin[r.src]
      PROVE  OriginExists' /\ TemporaryOrigin' /\ SourceOrigin'
    <2>1. OriginExists'
        BY <1>0, <1>2, <1>4 DEF OriginExists
    <2>2. TemporaryOrigin'
        BY <1>0, <1>2, <1>4 DEF TemporaryOrigin
    <2>3. SourceOrigin'
        BY <1>0, <1>2, <1>4 DEF SourceOrigin
    <2> QED
        BY <2>1, <2>2, <2>3
<1>5. ASSUME Moves(c) PROVE OriginExists' /\ TemporaryOrigin' /\ SourceOrigin'
    <2>1. UNCHANGED <<exists, origin>>
        BY <1>5 DEF Moves, lvm
    <2>2. c \in exists => q.pc \in (Held \ {"temp", "snapshot"}) \cup {"unwind", "over"}
        <3>1. c \in exists => r.pc \in (Held \ {"temp", "snapshot"}) \cup {"unwind"}
            BY <1>0, <1>2 DEF TemporaryOrigin, Running
        <3>2. r.pc \in Held => r.op # "DeleteVolume"
            BY <1>1, <1>2 DEF CallShape, Held
        <3> QED
            BY <1>5, <3>1, <3>2 DEF Moves, Held, Early
    <2>3. q.pc \in Held \cup {"lock"} /\ r.src \in Snap \cap exists
                 => \/ r.pc \in Held \cup {"lock"} /\ q.lockVol = r.lockVol
                    \/ q.lockVol = origin[r.src]
        <3> SUFFICES ASSUME q.pc \in Held \cup {"lock"}, r.src \in Snap \cap exists
                     PROVE  \/ r.pc \in Held \cup {"lock"} /\ q.lockVol = r.lockVol
                            \/ q.lockVol = origin[r.src]
            OBVIOUS
        <3>1. CASE q.pc = "lock"
            BY <1>3, <1>5, <3>1 DEF Moves, Base
        <3>2. CASE q.pc # "lock"
            <4>1. q.pc = "existing" /\ r.pc \in {"create", "snapshot"}
                BY <1>5, <3>2 DEF Moves, Held, Early
            <4> QED
                BY <1>1, <4>1 DEF Frame, Early, Held
        <3> QED
            BY <3>1, <3>2
    <2> QED
        BY <1>4, <2>1, <2>2, <2>3
<1>6. ASSUME NEW v \in Vol, Takes(c, v) \/ Activates(c, v)
      PROVE  OriginExists' /\ TemporaryOrigin' /\ SourceOrigin'
    <2>1. UNCHANGED <<exists, origin>> /\ q.lockVol = r.lockVol
        BY <1>6 DEF Takes, Activates
    <2>2. c \in exists => r.pc # "lock"
        BY <1>0, <1>2 DEF TemporaryOrigin, Held, Running
    <2>3. \/ r.pc = "lock" /\ q.pc \in {"snapshot", "remove", "temp", "create", "unwind"}
          \/ r.pc = "locknew" /\ q.pc \in {"fill", "unwind"}
        BY <1>6 DEF Takes, Activates
    <2> QED
        BY <1>4, <2>1, <2>2, <2>3 DEF Held
<1>7. ASSUME FillsFirst(c) \/ FillsSecond(c) PROVE OriginExists' /\ TemporaryOrigin' /\ SourceOrigin'
    <2>1. UNCHANGED <<exists, origin>> /\ r.pc \in {"fill", "half"} /\ q.pc \in {"half", "unwind"}
        BY <1>7 DEF FillsFirst, FillsSecond
    <2>2. q.lockVol = r.lockVol
        BY <1>1, <2>1 DEF Frame, Early
    <2> QED
        BY <1>4, <2>1, <2>2 DEF Held
<1>8. ASSUME Makes(c) PROVE OriginExists' /\ TemporaryOrigin' /\ SourceOrigin'
    <2>1. /\ exists' = exists \cup {r.name} /\ origin' = origin /\ r.name \in Vol
          /\ r.pc = "create" /\ q.pc \in {"locknew", "unwind"}
        BY <1>0, <1>2, <1>8, MakeFacts DEF Makes
    <2>2. q.lockVol = r.lockVol
        BY <1>1, <2>1 DEF Frame, Early
    <2>3. OriginExists'
        BY <1>0, <1>2, <2>1 DEF OriginExists
    <2>4. TemporaryOrigin'
        BY <1>0, <1>2, <1>3, <2>1 DEF TemporaryOrigin, Held
    <2>5. SourceOrigin'
        BY <1>0, <1>2, <1>3, <2>1, <2>2 DEF SourceOrigin, Held
    <2> QED
        BY <2>3, <2>4, <2>5
<1>9. ASSUME NEW x \in Lv, Removes(c, x) PROVE OriginExists' /\ TemporaryOrigin' /\ SourceOrigin'
    <2>1. /\ exists' = exists \ Removed(x) /\ x \in Removed(x)
          /\ \A y \in Removed(x) : y = x \/ (y \in Snap \cup Call /\ y \in exists /\ origin[y] = x)
          /\ \A y \in (exists \ Vol) \ Removed(x) : origin[y] # x
          /\ \A y \in (Snap \cup Call) \ Removed(x) : origin'[y] = origin[y]
        BY <1>0, <1>9, RemoveFacts DEF Removes
    <2>2. r.pc \in {"remove", "unwind"} /\ q.pc \in {"check", "unwind"} /\ (r.pc = "unwind" => q.pc = "unwind")
        BY <1>9 DEF Removes
    <2>3. \A y \in exists' \ Vol : y \in exists /\ y \in Snap \cup Call /\ origin'[y] = origin[y] /\ origin[y] # x
        BY <1>3, <2>1 DEF Lv, Name
    <2>4. OriginExists'
        <3> SUFFICES ASSUME NEW y \in exists' \ Vol
                     PROVE  origin'[y] \in Vol \cap exists' /\ told'[origin'[y]] # "nothing"
            BY DEF OriginExists
        <3>1. origin[y] \in Vol \cap exists /\ told[origin[y]] # "nothing" /\ origin[y] # x /\ origin'[y] = origin[y]
            BY <1>0, <2>3 DEF OriginExists
        <3>2. origin[y] \notin Removed(x)
            BY <1>3, <2>1, <3>1
        <3> QED
            BY <1>2, <2>1, <3>1, <3>2
    <2>5. TemporaryOrigin'
        <3>1. c \in exists => r.pc # "remove"
            BY <1>0, <1>2 DEF TemporaryOrigin, Held, Running
        <3>2. \A d \in exists' \cap Call : d \in exists \cap Call /\ origin'[d] = origin[d]
            BY <1>3, <2>1
        <3> QED
            BY <1>0, <1>2, <2>2, <3>1, <3>2 DEF TemporaryOrigin
    <2>6. SourceOrigin'
        BY <1>0, <1>2, <1>3, <2>1, <2>2 DEF SourceOrigin, Held
    <2> QED
        BY <2>4, <2>5, <2>6
<1>10. ASSUME NEW x \in Snap \cup {c}, Snaps(c, x) PROVE OriginExists' /\ TemporaryOrigin' /\ SourceOrigin'
    <2>1. /\ exists' = exists \cup {x} /\ origin'[x] = r.src /\ r.src \in Vol \cap exists
          /\ \A y \in (Snap \cup Call) \ {x} : origin'[y] = origin[y]
        BY <1>0, <1>10, SnapFacts DEF Snaps, Active
    <2>2. told[r.src] # "nothing"
        BY <1>2, <1>3, <2>1 DEF Inv, SourceTold
    <2>3. \/ r.pc = "temp" /\ x = c /\ q.pc \in {"create", "unwind"}
          \/ r.pc = "snapshot" /\ x = r.name /\ x \in Snap \ exists /\ q.pc \in {"existing", "unwind"}
        BY <1>10 DEF Snaps
    <2>4. OriginExists'
        BY <1>0, <1>2, <1>3, <2>1, <2>2 DEF OriginExists, Lv, Name
    <2>5. TemporaryOrigin'
        <3>1. \A d \in exists' \cap Call : d # x => d \in exists \cap Call /\ origin'[d] = origin[d]
            BY <1>3, <2>1
        <3>2. r.pc = "snapshot" => c \notin exists
            BY <1>0, <1>2 DEF TemporaryOrigin, Held, Running
        <3> QED
            BY <1>0, <1>2, <1>3, <2>1, <2>3, <3>1, <3>2 DEF TemporaryOrigin, Held
    <2>6. SourceOrigin'
        <3> SUFFICES ASSUME NEW d \in Call, call'[d].pc \in Held \cup {"lock"},
                            call'[d].src \in Snap \cap exists', call'[d].src \notin spoiled'
                     PROVE  origin'[call'[d].src] = call'[d].lockVol
            BY DEF SourceOrigin
        <3>1. d # c
            BY <1>2, <1>3, <2>1
        <3>2. call'[d] = call[d] /\ Running(d) /\ call[d].src \in Snap /\ call[d].src \notin spoiled
            BY <1>2, <3>1 DEF Running, Held
        <3>3. call[d].src # x
            <4> SUFFICES ASSUME call[d].src = x PROVE FALSE
                OBVIOUS
            <4>1. x = r.name /\ x \in Snap \ exists /\ r.pc = "snapshot"
                BY <1>3, <2>3, <3>2
            <4>2. told[x] # "nothing"
                BY <1>3, <3>2 DEF Inv, SourceTold
            <4>3. c \in waits /\ Creates(c)
                BY <1>1, <1>2, <3>2, <4>1 DEF Inv, UnspoiledWaits, CallShape, Creates, Early
            <4>4. told[x] = "created"
                BY <4>1, <4>2, <4>3 DEF Inv, CreatorTold
            <4> QED
                BY <3>2, <4>1, <4>4 DEF Inv, CreatedExists, Name
        <3> QED
            BY <1>0, <1>2, <1>3, <2>1, <3>1, <3>2, <3>3 DEF SourceOrigin
    <2> QED
        BY <2>4, <2>5, <2>6
<1> QED
    BY <1>5, <1>6, <1>7, <1>8, <1>9, <1>10 DEF HandlerStep

(* Logical volumes, their origins and leases. *)
LEMMA NextLvm == ASSUME Inv, [Next]_vars PROVE LvmInv'
<1>0. TypeOK /\ OriginExists /\ TemporaryOrigin /\ SourceOrigin /\ \A c \in Call : CallShape(c)
    BY DEF Inv
<1>1. LeaseExists'
    BY NextLeaseExists
<1>2. ASSUME Outside PROVE OriginExists' /\ TemporaryOrigin' /\ SourceOrigin'
    <2>1. UNCHANGED <<exists, origin>> /\ spoiled \subseteq spoiled'
        BY <1>2 DEF Outside
    <2>2. OriginExists'
        BY <1>0, <1>2 DEF Outside, OriginExists, Name
    <2>3. TemporaryOrigin'
        <3>1. \A d \in exists \cap Call : call[d].pc # "new"
            BY <1>0 DEF TemporaryOrigin, Held
        <3> QED
            BY <1>0, <1>2, <2>1, <3>1, OverCall DEF Outside, Fresh, TemporaryOrigin, Running
    <2>4. SourceOrigin'
        BY <1>0, <1>2, <2>1, OverCall DEF Outside, Fresh, SourceOrigin, Held
    <2> QED
        BY <2>2, <2>3, <2>4
<1> QED
    BY <1>0, <1>1, <1>2, HandlerOrigin, NextKinds, OutsideSteps DEF LvmInv

-----------------------------------------------------------------------------
(* What a step can change, and by which action. *)

(* A request. *)
LEMMA NextCall ==
    ASSUME TypeOK, OriginExists, \A c \in Call : CallShape(c), [Next]_vars, NEW d \in Call
    PROVE  call'[d] = call[d] \/ call'[d] = Over \/ Fresh(d) \/ HandlerStep(d)
<1>1. ASSUME NEW c \in Call, HandlerStep(c) PROVE d = c \/ call'[d] = call[d]
    BY <1>1 DEF HandlerStep, Frame
<1> QED
    BY <1>1, NextKinds, OutsideSteps DEF Outside

(* The operations that lock a volume. *)
LEMMA NextOps ==
    ASSUME TypeOK, OriginExists, \A c \in Call : CallShape(c), [Next]_vars,
           NEW n \in Node, NEW v \in Vol, NEW op
    PROVE  /\ op \in ops'[n][v] \ ops[n][v] =>
                 \/ op = "stage" /\ Stage(n, v)
                 \/ op \in Call /\ HandlerStep(op) /\ Takes(op, v) /\ call[op].at = n
           /\ op \in ops[n][v] \ ops'[n][v] =>
                 \/ op = "stage" /\ Unstage(n, v)
                 \/ op \in Call /\ Unlock(op, v) /\ call[op].at = n
                 \/ op \in Call /\ Crash(n)
<1> DEFINE Goal ==
           /\ op \in ops'[n][v] \ ops[n][v] =>
                 \/ op = "stage" /\ Stage(n, v)
                 \/ op \in Call /\ HandlerStep(op) /\ Takes(op, v) /\ call[op].at = n
           /\ op \in ops[n][v] \ ops'[n][v] =>
                 \/ op = "stage" /\ Unstage(n, v)
                 \/ op \in Call /\ Unlock(op, v) /\ call[op].at = n
                 \/ op \in Call /\ Crash(n)
<1>0. ops \in [Node -> [Vol -> SUBSET (Call \cup {"stage"})]]
    BY DEF TypeOK
<1>1. ASSUME UNCHANGED ops PROVE Goal
    BY <1>1
<1>2. ASSUME NEW c \in Call, Asked(c) \/ GiveUp(c) \/ Answer(c) PROVE Goal
    BY <1>1, <1>2 DEF Asked, Asks, Request, GiveUp, Answer
<1>3. ASSUME NEW c \in Call, HandlerStep(c) PROVE Goal
    <2>0. call[c].at \in Node
        BY <1>3 DEF HandlerStep, Frame, TypeOK
    <2>1. ASSUME NEW w \in Vol, Takes(c, w) PROVE Goal
        <3>1. Locked(call[c].at, w, c) /\ c \in Call \cup {"stage"}
            BY <2>1 DEF Takes
        <3>2. /\ ops'[call[c].at][w] = ops[call[c].at][w] \cup {c}
              /\ \A m \in Node, u \in Vol : m # call[c].at \/ u # w => ops'[m][u] = ops[m][u]
            BY <2>0, <3>1, LockFacts
        <3> QED
            BY <1>3, <2>1, <3>2
    <2>2. ASSUME ~\E w \in Vol : Takes(c, w) PROVE UNCHANGED ops
        BY <1>3, <2>2 DEF HandlerStep, Moves, Activates, Removes, Snaps, Makes, FillsFirst, FillsSecond
    <2> QED
        BY <1>1, <2>1, <2>2
<1>4. ASSUME NEW c \in Call, NEW w \in Vol, Unlock(c, w) PROVE Goal
    <2>1. call[c].at \in Node
        BY <1>4 DEF Unlock, TypeOK, Running
    <2>2. \A m \in Node, u \in Vol :
             ops'[m][u] = IF m = call[c].at /\ u = w THEN ops[m][u] \ {c} ELSE ops[m][u]
        BY <1>0, <1>4, <2>1 DEF Unlock
    <2> QED
        BY <1>4, <2>2
<1>5. ASSUME NEW m \in Node, NEW w \in Vol, Stage(m, w) PROVE Goal
    <2>1. Locked(m, w, "stage") /\ "stage" \in Call \cup {"stage"}
        BY <1>5 DEF Stage
    <2>2. /\ ops'[m][w] = ops[m][w] \cup {"stage"}
          /\ \A k \in Node, u \in Vol : k # m \/ u # w => ops'[k][u] = ops[k][u]
        BY <2>1, LockFacts
    <2> QED
        BY <1>5, <2>2
<1>6. ASSUME NEW m \in Node, NEW w \in Vol, Unstage(m, w) PROVE Goal
    <2>1. \A k \in Node, u \in Vol :
             ops'[k][u] = IF k = m /\ u = w THEN ops[k][u] \ {"stage"} ELSE ops[k][u]
        BY <1>0, <1>6 DEF Unstage
    <2> QED
        BY <1>6, <2>1
<1>7. ASSUME NEW m \in Node, NEW w \in Vol, Write(m, w) PROVE Goal
    BY <1>1, <1>7 DEF Write
<1>8. ASSUME NEW m \in Node, Crash(m) PROVE Goal
    <2>1. \A k \in Node, u \in Vol :
             ops'[k][u] = IF k = m THEN ops[k][u] \cap {"stage"} ELSE ops[k][u]
        BY <1>0, <1>8 DEF Crash
    <2> QED
        BY <1>0, <1>8, <2>1
<1>9. CASE UNCHANGED vars
    BY <1>1, <1>9 DEF vars
<1>10. Goal
    BY <1>2, <1>3, <1>4, <1>5, <1>6, <1>7, <1>8, <1>9, NextKinds
<1> QED
    BY <1>10

(* The logical volumes. *)
LEMMA NextExists ==
    ASSUME TypeOK, OriginExists, \A c \in Call : CallShape(c), [Next]_vars, NEW x
    PROVE  /\ x \in exists \ exists' =>
                 \E c \in Call, y \in Lv : HandlerStep(c) /\ Removes(c, y) /\ x \in Removed(y)
           /\ x \in exists' \ exists =>
                 \E c \in Call : HandlerStep(c) /\ \/ Makes(c) /\ x = call[c].name
                                                   \/ x \in Snap \cup {c} /\ Snaps(c, x)
<1> DEFINE Goal ==
           /\ x \in exists \ exists' =>
                 \E c \in Call, y \in Lv : HandlerStep(c) /\ Removes(c, y) /\ x \in Removed(y)
           /\ x \in exists' \ exists =>
                 \E c \in Call : HandlerStep(c) /\ \/ Makes(c) /\ x = call[c].name
                                                   \/ x \in Snap \cup {c} /\ Snaps(c, x)
<1>1. ASSUME UNCHANGED exists PROVE Goal
    BY <1>1
<1>2. ASSUME NEW c \in Call, HandlerStep(c) PROVE Goal
    <2>1. ASSUME NEW y \in Lv, Removes(c, y) PROVE Goal
        BY <1>2, <2>1, RemoveFacts DEF Removes
    <2>2. ASSUME NEW y \in Snap \cup {c}, Snaps(c, y) PROVE Goal
        BY <1>2, <2>2, SnapFacts DEF Snaps
    <2>3. ASSUME Makes(c) PROVE Goal
        <3>1. call[c].at \in Node
            BY <1>2 DEF HandlerStep, Frame, TypeOK
        <3> QED
            BY <1>2, <2>3, <3>1, MakeFacts DEF Makes
    <2>4. ASSUME \/ Moves(c) \/ FillsFirst(c) \/ FillsSecond(c)
                 \/ \E v \in Vol : Takes(c, v) \/ Activates(c, v)
          PROVE  Goal
        BY <1>1, <2>4 DEF Moves, lvm, FillsFirst, FillsSecond, Takes, Activates
    <2> QED
        BY <1>2, <2>1, <2>2, <2>3, <2>4 DEF HandlerStep
<1>3. Goal
    BY <1>1, <1>2, NextKinds, OutsideSteps DEF Outside
<1> QED
    BY <1>3

(* lvm does not deactivate, nor move, a volume that stays locked where it is active. *)
LEMMA LeaseKept ==
    ASSUME Inv, [Next]_vars, NEW v \in Vol, NEW n \in Node, NEW op,
           lease[v] = n, op \in ops[n][v], op \in ops'[n][v], v \in exists'
    PROVE  lease'[v] = n
<1>0. /\ TypeOK /\ OriginExists /\ (\A c \in Call : CallShape(c)) /\ StagedActive /\ LeaseExists
      /\ lease \in [Vol -> Node \cup {None}] /\ None \notin Node
    BY ControllerServerAssumption DEF Inv, TypeOK
<1>1. v \in exists
    BY <1>0 DEF LeaseExists
<1>2. ASSUME NEW m \in Node, NEW w \in Vol, NEW p \in Call \cup {"stage"}, Locked(m, w, p)
      PROVE  lease'[v] = n
    <2>1. /\ \A u \in Vol \ {w} : lease'[u] = lease[u]
          /\ ops[m][w] # {} => lease'[w] = lease[w]
          /\ ops[m][w] = {} => lease'[w] = m /\ w \in exists /\ lease[w] \in {None, m}
        BY <1>0, <1>2, LockFacts
    <2> QED
        BY <1>0, <2>1
<1>3. ASSUME NEW c \in Call, HandlerStep(c) PROVE lease'[v] = n
    <2>0. call[c].at \in Node
        BY <1>0, <1>3 DEF HandlerStep, Frame, TypeOK
    <2>1. ASSUME NEW w \in Vol, Takes(c, w) PROVE lease'[v] = n
        BY <1>2, <2>0, <2>1 DEF Takes
    <2>2. ASSUME NEW w \in Vol, Activates(c, w) PROVE lease'[v] = n
        BY <1>0, <2>0, <2>2 DEF Activates, Activatable
    <2>3. ASSUME NEW x \in Lv, Removes(c, x) PROVE lease'[v] = n
        <3>1. LvRemove(x)
            BY <2>3 DEF Removes
        <3> QED
            BY <1>0, <3>1, RemoveFacts
    <2>4. ASSUME NEW x \in Snap \cup {c}, Snaps(c, x) PROVE lease'[v] = n
        BY <1>0, <2>4, SnapFacts DEF Snaps
    <2>5. ASSUME Makes(c) PROVE lease'[v] = n
        BY <1>0, <1>1, <2>0, <2>5, MakeFacts DEF Makes
    <2>6. ASSUME Moves(c) \/ FillsFirst(c) \/ FillsSecond(c) PROVE lease'[v] = n
        BY <2>6 DEF Moves, lvm, FillsFirst, FillsSecond
    <2> QED
        BY <1>3, <2>1, <2>2, <2>3, <2>4, <2>5, <2>6 DEF HandlerStep
<1>4. ASSUME NEW c \in Call, Asked(c) \/ GiveUp(c) \/ Answer(c) PROVE lease'[v] = n
    BY <1>4 DEF Asked, Asks, Request, GiveUp, Answer, lvm
<1>5. ASSUME NEW c \in Call, NEW w \in Vol, Unlock(c, w) PROVE lease'[v] = n
    <2>1. call[c].at \in Node /\ ops \in [Node -> [Vol -> SUBSET (Call \cup {"stage"})]]
        BY <1>0, <1>5 DEF Unlock, TypeOK, Running
    <2>2. ASSUME w = v, call[c].at = n PROVE ops[n][v] # {c}
        BY <1>5, <2>1, <2>2 DEF Unlock
    <2>3. lease' = lease \/ (lease' = [lease EXCEPT ![w] = None] /\ ops[call[c].at][w] = {c} /\ lease[w] = call[c].at)
        BY <1>5 DEF Unlock, Active, Base
    <2> QED
        BY <1>0, <2>2, <2>3
<1>6. ASSUME NEW m \in Node, NEW w \in Vol, Stage(m, w) PROVE lease'[v] = n
    BY <1>2, <1>6 DEF Stage
<1>7. ASSUME NEW m \in Node, NEW w \in Vol, Unstage(m, w) PROVE lease'[v] = n
    <2>1. lease[w] = m /\ ops \in [Node -> [Vol -> SUBSET (Call \cup {"stage"})]]
        BY <1>0, <1>7 DEF Unstage, StagedActive, TypeOK
    <2>2. ASSUME w = v, m = n PROVE ops[n][v] # {"stage"}
        BY <1>7, <2>1, <2>2 DEF Unstage
    <2> QED
        BY <1>0, <1>7, <2>1, <2>2 DEF Unstage
<1>8. ASSUME NEW m \in Node, NEW w \in Vol, Write(m, w) PROVE lease'[v] = n
    BY <1>8 DEF Write
<1>9. ASSUME NEW m \in Node, Crash(m) PROVE lease'[v] = n
    <2>1. m = n => ops'[n][v] = ops[n][v] \cap {"stage"}
        BY <1>0, <1>9 DEF Crash, TypeOK
    <2>2. m = n => Staged(n, v)
        BY <2>1 DEF Staged
    <2> QED
        BY <1>0, <1>9, <2>2 DEF Crash
<1>10. CASE UNCHANGED vars
    BY <1>10 DEF vars
<1> QED
    BY <1>0, <1>3, <1>4, <1>5, <1>6, <1>7, <1>8, <1>9, <1>10, NextKinds

-----------------------------------------------------------------------------
OpsInv == OpsOfCalls /\ HeldLocks /\ StagedActive /\ LockedActive /\ FilledActive

(* A handler that holds a lock goes on with it. *)
LEMMA HandlerHolds ==
    ASSUME TypeOK, NEW c \in Call, CallShape(c), HandlerStep(c),
           call[c].pc \in Held \cup {"remove", "unwind"}
    PROVE  /\ call'[c].at = call[c].at /\ call'[c].lockVol = call[c].lockVol
           /\ call'[c].name = call[c].name /\ call'[c].src = call[c].src
           /\ call[c].lockVol # None => call'[c].pc \in Held \cup {"unwind"}
           /\ call[c].pc \in {"fill", "half", "unwind"} => call'[c].pc \in {"half", "unwind"}
           /\ call'[c].pc \in Held => call[c].pc \in Held
           /\ call'[c].pc = "fill" => call[c].pc = "locknew" /\ \E v \in Vol : Takes(c, v)
           /\ call'[c].pc = "half" => FillsFirst(c)
<1> DEFINE r == call[c]
           q == call'[c]
<1>1. Frame(c) /\ Running(c)
    BY DEF HandlerStep, Frame
<1>2. q.at = r.at /\ q.lockVol = r.lockVol /\ q.name = r.name /\ q.src = r.src
    BY <1>1 DEF Frame, Early, Held
<1>3. (r.lockVol # None \/ r.pc \in {"fill", "half"}) => r.op # "DeleteVolume"
    BY <1>1 DEF CallShape, Early, Held
<1> DEFINE Goal == /\ r.lockVol # None => q.pc \in Held \cup {"unwind"}
                   /\ r.pc \in {"fill", "half", "unwind"} => q.pc \in {"half", "unwind"}
                   /\ q.pc \in Held => r.pc \in Held
                   /\ q.pc = "fill" => r.pc = "locknew" /\ \E v \in Vol : Takes(c, v)
                   /\ q.pc = "half" => FillsFirst(c)
<1>4. ASSUME Moves(c) PROVE Goal
    BY <1>3, <1>4 DEF Moves, Early, Held
<1>5. ASSUME NEW v \in Vol, Takes(c, v) \/ Activates(c, v) PROVE Goal
    BY <1>5 DEF Takes, Activates, Held
<1>6. ASSUME NEW x, Removes(c, x) \/ Snaps(c, x) PROVE Goal
    BY <1>3, <1>6 DEF Removes, Snaps, Held
<1>7. ASSUME Makes(c) \/ FillsFirst(c) \/ FillsSecond(c) PROVE Goal
    BY <1>7 DEF Makes, FillsFirst, FillsSecond, Held
<1>8. Goal
    BY <1>4, <1>5, <1>6, <1>7 DEF HandlerStep
<1> QED
    BY <1>2, <1>8

(* The operations of a locked volume are those of handlers that hold it. *)
LEMMA NextOpsOfCalls == ASSUME Inv, [Next]_vars PROVE OpsOfCalls'
<1>0. /\ TypeOK /\ OriginExists /\ (\A c \in Call : CallShape(c)) /\ OpsOfCalls
      /\ ops \in [Node -> [Vol -> SUBSET (Call \cup {"stage"})]] /\ None \notin Vol
    BY ControllerServerAssumption DEF Inv, TypeOK
<1> SUFFICES ASSUME NEW n \in Node, NEW v \in Vol, NEW c \in Call, c \in ops'[n][v]
             PROVE  /\ call'[c].at = n
                    /\ \/ v = call'[c].name /\ call'[c].pc \in {"fill", "half", "unwind"}
                       \/ v = call'[c].lockVol /\ call'[c].pc \in Held \cup {"remove", "unwind"}
    BY DEF OpsOfCalls
<1>1. CASE c \notin ops[n][v]
    <2>1. c # "stage"
        BY ControllerServerAssumption
    <2>2. HandlerStep(c) /\ Takes(c, v) /\ call[c].at = n
        BY <1>0, <1>1, <2>1, NextOps
    <2> QED
        BY <2>2 DEF Takes, Held, HandlerStep, Frame
<1>2. CASE c \in ops[n][v]
    <2>1. /\ call[c].at = n
          /\ \/ v = call[c].name /\ call[c].pc \in {"fill", "half", "unwind"}
             \/ v = call[c].lockVol /\ call[c].pc \in Held \cup {"remove", "unwind"}
        BY <1>0, <1>2 DEF OpsOfCalls
    <2>2. call[c].pc \in Held \cup {"remove", "unwind"} /\ Running(c) /\ call[c].pc \notin {"new", "queued"}
        BY <2>1 DEF Held, Running
    <2>3. ASSUME HandlerStep(c)
          PROVE  /\ call'[c].at = n
                 /\ \/ v = call'[c].name /\ call'[c].pc \in {"fill", "half", "unwind"}
                    \/ v = call'[c].lockVol /\ call'[c].pc \in Held \cup {"remove", "unwind"}
        BY <1>0, <2>1, <2>2, <2>3, HandlerHolds
    <2>4. ASSUME NEW d \in Call, Answer(d) PROVE c # d
        BY <2>1, <2>4, <1>2 DEF Answer, Mine
    <2>5. ASSUME NEW m \in Node, Crash(m) PROVE c \notin Dead(m)
        <3>1. m # n
            BY <1>0, <2>5, ControllerServerAssumption DEF Crash
        <3> QED
            BY <2>1, <3>1 DEF Dead
    <2>6. call'[c] = Over => FALSE
        <3> SUFFICES ASSUME call'[c] = Over PROVE FALSE
            OBVIOUS
        <3>1. call'[c] # call[c] /\ ~Fresh(c) /\ ~HandlerStep(c)
            BY <2>2, OverCall DEF Running, Fresh, HandlerStep, Frame
        <3>2. ASSUME NEW d \in Call, Asked(d) PROVE d = c \/ call'[c] = call[c]
            BY <1>0, <3>2, AskedCall DEF Asked
        <3>3. ASSUME NEW d \in Call, HandlerStep(d) PROVE d = c \/ call'[c] = call[c]
            BY <3>3 DEF HandlerStep, Frame
        <3>4. ASSUME NEW d \in Call, Answer(d) PROVE d = c \/ call'[c] = call[c]
            BY <1>0, <3>4, AnsweredCall
        <3>5. ASSUME NEW m \in Node, Crash(m) PROVE c \in Dead(m) \/ call'[c] = call[c]
            BY <1>0, <3>5, CrashedCall
        <3>6. ASSUME NEW d \in Call, Asked(d) PROVE d # c
            BY <2>2, <3>6, <1>0, AskedCall DEF Asked
        <3>7. \/ UNCHANGED call
              \/ \E d \in Call : Asked(d) \/ HandlerStep(d) \/ Answer(d)
              \/ \E m \in Node : Crash(m)
            BY <1>0, NextKinds DEF vars, GiveUp, Unlock, Stage, Unstage, Write
        <3> QED
            BY <2>4, <2>5, <3>1, <3>2, <3>3, <3>4, <3>5, <3>6, <3>7
    <2> QED
        BY <1>0, <2>1, <2>2, <2>3, <2>6, NextCall DEF Fresh
<1> QED
    BY <1>1, <1>2

(* A handler that is past its lock has it. *)
LEMMA NextHeldLocks == ASSUME Inv, [Next]_vars PROVE HeldLocks'
<1>0. /\ TypeOK /\ OriginExists /\ (\A c \in Call : CallShape(c)) /\ HeldLocks
      /\ ops \in [Node -> [Vol -> SUBSET (Call \cup {"stage"})]] /\ None \notin Vol
    BY ControllerServerAssumption DEF Inv, TypeOK
<1>a. TypeOK' /\ \A c \in Call : CallShape(c)'
    BY <1>0, NextType
<1>1. ASSUME NEW c \in Call, NEW v \in Vol, c \in ops[call[c].at][v], call[c].at \in Node,
             call[c].pc \in Held, call'[c].at = call[c].at, call'[c] # Over
      PROVE  c \in ops'[call'[c].at][v]
    <2> SUFFICES ASSUME c \notin ops'[call[c].at][v] PROVE FALSE
        BY <1>1
    <2>1. c # "stage" /\ c \in ops[call[c].at][v] \ ops'[call[c].at][v]
        BY <1>1, ControllerServerAssumption
    <2>2. Unlock(c, v) \/ Crash(call[c].at)
        BY <1>0, <1>1, <2>1, NextOps
    <2>3. ~Unlock(c, v)
        BY <1>1 DEF Unlock, Held
    <2>4. c \in Dead(call[c].at)
        BY <1>1 DEF Dead, Held, Running
    <2> QED
        BY <1>0, <1>1, <2>2, <2>3, <2>4, CrashedCall
<1> SUFFICES ASSUME NEW c \in Call
             PROVE  /\ call'[c].pc \in Held /\ call'[c].lockVol # None
                          => c \in ops'[call'[c].at][call'[c].lockVol]
                    /\ call'[c].pc \in {"fill", "half"} => c \in ops'[call'[c].at][call'[c].name]
    BY DEF HeldLocks
<1>2. call'[c].pc \in {"fill", "half"} => call'[c].pc \in Held
    BY DEF Held
<1> SUFFICES ASSUME call'[c].pc \in Held
             PROVE  /\ call'[c].lockVol # None => c \in ops'[call'[c].at][call'[c].lockVol]
                    /\ call'[c].pc \in {"fill", "half"} => c \in ops'[call'[c].at][call'[c].name]
    BY <1>2
<1>3. /\ call'[c] # Over /\ Running(c)' /\ call'[c].lockVol \in Vol \cup {None}
      /\ call'[c].pc \in {"fill", "half"} => call'[c].name \in Vol
    BY <1>a, OverCall DEF Held, Running, CallShape, Early, TypeOK, CallRec
<1>4. CASE call'[c] = call[c]
    <2>1. call[c].at \in Node
        BY <1>0, <1>3, <1>4 DEF TypeOK, Running
    <2> QED
        BY <1>0, <1>1, <1>3, <1>4, <2>1 DEF HeldLocks
<1>5. CASE Fresh(c)
    BY <1>5 DEF Fresh, Held
<1>6. CASE HandlerStep(c)
    <2>0. call[c].at \in Node
        BY <1>0, <1>6 DEF HandlerStep, Frame, TypeOK
    <2>1. ASSUME NEW v \in Vol, Takes(c, v) PROVE c \in ops'[call[c].at][v] /\ call'[c].at = call[c].at
        <3>1. Locked(call[c].at, v, c) /\ c \in Call \cup {"stage"} /\ call'[c].at = call[c].at
            BY <2>1 DEF Takes
        <3>2. ops'[call[c].at][v] = ops[call[c].at][v] \cup {c}
            BY <1>0, <2>0, <3>1, LockFacts
        <3> QED
            BY <3>1, <3>2
    <2>2. CASE call[c].pc \in Held \cup {"remove", "unwind"}
        <3>1. /\ call'[c].at = call[c].at /\ call'[c].lockVol = call[c].lockVol
              /\ call'[c].name = call[c].name /\ call[c].pc \in Held
              /\ call'[c].pc = "fill" => call[c].pc = "locknew" /\ \E v \in Vol : Takes(c, v)
              /\ call'[c].pc = "half" => call[c].pc = "fill"
            BY <1>0, <1>6, <2>2, HandlerHolds DEF FillsFirst
        <3>2. call'[c].lockVol # None => c \in ops'[call'[c].at][call'[c].lockVol]
            BY <1>0, <1>1, <1>3, <2>0, <3>1 DEF HeldLocks
        <3>3. CASE call'[c].pc = "half"
            BY <1>0, <1>1, <1>3, <2>0, <3>1, <3>2, <3>3 DEF HeldLocks
        <3>4. CASE call'[c].pc = "fill"
            <4>1. PICK v \in Vol : Takes(c, v)
                BY <3>1, <3>4
            <4>2. v = call[c].name
                BY <3>1, <3>4, <4>1 DEF Takes
            <4> QED
                BY <2>1, <3>1, <3>2, <4>1, <4>2
        <3> QED
            BY <3>2, <3>3, <3>4
    <2>3. CASE call[c].pc \notin Held \cup {"remove", "unwind"}
        <3>1. call[c].pc \in Early \cup {"check"}
            BY <1>0, <1>6, <2>3 DEF HandlerStep, Frame, CallShape, Early, Held
        <3>2. \E v \in Vol : Takes(c, v)
            <4>1. ~Moves(c)
                BY <3>1 DEF Moves, Early, Held
            <4>2. ~\E v \in Vol : Activates(c, v)
                BY DEF Activates, Held
            <4>3. ~\E x \in Lv : Removes(c, x)
                BY <3>1 DEF Removes, Early
            <4>4. ~\E x \in Snap \cup {c} : Snaps(c, x)
                BY <3>1 DEF Snaps, Early
            <4>5. ~Makes(c) /\ ~FillsFirst(c) /\ ~FillsSecond(c)
                BY <3>1 DEF Makes, FillsFirst, FillsSecond, Early
            <4> QED
                BY <1>6, <4>1, <4>2, <4>3, <4>4, <4>5 DEF HandlerStep
        <3>3. PICK v \in Vol : Takes(c, v)
            BY <3>2
        <3>4. v = call'[c].lockVol /\ call'[c].pc \notin {"fill", "half"}
            BY <3>1, <3>3 DEF Takes, Early
        <3> QED
            BY <2>1, <3>3, <3>4
    <2> QED
        BY <2>2, <2>3
<1> QED
    BY <1>0, <1>3, <1>4, <1>5, <1>6, NextCall

(* A staged volume is not removed under its device, nor deactivated. *)
LEMMA NextStagedActive == ASSUME Inv, [Next]_vars PROVE StagedActive'
<1>0. /\ TypeOK /\ OriginExists /\ (\A c \in Call : CallShape(c)) /\ StagedActive
    BY DEF Inv
<1> SUFFICES ASSUME NEW n \in Node, NEW v \in Vol, "stage" \in ops'[n][v]
             PROVE  v \in exists' /\ lease'[v] = n /\ told'[v] # "nothing"
    BY DEF StagedActive, Staged
<1>1. CASE Staged(n, v)
    <2>1. v \in exists /\ lease[v] = n /\ told[v] # "nothing"
        BY <1>0, <1>1 DEF StagedActive
    <2>2. v \in exists'
        <3> SUFFICES ASSUME v \in exists \ exists' PROVE FALSE
            BY <2>1
        <3>1. PICK c \in Call, y \in Lv : Removes(c, y) /\ v \in Removed(y)
            BY <1>0, NextExists
        <3>2. ~Open(v)
            BY <3>1 DEF Removes, Removable, Removed
        <3> QED
            BY <1>1, <3>2 DEF Open
    <2>3. lease'[v] = n
        BY <1>1, <2>1, <2>2, LeaseKept DEF Staged
    <2>4. told'[v] # "nothing"
        <3>1. ASSUME NEW c \in Call, HandlerStep(c) PROVE told' = told
            BY <3>1 DEF HandlerStep, Frame
        <3> QED
            BY <1>0, <2>1, <3>1, NextKinds, OutsideSteps DEF Outside, Name
    <2> QED
        BY <2>2, <2>3, <2>4
<1>2. CASE ~Staged(n, v)
    <2>1. Stage(n, v)
        BY <1>0, <1>2, NextOps, ControllerServerAssumption DEF Staged
    <2>2. v \in exists' /\ told'[v] # "nothing" /\ Locked(n, v, "stage") /\ (ops[n][v] # {} => lease[v] = n)
        BY <2>1 DEF Stage, history
    <2>3. /\ ops[n][v] # {} => lease'[v] = lease[v]
          /\ ops[n][v] = {} => lease'[v] = n
        BY <1>0, <2>2, LockFacts
    <2> QED
        BY <2>2, <2>3
<1> QED
    BY <1>1, <1>2

(* A volume that is locked and was not made again under its lock is active where it is locked. *)
LEMMA NextLockedActive == ASSUME Inv, [Next]_vars PROVE LockedActive'
<1>0. /\ TypeOK /\ OriginExists /\ (\A c \in Call : CallShape(c)) /\ LockedActive
      /\ ops \in [Node -> [Vol -> SUBSET (Call \cup {"stage"})]]
    BY DEF Inv, TypeOK
<1>a. TypeOK' /\ spoiled \subseteq spoiled'
    <2>1. ASSUME NEW c \in Call, HandlerStep(c) PROVE spoiled \subseteq spoiled'
        BY <2>1 DEF HandlerStep, Frame
    <2> QED
        BY <1>0, <2>1, NextType, NextKinds, OutsideSteps DEF Outside
<1> SUFFICES ASSUME NEW n \in Node, NEW v \in Vol, ops'[n][v] # {}, v \in exists' \ spoiled'
             PROVE  lease'[v] = n
    BY DEF LockedActive
<1>1. PICK op : op \in ops'[n][v]
    OBVIOUS
<1>2. CASE op \notin ops[n][v]
    <2>1. Locked(n, v, op) /\ op \in Call \cup {"stage"} /\ exists' = exists
        BY <1>0, <1>1, <1>2, NextOps DEF Stage, Takes
    <2>2. /\ ops[n][v] # {} => lease'[v] = lease[v]
          /\ ops[n][v] = {} => lease'[v] = n
        BY <1>0, <2>1, LockFacts
    <2> QED
        BY <1>0, <1>a, <2>1, <2>2 DEF LockedActive
<1>3. CASE op \in ops[n][v] /\ v \in exists
    BY <1>0, <1>1, <1>3, <1>a, LeaseKept DEF LockedActive
<1>4. CASE op \in ops[n][v] /\ v \notin exists
    <2>1. PICK c \in Call : HandlerStep(c) /\ Makes(c) /\ v = call[c].name
        <3>1. \E c \in Call : HandlerStep(c) /\ \/ Makes(c) /\ v = call[c].name
                                                \/ v \in Snap \cup {c} /\ Snaps(c, v)
            BY <1>0, <1>4, NextExists
        <3> QED
            BY <3>1, ControllerServerAssumption
    <2>2. Running(c) /\ Creates(c) /\ v \notin spoiled /\ call[c].pc = "create"
        BY <1>0, <1>a, <2>1 DEF HandlerStep, Frame, Makes, CallShape, Creates, Early
    <2>3. c \in waits /\ told[v] = "nothing"
        <3>1. c \in waits
            BY <2>1, <2>2 DEF Inv, UnspoiledWaits
        <3>2. told[v] \in {"nothing", "created"}
            BY <2>1, <2>2, <3>1 DEF Inv, CreatorTold
        <3> QED
            BY <1>4, <2>2, <3>1, <3>2 DEF Inv, CreatedExists, Name
    <2>4. op # "stage"
        BY <1>4 DEF Inv, StagedActive, Staged
    <2>5. op \in Call
        BY <1>0, <1>4, <2>4
    <2>6. \/ v = call[op].name /\ call[op].pc \in {"fill", "half", "unwind"}
          \/ v = call[op].lockVol /\ call[op].pc \in Held \cup {"remove", "unwind"}
        BY <1>4, <2>5 DEF Inv, OpsOfCalls
    <2>7. Running(op)
        BY <2>6 DEF Running, Held
    <2>8. v # call[op].lockVol
        BY <2>3, <2>5, <2>7, ControllerServerAssumption DEF Inv, SourceTold
    <2>9. op \in waits
        BY <2>2, <2>5, <2>6, <2>7, <2>8 DEF Inv, UnspoiledWaits
    <2>10. op = c
        BY <2>1, <2>3, <2>6, <2>8, <2>9 DEF Inv, OneWaits
    <2> QED
        BY <2>2, <2>6, <2>8, <2>10
<1> QED
    BY <1>2, <1>3, <1>4

(* Only the first half of a copy leads to its second. *)
LEMMA HalfByFill ==
    ASSUME NEW c \in Call, HandlerStep(c), call'[c].pc = "half"
    PROVE  FillsFirst(c)
<1>1. ~Moves(c)
    BY DEF Moves, Early
<1>2. ~\E v \in Vol : Takes(c, v) \/ Activates(c, v)
    BY DEF Takes, Activates
<1>3. (~\E x \in Lv : Removes(c, x)) /\ ~\E x \in Snap \cup {c} : Snaps(c, x)
    BY DEF Removes, Snaps
<1>4. ~Makes(c) /\ ~FillsSecond(c)
    BY DEF Makes, FillsSecond
<1> QED
    BY <1>1, <1>2, <1>3, <1>4 DEF HandlerStep

(* What is formatted or copied exists, and stays active where it is filled. *)
LEMMA NextFilledActive == ASSUME Inv, [Next]_vars PROVE FilledActive'
<1>0. /\ TypeOK /\ OriginExists /\ (\A c \in Call : CallShape(c)) /\ FilledActive /\ HeldLocks
    BY DEF Inv
<1>a. /\ (\A c \in Call : CallShape(c)') /\ HeldLocks' /\ SourceOrigin' /\ OriginExists' /\ TypeOK'
      /\ TemporaryOrigin' /\ spoiled \subseteq spoiled'
    <2>1. ASSUME NEW c \in Call, HandlerStep(c) PROVE spoiled \subseteq spoiled'
        BY <2>1 DEF HandlerStep, Frame
    <2> QED
        BY <1>0, <2>1, NextType, NextLvm, NextHeldLocks, NextKinds, OutsideSteps DEF Outside, LvmInv
<1> SUFFICES ASSUME NEW c \in Call, call'[c].pc = "half"
             PROVE  /\ call'[c].name \in exists' /\ lease'[call'[c].name] = call'[c].at
                    /\ call'[c].src # None => DataVol(c)' \in exists'
                    /\ call'[c].src # None /\ call'[c].src \notin spoiled'
                          => lease'[call'[c].lockVol] = call'[c].at
    BY DEF FilledActive
<1> DEFINE r == call[c]
           q == call'[c]
<1>1. /\ Running(c)' /\ q.op = "CreateVolume" /\ q.name \in Vol /\ q.at \in Node
      /\ q.src \in Name \cup {None}
    BY <1>a DEF Running, CallShape, TypeOK, CallRec
<1>b. ASSUME DataVol(c)' \in exists', q.src # None, q.src \notin spoiled'
      PROVE  DataVol(c)' \in exists' \ Vol /\ origin'[DataVol(c)'] = q.lockVol
    <2>1. CASE q.src \in Vol
        <3>1. q.lockVol = q.src /\ DataVol(c)' = c /\ c \notin Vol
            BY <1>a, <2>1, ControllerServerAssumption DEF CallShape, DataVol
        <3> QED
            BY <1>1, <1>a, <1>b, <3>1 DEF TemporaryOrigin
    <2>2. CASE q.src \in Snap
        <3>1. DataVol(c)' = q.src /\ q.src \notin Vol
            BY <2>2, ControllerServerAssumption DEF DataVol
        <3> QED
            BY <1>a, <1>b, <2>2, <3>1 DEF SourceOrigin, Held
    <2> QED
        BY <1>1, <1>b, <2>1, <2>2 DEF Name
<1>2. CASE call'[c] = call[c]
    <2>1. /\ r.name \in exists /\ lease[r.name] = r.at
          /\ r.src # None => DataVol(c) \in exists
          /\ r.src # None /\ r.src \notin spoiled => lease[r.lockVol] = r.at
        BY <1>0, <1>2 DEF FilledActive
    <2>2. \A x \in exists \ exists' : ~Open(x)
        <3> SUFFICES ASSUME NEW x \in exists \ exists' PROVE ~Open(x)
            OBVIOUS
        <3>1. PICK d \in Call, y \in Lv : Removes(d, y) /\ x \in Removed(y)
            BY <1>0, NextExists
        <3> QED
            BY <3>1 DEF Removes, Removable, Removed
    <2>3. r.name \in exists' /\ (r.src # None => DataVol(c) \in exists')
        BY <1>2, <2>1, <2>2 DEF Open
    <2>4. DataVol(c)' = DataVol(c)
        BY <1>2 DEF DataVol
    <2>5. c \in ops[r.at][r.name] /\ c \in ops'[r.at][r.name]
        BY <1>0, <1>2, <1>a DEF HeldLocks
    <2>6. lease'[r.name] = r.at
        BY <1>1, <1>2, <2>1, <2>3, <2>5, LeaseKept
    <2>7. ASSUME r.src # None, r.src \notin spoiled' PROVE lease'[r.lockVol] = r.at
        <3>0. r.src \notin spoiled /\ lease[r.lockVol] = r.at
            BY <1>a, <2>1, <2>7
        <3>1. \E x \in exists' \ Vol : origin'[x] = r.lockVol
            BY <1>2, <1>b, <2>3, <2>4, <2>7
        <3>2. r.lockVol \in Vol \cap exists'
            BY <1>a, <3>1 DEF OriginExists
        <3>3. c \in ops[r.at][r.lockVol] /\ c \in ops'[r.at][r.lockVol]
            BY <1>0, <1>2, <1>a, <3>2, ControllerServerAssumption DEF HeldLocks, Held
        <3> QED
            BY <1>1, <1>2, <3>0, <3>2, <3>3, LeaseKept
    <2> QED
        BY <1>2, <2>3, <2>4, <2>6, <2>7
<1>3. CASE call'[c] = Over
    BY <1>3, OverCall
<1>4. CASE Fresh(c)
    BY <1>4 DEF Fresh
<1>5. CASE HandlerStep(c)
    <2>1. FillsFirst(c)
        BY <1>5, HalfByFill
    <2>2. /\ Ready(c) /\ UNCHANGED <<exists, origin, lease>> /\ r.pc = "fill"
        BY <2>1 DEF FillsFirst
    <2>3. /\ q.name = r.name /\ q.src = r.src /\ q.at = r.at /\ q.lockVol = r.lockVol
          /\ DataVol(c)' = DataVol(c)
        BY <1>5, <2>2 DEF HandlerStep, Frame, Early, DataVol
    <2>4. /\ q.name \in exists' /\ lease'[q.name] = q.at
          /\ q.src # None => DataVol(c)' \in exists' /\ lease'[Base(DataVol(c))] = q.at
        BY <1>1, <2>2, <2>3 DEF Ready, Active, Base
    <2>5. ASSUME q.src # None, q.src \notin spoiled' PROVE lease'[q.lockVol] = q.at
        <3>1. DataVol(c)' \in exists' \ Vol /\ origin'[DataVol(c)'] = q.lockVol
            BY <1>b, <2>4, <2>5
        <3> QED
            BY <2>2, <2>3, <2>4, <2>5, <3>1 DEF Base
    <2> QED
        BY <2>4, <2>5
<1> QED
    BY <1>0, <1>2, <1>3, <1>4, <1>5, NextCall

(* The locks. *)
LEMMA NextLocks == ASSUME Inv, [Next]_vars PROVE OpsInv'
    BY NextOpsOfCalls, NextHeldLocks, NextStagedActive, NextLockedActive, NextFilledActive DEF OpsInv

-----------------------------------------------------------------------------
(* What the history records is never forgotten. *)
LEMMA NextGrows ==
    ASSUME TypeOK, OriginExists, \A c \in Call : CallShape(c), [Next]_vars
    PROVE  /\ spoiled \subseteq spoiled' /\ leaked \subseteq leaked'
           /\ \A x \in Name : told[x] # "nothing" => told'[x] # "nothing"
<1>1. ASSUME NEW c \in Call, HandlerStep(c)
      PROVE  spoiled \subseteq spoiled' /\ leaked \subseteq leaked' /\ told' = told
    BY <1>1 DEF HandlerStep, Frame
<1> QED
    BY <1>1, NextKinds, OutsideSteps DEF Outside

(* What a handler takes off its list of what to clean up is gone, could not *)
(* be removed, or is the volume it has filled.                             *)
LEMMA HandlerDrops ==
    ASSUME TypeOK, NEW c \in Call, HandlerStep(c), NEW x \in call[c].cleanup, x \notin call'[c].cleanup,
           CallShape(c)
    PROVE  \/ x \in leaked' /\ (x \in Vol => x \in spoiled')
           \/ x \notin exists'
           \/ x = call[c].name /\ FillsSecond(c)
<1>1. ASSUME NEW y \in Lv, Removes(c, y) PROVE x \notin exists'
    <2>1. x = y /\ LvRemove(y)
        BY <1>1 DEF Removes
    <2> QED
        BY <1>1, <2>1, RemoveFacts
<1>2. ASSUME NEW y \in Snap \cup {c}, Snaps(c, y) PROVE FALSE
    BY <1>2 DEF Snaps, CallShape
<1>3. ASSUME NEW v \in Vol, Takes(c, v) \/ Activates(c, v) PROVE FALSE
    BY <1>3 DEF Takes, Activates
<1>4. ASSUME Makes(c) \/ FillsFirst(c) PROVE FALSE
    BY <1>4 DEF Makes, FillsFirst
<1>5. ASSUME FillsSecond(c) PROVE x = call[c].name
    BY <1>5 DEF FillsSecond
<1>6. ASSUME Moves(c) PROVE x \in leaked' /\ (x \in Vol => x \in spoiled')
    BY <1>6 DEF Moves
<1> QED
    BY <1>1, <1>2, <1>3, <1>4, <1>5, <1>6 DEF HandlerStep

(* What it adds is the temporary snapshot or the volume that it creates. *)
LEMMA HandlerLists ==
    ASSUME NEW c \in Call, HandlerStep(c), NEW x \in call'[c].cleanup, x \notin call[c].cleanup
    PROVE  x = c \/ (x = call[c].name /\ Makes(c))
<1>1. ASSUME NEW y \in Lv, Removes(c, y) PROVE FALSE
    BY <1>1 DEF Removes
<1>2. ASSUME NEW y \in Snap \cup {c}, Snaps(c, y) PROVE x = c
    BY <1>2 DEF Snaps
<1>3. ASSUME NEW v \in Vol, Takes(c, v) \/ Activates(c, v) PROVE FALSE
    BY <1>3 DEF Takes, Activates
<1>4. ASSUME Makes(c) PROVE x = call[c].name
    BY <1>4 DEF Makes
<1>5. ASSUME Moves(c) \/ FillsFirst(c) \/ FillsSecond(c) PROVE FALSE
    BY <1>5 DEF Moves, FillsFirst, FillsSecond
<1> QED
    BY <1>1, <1>2, <1>3, <1>4, <1>5 DEF HandlerStep

(* A request that is over was answered for, with nothing left to do, or has died. *)
LEMMA NextOver ==
    ASSUME TypeOK, OriginExists, \A c \in Call : CallShape(c), [Next]_vars,
           NEW d \in Call, call'[d] = Over, call'[d] # call[d]
    PROVE  Answer(d) \/ \E n \in Node : Crash(n) /\ d \in Dead(n)
<1>1. ASSUME NEW c \in Call, Asked(c) PROVE call'[d] = call[d] \/ Running(d)'
    BY <1>1, AskedCall DEF Asked
<1>2. ASSUME NEW c \in Call, HandlerStep(c) PROVE call'[d] = call[d] \/ Running(d)'
    BY <1>2 DEF HandlerStep, Frame
<1>3. ASSUME NEW c \in Call, Answer(c) PROVE d = c \/ call'[d] = call[d]
    BY <1>3, AnsweredCall
<1>4. ASSUME NEW m \in Node, Crash(m) PROVE d \in Dead(m) \/ call'[d] = call[d]
    BY <1>4, CrashedCall
<1>5. \/ UNCHANGED call
      \/ \E c \in Call : Asked(c) \/ HandlerStep(c) \/ Answer(c)
      \/ \E m \in Node : Crash(m)
    BY NextKinds DEF vars, GiveUp, Unlock, Stage, Unstage, Write
<1>6. ~Running(d)'
    BY OverCall DEF Running
<1> QED
    BY <1>1, <1>2, <1>3, <1>4, <1>5, <1>6

(* A volume becomes active by a lock, by a lock that fails, or as it is made. *)
LEMMA NextLease ==
    ASSUME TypeOK, OriginExists, \A c \in Call : CallShape(c), [Next]_vars, NEW v \in Vol,
           lease'[v] # lease[v], lease'[v] # None
    PROVE  \/ ops'[lease'[v]][v] # {}
           \/ v \in leaked'
           \/ \E c \in Call : HandlerStep(c) /\ Makes(c) /\ v = call[c].name /\ lease'[v] = call[c].at
<1> DEFINE Goal == \/ ops'[lease'[v]][v] # {}
                   \/ v \in leaked'
                   \/ \E c \in Call : HandlerStep(c) /\ Makes(c) /\ v = call[c].name /\ lease'[v] = call[c].at
<1>1. ASSUME NEW n \in Node, NEW w \in Vol, NEW op \in Call \cup {"stage"}, Locked(n, w, op) PROVE Goal
    <2>1. /\ ops'[n][w] = ops[n][w] \cup {op}
          /\ \A u \in Vol \ {w} : lease'[u] = lease[u]
          /\ ops[n][w] # {} => lease'[w] = lease[w]
          /\ ops[n][w] = {} => lease'[w] = n
        BY <1>1, LockFacts
    <2>2. w = v /\ lease'[v] = n
        BY <2>1
    <2> QED
        BY <2>1, <2>2
<1>2. ASSUME NEW c \in Call, HandlerStep(c) PROVE Goal
    <2>0. call[c].at \in Node
        BY <1>2 DEF HandlerStep, Frame, TypeOK
    <2>1. ASSUME NEW w \in Vol, Takes(c, w) PROVE Goal
        <3>1. Locked(call[c].at, w, c)
            BY <2>1 DEF Takes
        <3> QED
            BY <1>1, <2>0, <3>1
    <2>2. ASSUME NEW w \in Vol, Activates(c, w) PROVE Goal
        BY <2>2 DEF Activates, TypeOK
    <2>3. ASSUME NEW x \in Lv, Removes(c, x) PROVE Goal
        <3>1. LvRemove(x)
            BY <2>3 DEF Removes
        <3> QED
            BY <3>1, RemoveFacts
    <2>4. ASSUME NEW x \in Snap \cup {c}, Snaps(c, x) PROVE Goal
        BY <2>4, SnapFacts DEF Snaps
    <2>5. ASSUME Makes(c) PROVE Goal
        BY <1>2, <2>0, <2>5, MakeFacts DEF Makes
    <2>6. ASSUME Moves(c) \/ FillsFirst(c) \/ FillsSecond(c) PROVE Goal
        BY <2>6 DEF Moves, lvm, FillsFirst, FillsSecond
    <2> QED
        BY <1>2, <2>1, <2>2, <2>3, <2>4, <2>5, <2>6 DEF HandlerStep
<1>3. ASSUME NEW n \in Node, NEW w \in Vol, Stage(n, w) PROVE Goal
    BY <1>1, <1>3 DEF Stage
<1>4. ASSUME \/ \E c \in Call : \/ Asked(c) \/ GiveUp(c) \/ Answer(c)
                                \/ \E w \in Vol : Unlock(c, w)
             \/ \E n \in Node, w \in Vol : Unstage(n, w) \/ Write(n, w)
             \/ \E n \in Node : Crash(n)
      PROVE  lease'[v] \in {lease[v], None}
    <2>0. lease \in [Vol -> Node \cup {None}]
        BY DEF TypeOK
    <2>1. ASSUME NEW c \in Call, Asked(c) \/ GiveUp(c) \/ Answer(c) PROVE lease' = lease
        BY <2>1 DEF Asked, Asks, Request, GiveUp, Answer, lvm
    <2>2. ASSUME NEW c \in Call, NEW w \in Vol, Unlock(c, w) PROVE lease'[v] \in {lease[v], None}
        BY <2>0, <2>2 DEF Unlock
    <2>3. ASSUME NEW n \in Node, NEW w \in Vol, Unstage(n, w) \/ Write(n, w)
          PROVE  lease'[v] \in {lease[v], None}
        BY <2>0, <2>3 DEF Unstage, Write
    <2>4. ASSUME NEW n \in Node, Crash(n) PROVE lease'[v] \in {lease[v], None}
        BY <2>0, <2>4 DEF Crash
    <2> QED
        BY <1>4, <2>1, <2>2, <2>3, <2>4
<1>5. Goal
    BY <1>2, <1>3, <1>4, NextKinds DEF vars
<1> QED
    BY <1>5

-----------------------------------------------------------------------------
LeftInv == TemporaryCleanup /\ LeaseCleanup

(* A temporary snapshot is on its handler's list, or was left behind by a failure. *)
LEMMA NextTemporaryCleanup == ASSUME Inv, [Next]_vars PROVE TemporaryCleanup'
<1>0. TypeOK /\ OriginExists /\ (\A c \in Call : CallShape(c)) /\ TemporaryCleanup
    BY DEF Inv
<1>a. leaked \subseteq leaked'
    BY <1>0, NextGrows
<1> SUFFICES ASSUME NEW c \in Call, c \in exists', c \notin leaked' PROVE c \in call'[c].cleanup
    BY DEF TemporaryCleanup
<1>1. CASE c \notin exists
    <2>1. HandlerStep(c) /\ Snaps(c, c)
        <3>1. PICK d \in Call : HandlerStep(d) /\ \/ Makes(d) /\ c = call[d].name
                                                  \/ c \in Snap \cup {d} /\ Snaps(d, c)
            BY <1>0, <1>1, NextExists
        <3>2. ~Makes(d) \/ c # call[d].name
            BY ControllerServerAssumption DEF Makes
        <3> QED
            BY <3>1, <3>2, ControllerServerAssumption
    <2> QED
        BY <2>1, ControllerServerAssumption DEF Snaps
<1>2. CASE c \in exists
    <2>1. c \in call[c].cleanup
        BY <1>0, <1>2, <1>a DEF TemporaryCleanup
    <2>2. CASE call'[c] = Over /\ call'[c] # call[c]
        <3>1. ~Answer(c)
            BY <2>1 DEF Answer
        <3>2. PICK n \in Node : Crash(n) /\ c \in Dead(n)
            BY <1>0, <2>2, <3>1, NextOver
        <3>3. leaked' = leaked \cup (Dead(n) \cap exists)
            BY <3>2 DEF Crash, Dead
        <3> QED
            BY <1>2, <3>2, <3>3
    <2>3. CASE HandlerStep(c)
        <3>1. c # call[c].name
            BY <1>0, <2>3, ControllerServerAssumption DEF HandlerStep, Frame, TypeOK, Name
        <3> QED
            BY <1>0, <2>1, <2>3, <3>1, HandlerDrops
    <2>4. ~Fresh(c)
        BY <1>0, <2>1 DEF Fresh, CallShape
    <2> QED
        BY <1>0, <2>1, <2>2, <2>3, <2>4, NextCall
<1> QED
    BY <1>1, <1>2

(* A volume that is active is locked, or is on the list of the handler that *)
(* made it, or was left behind by a failure.                               *)
LEMMA NextLeaseCleanup == ASSUME Inv, [Next]_vars PROVE LeaseCleanup'
<1>0. /\ TypeOK /\ OriginExists /\ (\A c \in Call : CallShape(c)) /\ LeaseCleanup /\ HeldLocks
      /\ ops \in [Node -> [Vol -> SUBSET (Call \cup {"stage"})]]
      /\ lease \in [Vol -> Node \cup {None}] /\ None \notin Node
    BY ControllerServerAssumption DEF Inv, TypeOK
<1>a. leaked \subseteq leaked' /\ LeaseExists' /\ lease' \in [Vol -> Node \cup {None}]
    BY <1>0, NextGrows, NextLeaseExists, NextType DEF TypeOK
<1> SUFFICES ASSUME NEW v \in Vol, v \notin leaked', lease'[v] # None, ops'[lease'[v]][v] = {}
             PROVE  \E c \in Call : call'[c].at = lease'[v] /\ v \in call'[c].cleanup
    BY DEF LeaseCleanup
<1>1. CASE lease'[v] # lease[v]
    <2>1. PICK c \in Call : HandlerStep(c) /\ Makes(c) /\ v = call[c].name /\ lease'[v] = call[c].at
        BY <1>0, <1>1, NextLease
    <2>2. v \in call'[c].cleanup /\ call'[c].at = call[c].at
        BY <2>1 DEF Makes, HandlerStep, Frame, Early
    <2> QED
        BY <2>1, <2>2
<1>2. CASE lease'[v] = lease[v]
    <2> DEFINE n == lease[v]
    <2>0. n \in Node /\ n # None /\ v \notin leaked
        BY <1>0, <1>2, <1>a
    <2>1. ASSUME Crash(n) PROVE FALSE
        <3>1. Staged(n, v)
            BY <1>2, <2>0, <2>1 DEF Crash
        <3>2. ops'[n][v] = ops[n][v] \cap {"stage"}
            BY <1>0, <2>0, <2>1 DEF Crash
        <3> QED
            BY <1>2, <3>1, <3>2 DEF Staged
    <2>2. ops[n][v] = {}
        <3> SUFFICES ASSUME NEW op \in ops[n][v] PROVE FALSE
            OBVIOUS
        <3>1. op \in ops[n][v] \ ops'[n][v]
            BY <1>2
        <3>2. \/ op = "stage" /\ Unstage(n, v)
              \/ op \in Call /\ Unlock(op, v) /\ call[op].at = n
            BY <1>0, <2>0, <2>1, <3>1, NextOps
        <3>3. CASE op = "stage" /\ Unstage(n, v)
            <4>1. ops'[n][v] = ops[n][v] \ {"stage"}
                BY <1>0, <2>0, <3>3 DEF Unstage
            <4>2. ops[n][v] = {"stage"}
                BY <1>2, <3>3, <4>1
            <4> QED
                BY <1>0, <1>2, <2>0, <3>3, <4>2 DEF Unstage
        <3>4. CASE op \in Call /\ Unlock(op, v) /\ call[op].at = n
            <4>1. ops'[n][v] = ops[n][v] \ {op}
                BY <1>0, <2>0, <3>4 DEF Unlock
            <4>2. ops[n][v] = {op}
                BY <1>2, <4>1
            <4>3. lease' = [lease EXCEPT ![v] = None] \/ v \in leaked'
                BY <3>4, <4>2 DEF Unlock
            <4> QED
                BY <1>0, <1>2, <2>0, <4>3
        <3> QED
            BY <3>2, <3>3, <3>4
    <2>3. PICK c \in Call : call[c].at = n /\ v \in call[c].cleanup
        BY <1>0, <2>0, <2>2 DEF LeaseCleanup
    <2>4. v = call[c].name /\ Running(c) /\ call[c].pc \in {"locknew", "fill", "half", "unwind"}
        BY <1>0, <2>3, ControllerServerAssumption DEF TypeOK, CallShape
    <2>5. CASE call'[c] = Over /\ call'[c] # call[c]
        <3>1. ~Answer(c)
            BY <2>3 DEF Answer
        <3>2. PICK m \in Node : Crash(m) /\ c \in Dead(m)
            BY <1>0, <2>5, <3>1, NextOver
        <3> QED
            BY <2>1, <2>3, <3>2 DEF Dead
    <2>6. CASE HandlerStep(c)
        <3>1. call'[c].at = n
            BY <2>3, <2>4, <2>6 DEF HandlerStep, Frame, Early
        <3>2. v \in exists'
            BY <1>a DEF LeaseExists
        <3>3. ~FillsSecond(c)
            <4> SUFFICES ASSUME FillsSecond(c) PROVE FALSE
                OBVIOUS
            <4>1. call[c].pc = "half"
                BY DEF FillsSecond
            <4> QED
                BY <1>0, <2>2, <2>3, <2>4, <4>1 DEF HeldLocks
        <3>4. v \in call'[c].cleanup
            BY <1>0, <2>3, <2>6, <3>2, <3>3, HandlerDrops
        <3> QED
            BY <1>2, <3>1, <3>4
    <2>7. ~Fresh(c)
        BY <2>4 DEF Fresh
    <2> QED
        BY <1>0, <1>2, <2>3, <2>5, <2>6, <2>7, NextCall
<1> QED
    BY <1>1, <1>2

(* What is left behind. *)
LEMMA NextLeft == ASSUME Inv, [Next]_vars PROVE LeftInv'
    BY NextTemporaryCleanup, NextLeaseCleanup DEF LeftInv

-----------------------------------------------------------------------------
(* What a logical volume holds changes when it is made, filled or written. *)
LEMMA NextData ==
    ASSUME TypeOK, OriginExists, \A c \in Call : CallShape(c), [Next]_vars,
           NEW x \in exists', data'[x] # data[x]
    PROVE  \/ \E c \in Call : HandlerStep(c) /\ x \in Snap \cup {c} /\ Snaps(c, x)
           \/ \E c \in Call : HandlerStep(c) /\ x = call[c].name /\ (FillsFirst(c) \/ FillsSecond(c))
           \/ \E n \in Node : x \in Vol /\ Write(n, x)
<1> DEFINE Goal ==
           \/ \E c \in Call : HandlerStep(c) /\ x \in Snap \cup {c} /\ Snaps(c, x)
           \/ \E c \in Call : HandlerStep(c) /\ x = call[c].name /\ (FillsFirst(c) \/ FillsSecond(c))
           \/ \E n \in Node : x \in Vol /\ Write(n, x)
<1>0. data \in [Lv -> (0..2) \X (0..2)] /\ exists' \subseteq Lv
    BY NextType DEF TypeOK
<1>1. ASSUME NEW c \in Call, HandlerStep(c) PROVE Goal
    <2>1. ASSUME NEW y \in Lv, Removes(c, y) PROVE Goal
        <3>1. LvRemove(y)
            BY <2>1 DEF Removes
        <3> QED
            BY <1>0, <3>1, RemoveFacts
    <2>2. ASSUME NEW y \in Snap \cup {c}, Snaps(c, y) PROVE Goal
        <3>1. LvCreateSnapshot(y, call[c].src) /\ call[c].src \in Vol
            BY <2>2 DEF Snaps
        <3>2. \A z \in Lv \ {y} : data'[z] = data[z]
            BY <3>1, SnapFacts
        <3> QED
            BY <1>0, <1>1, <2>2, <3>2
    <2>3. ASSUME FillsFirst(c) \/ FillsSecond(c) PROVE Goal
        BY <1>0, <1>1, <2>3 DEF FillsFirst, FillsSecond
    <2>4. ASSUME Moves(c) \/ Makes(c) \/ \E v \in Vol : Takes(c, v) \/ Activates(c, v) PROVE data' = data
        BY <2>4 DEF Moves, Makes, LvCreate, lvm, Takes, Activates
    <2> QED
        BY <1>1, <2>1, <2>2, <2>3, <2>4 DEF HandlerStep
<1>2. ASSUME NEW n \in Node, NEW w \in Vol, Write(n, w) PROVE Goal
    BY <1>0, <1>2 DEF Write
<1>3. ASSUME \/ \E c \in Call : \/ Asked(c) \/ GiveUp(c) \/ Answer(c)
                                \/ \E w \in Vol : Unlock(c, w)
             \/ \E n \in Node, w \in Vol : Stage(n, w) \/ Unstage(n, w)
             \/ \E n \in Node : Crash(n)
      PROVE  data' = data
    <2>1. ASSUME NEW c \in Call, Asked(c) \/ GiveUp(c) \/ Answer(c) PROVE data' = data
        BY <2>1 DEF Asked, Asks, Request, GiveUp, Answer, lvm
    <2>2. ASSUME NEW c \in Call, NEW w \in Vol, Unlock(c, w) PROVE data' = data
        BY <2>2 DEF Unlock
    <2>3. ASSUME NEW n \in Node, NEW w \in Vol, Stage(n, w) \/ Unstage(n, w) PROVE data' = data
        BY <2>3 DEF Stage, Unstage
    <2>4. ASSUME NEW n \in Node, Crash(n) PROVE data' = data
        BY <2>4 DEF Crash
    <2> QED
        BY <1>3, <2>1, <2>2, <2>3, <2>4
<1>4. Goal
    BY <1>1, <1>2, <1>3, NextKinds DEF vars
<1> QED
    BY <1>4

(* A snapshot keeps its origin. *)
LEMMA NextOrigin ==
    ASSUME TypeOK, OriginExists, \A c \in Call : CallShape(c), [Next]_vars,
           NEW s \in Snap, s \in exists, s \in exists'
    PROVE  origin'[s] = origin[s]
<1>1. ASSUME NEW c \in Call, HandlerStep(c) PROVE origin'[s] = origin[s]
    <2>1. ASSUME NEW y \in Lv, Removes(c, y) PROVE origin'[s] = origin[s]
        <3>1. LvRemove(y)
            BY <2>1 DEF Removes
        <3> QED
            BY <3>1, RemoveFacts
    <2>2. ASSUME NEW y \in Snap \cup {c}, Snaps(c, y) PROVE origin'[s] = origin[s]
        <3>1. LvCreateSnapshot(y, call[c].src) /\ call[c].src \in Vol /\ y # s
            BY <2>2, ControllerServerAssumption DEF Snaps
        <3> QED
            BY <3>1, SnapFacts
    <2>3. ASSUME \/ Moves(c) \/ Makes(c) \/ FillsFirst(c) \/ FillsSecond(c)
                 \/ \E v \in Vol : Takes(c, v) \/ Activates(c, v)
          PROVE  origin' = origin
        BY <2>3 DEF Moves, Makes, LvCreate, lvm, Takes, Activates, FillsFirst, FillsSecond
    <2> QED
        BY <1>1, <2>1, <2>2, <2>3 DEF HandlerStep
<1> QED
    BY <1>1, NextKinds, OutsideSteps DEF Outside

(* A handler that makes what does not exist answers a request for a name   *)
(* of which nothing was told yet.                                          *)
LEMMA CreatorUntold ==
    ASSUME Inv, NEW c \in Call, Running(c), Creates(c),
           call[c].name \notin exists, call[c].name \notin spoiled
    PROVE  c \in waits /\ told[call[c].name] = "nothing"
<1>1. c \in waits
    BY DEF Inv, UnspoiledWaits
<1>2. told[call[c].name] \in {"nothing", "created"}
    BY <1>1 DEF Inv, CreatorTold
<1> QED
    BY <1>1, <1>2 DEF Inv, CreatedExists, TypeOK

(* Names appear by the handlers that make them. *)
LEMMA NextNamed ==
    ASSUME Inv, [Next]_vars, NEW x \in Name, x \in exists', x \notin exists, x \notin spoiled
    PROVE  /\ told[x] = "nothing"
           /\ \E c \in waits : HandlerStep(c) /\ x = call[c].name /\ Creates(c)
                               /\ (Makes(c) \/ (x \in Snap /\ Snaps(c, x)))
<1>0. TypeOK /\ OriginExists /\ \A c \in Call : CallShape(c)
    BY DEF Inv
<1>1. PICK c \in Call : HandlerStep(c) /\ \/ Makes(c) /\ x = call[c].name
                                          \/ x \in Snap \cup {c} /\ Snaps(c, x)
    BY <1>0, NextExists
<1>2. x # c
    BY ControllerServerAssumption DEF Name
<1>3. x = call[c].name /\ (Makes(c) \/ (x \in Snap /\ Snaps(c, x))) /\ call[c].pc \in {"create", "snapshot"}
    BY <1>1, <1>2 DEF Snaps, Makes
<1>4. Running(c) /\ Creates(c)
    BY <1>0, <1>1, <1>3 DEF HandlerStep, Frame, CallShape, Creates, Early
<1> QED
    BY <1>1, <1>3, <1>4, CreatorUntold

(* Who removes a name: the request to delete it, the one that made it and  *)
(* failed, or the one that made its origin and failed.                     *)
LEMMA NextRemoved ==
    ASSUME Inv, [Next]_vars, NEW x \in Name, x \in exists, x \notin exists'
    PROVE  \E c \in Call :
              /\ Running(c)
              /\ \/ Deletes(c) /\ x = call[c].name
                 \/ x \in call[c].cleanup /\ x = call[c].name /\ call[c].pc = "unwind"
                 \/ x \in Snap /\ origin[x] \in call[c].cleanup /\ origin[x] = call[c].name
<1>0. TypeOK /\ OriginExists /\ \A c \in Call : CallShape(c)
    BY DEF Inv
<1>1. PICK c \in Call, y \in Lv : HandlerStep(c) /\ Removes(c, y) /\ x \in Removed(y)
    BY <1>0, NextExists
<1>2. /\ LvRemove(y) /\ x # c /\ Running(c)
      /\ \A z \in Removed(y) : z = y \/ (z \in Snap \cup Call /\ z \in exists /\ origin[z] = y)
    BY <1>0, <1>1, RemoveFacts, ControllerServerAssumption DEF Removes, HandlerStep, Frame, Name
<1>3. CASE call[c].pc = "remove"
    <2>1. y = call[c].name /\ Selected(y) /\ Deletes(c)
        BY <1>0, <1>1, <1>2, <1>3 DEF Removes, CallShape, Deletes, Early, Held
    <2>2. x = y
        BY <1>1, <2>1 DEF Removed, Selected
    <2> QED
        BY <1>2, <2>1, <2>2
<1>4. CASE call[c].pc # "remove"
    <2>1. call[c].pc = "unwind" /\ y \in call[c].cleanup
        BY <1>1, <1>4 DEF Removes
    <2>2. y \in {c, call[c].name}
        BY <1>0, <2>1 DEF TypeOK
    <2>3. CASE x = y
        BY <1>2, <2>1, <2>2, <2>3
    <2>4. CASE x # y
        <3>1. origin[x] = y /\ x \notin Vol
            BY <1>1, <1>2, <2>4, ControllerServerAssumption
        <3>2. y \in Vol
            BY <1>0, <3>1 DEF OriginExists
        <3> QED
            BY <1>2, <2>1, <2>2, <3>1, <3>2, ControllerServerAssumption DEF Name
    <2> QED
        BY <2>3, <2>4
<1> QED
    BY <1>3, <1>4

(* Of a name on a clean-up list, nothing was told. *)
LEMMA ListedUntold ==
    ASSUME Inv, NEW c \in Call, NEW x \in Name, x \in call[c].cleanup, x \notin spoiled
    PROVE  x = call[c].name /\ told[x] = "nothing" /\ c \in waits /\ Running(c)
<1>1. x = call[c].name
    BY ControllerServerAssumption DEF Inv, TypeOK, Name
<1>2. Running(c)
    BY DEF Inv, CallShape
<1> QED
    BY <1>1, <1>2 DEF Inv, CleanupTold, UnspoiledWaits

(* A workload's writes keep a volume's halves in order. *)
LEMMA WriteGood ==
    ASSUME TypeOK, NEW n \in Node, NEW v \in Vol, Write(n, v)
    PROVE  Good(data'[v])
<1>1. v \in Lv /\ data \in [Lv -> (0..2) \X (0..2)]
    BY DEF TypeOK, Lv, Name
<1>2. data'[v] = <<2, 1>> \/ data'[v] = <<2, 2>>
    BY <1>1 DEF Write
<1> QED
    BY <1>2 DEF Good

(* Good content stays, unless the name is filled. *)
LEMMA GoodStays ==
    ASSUME Inv, [Next]_vars, NEW x \in Name, x \in exists, x \in exists', Good(data[x]),
           \A c \in Call : call[c].name = x => call[c].pc \notin {"fill", "half"}
    PROVE  Good(data'[x])
<1>0. TypeOK /\ OriginExists /\ \A c \in Call : CallShape(c)
    BY DEF Inv
<1>1. ASSUME NEW c \in Call, x \in Snap \cup {c}, Snaps(c, x) PROVE FALSE
    BY <1>1, ControllerServerAssumption DEF Snaps, Name
<1>2. ASSUME NEW c \in Call, x = call[c].name, FillsFirst(c) \/ FillsSecond(c) PROVE FALSE
    BY <1>2 DEF FillsFirst, FillsSecond
<1> QED
    BY <1>0, <1>1, <1>2, NextData, WriteGood

-----------------------------------------------------------------------------
(* What the orchestrator is told changes by a request to delete, or by an answer. *)
LEMMA NextTold ==
    ASSUME TypeOK, OriginExists, \A c \in Call : CallShape(c), [Next]_vars, NEW x \in Name,
           told'[x] # told[x]
    PROVE  \/ told'[x] = "deleting"
           \/ \E c \in waits : /\ Answer(c) /\ x = call[c].name /\ EndsWell(c)
                               /\ \/ told'[x] = "created" /\ Creates(c)
                                  \/ told'[x] = "deleted" /\ Deletes(c)
<1> DEFINE Goal ==
           \/ told'[x] = "deleting"
           \/ \E c \in waits : /\ Answer(c) /\ x = call[c].name /\ EndsWell(c)
                               /\ \/ told'[x] = "created" /\ Creates(c)
                                  \/ told'[x] = "deleted" /\ Deletes(c)
<1>0. told \in [Name -> {"nothing", "created", "deleting", "deleted"}]
    BY DEF TypeOK
<1>1. ASSUME NEW c \in Call, Asked(c) PROVE Goal
    <2>1. PICK n, op, name, src : n \in Node /\ Asks(n, c, op, name, src)
        BY <1>1 DEF Asked
    <2>2. told' \in {told, [told EXCEPT ![name] = "deleting"]}
        BY <2>1 DEF Asks, Request
    <2> QED
        BY <1>0, <2>2
<1>2. ASSUME NEW c \in Call, Answer(c) PROVE Goal
    <2>1. Creates(c) \/ Deletes(c)
        BY <1>2, AnsweredCall DEF CallShape, Creates, Deletes
    <2>2. /\ c \in waits /\ EndsWell(c)
          /\ told' = [told EXCEPT ![call[c].name] = IF Creates(c) THEN "created" ELSE "deleted"]
        BY <1>2 DEF Answer, EndsWell, Creates
    <2> QED
        BY <1>0, <1>2, <2>1, <2>2
<1>3. ASSUME NEW c \in Call, HandlerStep(c) PROVE told' = told
    BY <1>3 DEF HandlerStep, Frame
<1>4. ASSUME NEW c \in Call, GiveUp(c) PROVE told' = told
    BY <1>4 DEF GiveUp
<1>5. ASSUME NEW c \in Call, NEW v \in Vol, Unlock(c, v) PROVE told' = told
    BY <1>5 DEF Unlock
<1>6. ASSUME NEW n \in Node, NEW v \in Vol, Stage(n, v) \/ Unstage(n, v) \/ Write(n, v) PROVE told' = told
    BY <1>6 DEF Stage, Unstage, Write, history
<1>7. ASSUME NEW n \in Node, Crash(n) PROVE told' = told
    BY <1>7 DEF Crash
<1>8. Goal
    BY <1>1, <1>2, <1>3, <1>4, <1>5, <1>6, <1>7, NextKinds DEF vars
<1> QED
    BY <1>8

(* What an answer says holds. *)
LEMMA AnswerFacts ==
    ASSUME Inv, NEW c \in Call, Answer(c), EndsWell(c), call[c].name \notin spoiled'
    PROVE  /\ UNCHANGED <<exists, origin, data>>
           /\ call[c].name \notin spoiled /\ call[c].src \notin spoiled
           /\ Creates(c) => /\ call[c].name \in exists /\ Good(data[call[c].name])
                            /\ call[c].name \in Snap => origin[call[c].name] = call[c].src
           /\ Deletes(c) => call[c].name \notin exists
<1>1. UNCHANGED <<exists, origin, data>> /\ call[c].name \notin spoiled /\ call[c].src \notin spoiled
    BY DEF Answer, lvm
<1> QED
    BY <1>1 DEF Inv, AnswerHolds

(* What exists by the orchestrator's knowledge stays, and stays good. *)
LEMMA CreatedStays ==
    ASSUME Inv, [Next]_vars, NEW x \in Name, x \notin spoiled, told[x] = "created"
    PROVE  /\ x \in exists /\ x \in exists' /\ Good(data'[x])
           /\ x \in Snap => origin'[x] = origin[x]
<1>0. TypeOK /\ OriginExists /\ (\A c \in Call : CallShape(c)) /\ x \in exists /\ Good(data[x])
    BY DEF Inv, CreatedExists
<1>1. x \in exists'
    <2> SUFFICES ASSUME x \notin exists' PROVE FALSE
        OBVIOUS
    <2>1. PICK c \in Call :
              /\ Running(c)
              /\ \/ Deletes(c) /\ x = call[c].name
                 \/ x \in call[c].cleanup /\ x = call[c].name /\ call[c].pc = "unwind"
                 \/ x \in Snap /\ origin[x] \in call[c].cleanup /\ origin[x] = call[c].name
        BY <1>0, NextRemoved
    <2>2. ~(Deletes(c) /\ x = call[c].name)
        BY <2>1 DEF Inv, DeleterTold
    <2>3. x \notin call[c].cleanup
        BY ListedUntold
    <2> QED
        BY <2>1, <2>2, <2>3 DEF Inv, OriginKept
<1>2. \A c \in Call : call[c].name = x => call[c].pc \notin {"fill", "half"}
    <2> SUFFICES ASSUME NEW c \in Call, call[c].name = x, call[c].pc \in {"fill", "half"} PROVE FALSE
        OBVIOUS
    <2>1. x \in call[c].cleanup
        BY <1>0 DEF CallShape
    <2> QED
        BY <2>1, ListedUntold
<1>3. Good(data'[x])
    BY <1>0, <1>1, <1>2, GoodStays
<1>4. x \in Snap => origin'[x] = origin[x]
    BY <1>0, <1>1, NextOrigin
<1> QED
    BY <1>0, <1>1, <1>3, <1>4

(* What was created exists and is good. *)
LEMMA NextCreatedExists == ASSUME Inv, [Next]_vars PROVE CreatedExists' /\ DeletedGone' /\ OriginKept'
<1>0. TypeOK /\ OriginExists /\ (\A c \in Call : CallShape(c)) /\ spoiled \subseteq spoiled'
    BY NextGrows DEF Inv
<1>1. CreatedExists'
    <2> SUFFICES ASSUME NEW x \in Name, x \notin spoiled', told'[x] = "created"
                 PROVE  x \in exists' /\ Good(data'[x])
        BY DEF CreatedExists
    <2>1. CASE told[x] = "created"
        BY <1>0, <2>1, CreatedStays
    <2>2. CASE told[x] # "created"
        <3>1. PICK c \in waits : Answer(c) /\ x = call[c].name /\ EndsWell(c) /\ Creates(c)
            BY <1>0, <2>2, NextTold
        <3>2. c \in Call
            BY <1>0 DEF TypeOK
        <3> QED
            BY <3>1, <3>2, AnswerFacts
    <2> QED
        BY <2>1, <2>2
<1>2. DeletedGone'
    <2> SUFFICES ASSUME NEW x \in Name, x \notin spoiled', told'[x] = "deleted" PROVE x \notin exists'
        BY DEF DeletedGone
    <2>1. CASE told[x] = "deleted"
        <3>1. x \notin exists
            BY <1>0, <2>1 DEF Inv, DeletedGone
        <3> QED
            BY <1>0, <2>1, <3>1, NextNamed
    <2>2. CASE told[x] # "deleted"
        <3>1. PICK c \in waits : Answer(c) /\ x = call[c].name /\ EndsWell(c) /\ Deletes(c)
            BY <1>0, <2>2, NextTold
        <3>2. c \in Call
            BY <1>0 DEF TypeOK
        <3> QED
            BY <3>1, <3>2, AnswerFacts
    <2> QED
        BY <2>1, <2>2
<1>3. OriginKept'
    <2> SUFFICES ASSUME NEW s \in Snap, s \notin spoiled', told'[s] = "created",
                        NEW d \in Call, origin'[s] \in call'[d].cleanup
                 PROVE  FALSE
        BY DEF OriginKept
    <2>0. s \in Name
        BY DEF Name
    <2>1. CASE told[s] = "created"
        <3>1. s \in exists /\ origin'[s] = origin[s]
            BY <1>0, <2>0, <2>1, CreatedStays
        <3>2. origin[s] \in Vol \cap exists
            BY <1>0, <3>1, ControllerServerAssumption DEF OriginExists
        <3>3. origin[s] \notin call[d].cleanup
            BY <1>0, <2>1 DEF Inv, OriginKept
        <3>4. HandlerStep(d)
            BY <1>0, <3>1, <3>3, NextCall, OverCall DEF Fresh
        <3>5. origin[s] = call[d].name /\ Makes(d)
            BY <3>1, <3>2, <3>3, <3>4, HandlerLists, ControllerServerAssumption
        <3> QED
            BY <3>2, <3>5 DEF Makes
    <2>2. CASE told[s] # "created"
        <3>1. PICK c \in waits : Answer(c) /\ s = call[c].name /\ EndsWell(c) /\ Creates(c)
            BY <1>0, <2>0, <2>2, NextTold
        <3>2. c \in Call /\ Running(c)
            BY <1>0 DEF TypeOK
        <3>3. origin'[s] = call[c].src /\ call[c].src \notin spoiled
            BY <3>1, <3>2, AnswerFacts
        <3>4. call[c].src \in Vol
            BY <1>0, <3>1, <3>2, ControllerServerAssumption DEF CallShape, Creates
        <3>5. told[call[c].src] # "nothing"
            BY <3>2, <3>4, ControllerServerAssumption DEF Inv, SourceTold
        <3>6. call'[d] = call[d]
            BY <1>0, <3>1, <3>2, AnsweredCall, OverCall
        <3> QED
            BY <3>3, <3>4, <3>5, <3>6, ListedUntold DEF Name
    <2> QED
        BY <2>1, <2>2
<1> QED
    BY <1>1, <1>2, <1>3

(* A volume of which nothing was told is being made, by a request that is waited for. *)
LEMMA NextUntoldIsMade == ASSUME Inv, [Next]_vars PROVE UntoldIsMade'
<1>0. TypeOK /\ OriginExists /\ (\A c \in Call : CallShape(c)) /\ spoiled \subseteq spoiled'
    BY NextGrows DEF Inv
<1> SUFFICES ASSUME NEW v \in Vol, v \in exists', v \notin spoiled', told'[v] = "nothing"
             PROVE  \E c \in waits' : call'[c].name = v /\ (v \in call'[c].cleanup \/ EndsWell(c)')
    BY DEF UntoldIsMade
<1>1. told[v] = "nothing" /\ v \in Name /\ v \notin spoiled
    BY <1>0, NextGrows DEF Name
<1>2. CASE v \notin exists
    <2>1. PICK c \in waits : HandlerStep(c) /\ v = call[c].name /\ Makes(c)
        BY <1>1, <1>2, NextNamed, ControllerServerAssumption
    <2>2. v \in call'[c].cleanup /\ c \in waits' /\ call'[c].name = v
        BY <2>1 DEF Makes, HandlerStep, Frame
    <2> QED
        BY <2>2
<1>3. CASE v \in exists
    <2>1. PICK c \in waits : call[c].name = v /\ (v \in call[c].cleanup \/ EndsWell(c))
        BY <1>1, <1>3 DEF Inv, UntoldIsMade
    <2>2. c \in Call /\ Running(c) /\ c # v
        BY <1>0, ControllerServerAssumption DEF TypeOK
    <2>3. ~Answer(c)
        <3> SUFFICES ASSUME Answer(c) PROVE FALSE
            OBVIOUS
        <3>1. EndsWell(c)
            BY <2>1 DEF Answer
        <3>2. told' = [told EXCEPT ![v] = IF Creates(c) THEN "created" ELSE "deleted"]
            BY <2>1, <3>1 DEF Answer, EndsWell, Creates
        <3> QED
            BY <1>0, <1>1, <3>2 DEF TypeOK
    <2>4. ASSUME NEW n \in Node, Crash(n) PROVE c \notin Dead(n)
        BY <2>1, <2>2, <2>4 DEF Crash, Dead
    <2>5. c \in waits'
        <3>1. ASSUME NEW d \in Call, Asked(d) PROVE c \in waits'
            BY <3>1 DEF Asked, Asks, Request
        <3>2. ASSUME NEW d \in Call, GiveUp(d) PROVE c \in waits'
            BY <2>1, <3>2 DEF GiveUp
        <3>3. ASSUME NEW d \in Call, HandlerStep(d) PROVE c \in waits'
            BY <3>3 DEF HandlerStep, Frame
        <3>4. ASSUME NEW d \in Call, Answer(d) PROVE c \in waits'
            BY <2>3, <3>4 DEF Answer
        <3>5. ASSUME NEW n \in Node, Crash(n) PROVE c \in waits'
            BY <2>4, <3>5 DEF Crash, Dead
        <3>6. ASSUME NEW d \in Call, NEW w \in Vol, Unlock(d, w) PROVE c \in waits'
            BY <3>6 DEF Unlock
        <3>7. ASSUME NEW n \in Node, NEW w \in Vol, Stage(n, w) \/ Unstage(n, w) \/ Write(n, w) PROVE c \in waits'
            BY <3>7 DEF Stage, Unstage, Write
        <3> QED
            BY <1>0, <3>1, <3>2, <3>3, <3>4, <3>5, <3>6, <3>7, NextKinds DEF vars
    <2>6. CASE call'[c] = call[c]
        BY <2>1, <2>5, <2>6 DEF EndsWell
    <2>7. CASE HandlerStep(c)
        <3>1. call'[c].name = v
            BY <2>1, <2>7 DEF HandlerStep, Frame
        <3>2. CASE v \in call[c].cleanup
            <4>1. v \in call'[c].cleanup \/ FillsSecond(c)
                BY <1>0, <2>2, <2>7, <3>2, HandlerDrops
            <4>2. FillsSecond(c) => EndsWell(c)'
                BY DEF FillsSecond, EndsWell
            <4> QED
                BY <2>5, <3>1, <4>1, <4>2
        <3>3. CASE EndsWell(c)
            <4>1. EndsWell(c)'
                BY <2>7, <3>3 DEF EndsWell, HandlerStep, Moves, Takes, Activates, Removes, Snaps, Makes,
                   FillsFirst, FillsSecond
            <4> QED
                BY <2>5, <3>1, <4>1
        <3> QED
            BY <2>1, <3>2, <3>3
    <2> QED
        BY <1>0, <2>2, <2>3, <2>4, <2>6, <2>7, NextCall, NextOver DEF Fresh
<1> QED
    BY <1>2, <1>3

-----------------------------------------------------------------------------
(* The second half of a copy makes the new volume what its source is. *)
LEMMA FilledIsGood ==
    ASSUME Inv, NEW c \in Call, HandlerStep(c), FillsSecond(c),
           call[c].name \notin spoiled, call[c].src \notin spoiled
    PROVE  call[c].name \in exists' /\ Good(data'[call[c].name])
<1> DEFINE r == call[c]
<1>0. TypeOK /\ CallShape(c) /\ Running(c) /\ data \in [Lv -> (0..2) \X (0..2)]
    BY DEF Inv, TypeOK, HandlerStep, Frame
<1>1. /\ r.pc = "half" /\ r.name \in Vol /\ exists' = exists
      /\ data' = [data EXCEPT ![r.name] = <<@[1], Content(c, 2)>>]
    BY DEF FillsSecond
<1>2. r.name \in exists' /\ r.name \in Lv /\ (r.src # None => DataVol(c) \in exists)
    BY <1>1 DEF Inv, FilledActive, Lv, Name
<1>3. data[r.name][1] = Content(c, 1)
    BY <1>1 DEF Inv, HalfIsCopied
<1>4. data'[r.name] = <<Content(c, 1), Content(c, 2)>>
    BY <1>0, <1>1, <1>2, <1>3
<1>5. Content(c, 1) >= Content(c, 2) /\ Content(c, 2) >= 1
    <2>1. CASE r.src = None
        BY <2>1 DEF Content
    <2>2. CASE r.src # None
        <3>1. Good(data[DataVol(c)])
            <4>1. CASE r.src \in Vol
                BY <1>0, <1>2, <2>2, <4>1 DEF DataVol, Inv, TemporaryGood
            <4>2. CASE r.src \notin Vol
                BY <1>0, <1>2, <2>2, <4>2 DEF DataVol, Inv, SourceGood
            <4> QED
                BY <4>1, <4>2
        <3> QED
            BY <2>2, <3>1 DEF Content, Good
    <2> QED
        BY <2>1, <2>2
<1> QED
    BY <1>2, <1>4, <1>5 DEF Good

(* What a handler is about to answer for stays true until it has answered. *)
LEMMA AnswerStays ==
    ASSUME Inv, [Next]_vars, NEW c \in Call, EndsWell(c), call[c].name \notin spoiled
    PROVE  /\ Creates(c) /\ call[c].src \notin spoiled =>
                /\ call[c].name \in exists' /\ Good(data'[call[c].name])
                /\ call[c].name \in Snap => origin'[call[c].name] = call[c].src
           /\ Deletes(c) => call[c].name \notin exists'
<1> DEFINE x == call[c].name
<1>0. TypeOK /\ OriginExists /\ (\A d \in Call : CallShape(d))
    BY DEF Inv
<1>1. Running(c) /\ x \in Name /\ c \in waits
    BY <1>0 DEF EndsWell, Running, TypeOK, Inv, UnspoiledWaits
<1>2. ASSUME Creates(c), call[c].src \notin spoiled
      PROVE  x \in exists' /\ Good(data'[x]) /\ (x \in Snap => origin'[x] = call[c].src)
    <2>1. x \in exists /\ Good(data[x]) /\ (x \in Snap => origin[x] = call[c].src)
        BY <1>2 DEF Inv, AnswerHolds
    <2>2. \A d \in Call : Running(d) /\ call[d].name = x => d = c
        BY <1>1 DEF Inv, UnspoiledWaits, OneWaits
    <2>3. x \notin call[c].cleanup
        BY <1>0 DEF CallShape, EndsWell
    <2>4. x \in exists'
        <3> SUFFICES ASSUME x \notin exists' PROVE FALSE
            OBVIOUS
        <3>1. PICK d \in Call :
                 /\ Running(d)
                 /\ \/ Deletes(d) /\ x = call[d].name
                    \/ x \in call[d].cleanup /\ x = call[d].name /\ call[d].pc = "unwind"
                    \/ x \in Snap /\ origin[x] \in call[d].cleanup /\ origin[x] = call[d].name
            BY <1>1, <2>1, NextRemoved
        <3>2. x # call[d].name
            BY <1>2, <2>2, <2>3, <3>1 DEF Creates, Deletes
        <3>3. x \in Snap /\ origin[x] = call[c].src /\ call[c].src \in call[d].cleanup
            BY <2>1, <3>1, <3>2
        <3>4. call[c].src \in Vol /\ told[call[c].src] # "nothing"
            BY <1>0, <1>1, <1>2, <3>3, ControllerServerAssumption DEF CallShape, Creates, Inv, SourceTold
        <3> QED
            BY <1>2, <3>3, <3>4, ListedUntold DEF Name
    <2>5. Good(data'[x])
        <3>1. \A d \in Call : call[d].name = x => call[d].pc \notin {"fill", "half"}
            BY <2>2 DEF EndsWell, Running
        <3> QED
            BY <1>1, <2>1, <2>4, <3>1, GoodStays
    <2>6. x \in Snap => origin'[x] = call[c].src
        BY <1>0, <2>1, <2>4, NextOrigin
    <2> QED
        BY <2>4, <2>5, <2>6
<1>3. ASSUME Deletes(c) PROVE x \notin exists'
    <2>1. x \notin exists
        BY <1>3 DEF Inv, AnswerHolds
    <2>2. told[x] # "nothing"
        BY <1>1, <1>3 DEF Inv, DeleterTold
    <2> QED
        BY <1>1, <2>1, <2>2, NextNamed
<1> QED
    BY <1>2, <1>3

(* What a handler answers for is true. *)
LEMMA NextAnswerHolds == ASSUME Inv, [Next]_vars PROVE AnswerHolds'
<1>0. /\ TypeOK /\ OriginExists /\ (\A c \in Call : CallShape(c)) /\ spoiled \subseteq spoiled'
    BY NextGrows DEF Inv
<1> SUFFICES ASSUME NEW c \in Call, EndsWell(c)', call'[c].name \notin spoiled'
             PROVE  /\ Creates(c)' /\ call'[c].src \notin spoiled' =>
                          /\ call'[c].name \in exists' /\ Good(data'[call'[c].name])
                          /\ call'[c].name \in Snap => origin'[call'[c].name] = call'[c].src
                    /\ Deletes(c)' => call'[c].name \notin exists'
    BY DEF AnswerHolds, Good
<1>1. ASSUME EndsWell(c), call'[c].name = call[c].name, call'[c].src = call[c].src, call'[c].op = call[c].op
      PROVE  /\ Creates(c)' /\ call'[c].src \notin spoiled' =>
                   /\ call'[c].name \in exists' /\ Good(data'[call'[c].name])
                   /\ call'[c].name \in Snap => origin'[call'[c].name] = call'[c].src
             /\ Deletes(c)' => call'[c].name \notin exists'
    BY <1>0, <1>1, AnswerStays DEF Creates, Deletes
<1>2. CASE HandlerStep(c) /\ ~EndsWell(c)
    <2> DEFINE r == call[c]
               q == call'[c]
    <2>0. /\ Running(c) /\ q.name = r.name /\ q.src = r.src /\ q.op = r.op /\ r.name \in Name
          /\ r.name \notin spoiled /\ (Creates(c)' <=> Creates(c)) /\ (Deletes(c)' <=> Deletes(c))
          /\ q.pc = "unwind" /\ q.ok
        BY <1>0, <1>2 DEF HandlerStep, Frame, TypeOK, Creates, Deletes, EndsWell
    <2>1. c \in waits
        BY <2>0 DEF Inv, UnspoiledWaits
    <2>2. ASSUME Moves(c) PROVE \/ /\ Creates(c) /\ r.pc = "existing" /\ r.name \in exists
                                   /\ r.name \in Snap => origin[r.name] = r.src
                                \/ Deletes(c) /\ r.name \notin exists
        BY <1>2, <2>0, <2>2 DEF Moves, EndsWell
    <2>3. CASE Moves(c) /\ Creates(c)
        <3>1. /\ r.pc = "existing" /\ r.name \in exists
              /\ r.name \in Snap => origin[r.name] = r.src
            BY <2>2, <2>3 DEF Creates, Deletes
        <3>2. UNCHANGED <<exists, origin, data>>
            BY <2>3 DEF Moves, lvm
        <3>3. ASSUME r.src \notin spoiled PROVE Good(data[r.name])
            <4>1. told[r.name] \in {"nothing", "created"}
                BY <2>1, <2>3 DEF Inv, CreatorTold
            <4>2. CASE told[r.name] = "created"
                BY <2>0, <4>2 DEF Inv, CreatedExists
            <4>3. CASE told[r.name] = "nothing" /\ r.name \in Vol
                <5>1. PICK d \in waits : call[d].name = r.name /\ (r.name \in call[d].cleanup \/ EndsWell(d))
                    BY <2>0, <3>1, <4>3 DEF Inv, UntoldIsMade
                <5>2. d = c
                    BY <2>1, <5>1 DEF Inv, OneWaits
                <5> QED
                    BY <1>0, <1>2, <3>1, <5>1, <5>2 DEF CallShape
            <4>4. CASE r.name \in Snap
                BY <2>0, <3>1, <3>3, <4>4 DEF Inv, SnapshotGood
            <4> QED
                BY <2>0, <4>1, <4>2, <4>3, <4>4 DEF Name
        <3> QED
            BY <1>0, <2>0, <2>3, <3>1, <3>2, <3>3 DEF Creates, Deletes
    <2>4. CASE Moves(c) /\ ~Creates(c)
        BY <2>0, <2>2, <2>4 DEF Moves, lvm
    <2>5. CASE FillsSecond(c)
        <3>1. Creates(c) /\ ~Deletes(c) /\ r.name \notin Snap
            BY <1>0, <2>0, <2>5, ControllerServerAssumption DEF FillsSecond, CallShape, Creates, Deletes
        <3> QED
            BY <1>0, <1>2, <2>0, <2>5, <3>1, FilledIsGood
    <2>6. ASSUME NEW x \in Lv, Removes(c, x) PROVE ~Creates(c) /\ r.name \notin exists'
        <3>1. r.pc = "remove" /\ x = r.name /\ LvRemove(x)
            BY <1>2, <2>0, <2>6 DEF Removes, EndsWell
        <3>2. ~Creates(c)
            BY <1>0, <2>0, <3>1 DEF CallShape, Creates, Early, Held
        <3> QED
            BY <1>0, <3>1, <3>2, RemoveFacts
    <2>7. ASSUME NEW v \in Vol, Takes(c, v) \/ Activates(c, v) PROVE FALSE
        BY <2>0, <2>7 DEF Takes, Activates
    <2>8. ASSUME NEW x \in Snap \cup {c}, Snaps(c, x) PROVE FALSE
        BY <2>0, <2>8 DEF Snaps
    <2>9. ~Makes(c) /\ ~FillsFirst(c)
        BY <2>0 DEF Makes, FillsFirst
    <2> QED
        BY <1>2, <2>0, <2>3, <2>4, <2>5, <2>6, <2>7, <2>8, <2>9 DEF HandlerStep
<1>3. CASE HandlerStep(c) /\ EndsWell(c)
    BY <1>1, <1>3 DEF HandlerStep, Frame
<1>4. CASE call'[c] = call[c]
    BY <1>1, <1>4 DEF EndsWell
<1>5. CASE Fresh(c) \/ call'[c] = Over
    BY <1>5, OverCall DEF Fresh, EndsWell
<1> QED
    BY <1>0, <1>2, <1>3, <1>4, <1>5, NextCall

-----------------------------------------------------------------------------
(* What is copied is good: sources, snapshots, and temporary snapshots. *)
LEMMA NextSourceGood == ASSUME Inv, [Next]_vars PROVE SourceGood'
<1>0. /\ TypeOK /\ OriginExists /\ (\A c \in Call : CallShape(c)) /\ spoiled \subseteq spoiled'
    BY NextGrows DEF Inv
<1> SUFFICES ASSUME NEW c \in Call, Running(c)', call'[c].src \in exists' \ spoiled'
             PROVE  Good(data'[call'[c].src])
    BY DEF SourceGood, Good
<1> DEFINE x == call'[c].src
<1>1. x \notin spoiled /\ x \in Name
    <2>1. x \in Name \cup {None} /\ exists' \subseteq Lv
        BY <1>0, NextType DEF TypeOK, CallRec
    <2> QED
        BY <1>0, <2>1, ControllerServerAssumption DEF Lv, Name
<1>2. ASSUME Running(c), call[c].src = x PROVE Good(data'[x])
    <2>1. told[x] # "nothing"
        BY <1>1, <1>2, ControllerServerAssumption DEF Inv, SourceTold, Name
    <2>2. x \in exists
        BY <1>1, <2>1, NextNamed
    <2>3. Good(data[x])
        BY <1>1, <1>2, <2>2 DEF Inv, SourceGood
    <2>4. \A d \in Call : call[d].name = x => call[d].pc \notin {"fill", "half"}
        <3> SUFFICES ASSUME NEW d \in Call, call[d].name = x, call[d].pc \in {"fill", "half"} PROVE FALSE
            OBVIOUS
        <3>1. x \in call[d].cleanup
            BY <1>0 DEF CallShape
        <3> QED
            BY <1>1, <2>1, <3>1, ListedUntold
    <2> QED
        BY <1>1, <2>2, <2>3, <2>4, GoodStays
<1>3. CASE Fresh(c)
    <2>1. PICK n, op, name, src : n \in Node /\ Asks(n, c, op, name, src)
        <3>1. ASSUME NEW d \in Call, HandlerStep(d) PROVE call'[c] = call[c] \/ Running(c)
            BY <3>1 DEF HandlerStep, Frame
        <3>2. ASSUME NEW d \in Call, Asked(d) PROVE call'[c] = call[c] \/ d = c
            BY <1>0, <3>2, AskedCall DEF Asked
        <3>3. ASSUME NEW d \in Call, Answer(d) PROVE call'[c] = call[c] \/ Running(c)
            BY <1>0, <3>3, AnsweredCall
        <3>4. ASSUME NEW m \in Node, Crash(m) PROVE call'[c] = call[c] \/ Running(c)
            BY <1>0, <3>4, CrashedCall
        <3>5. \/ UNCHANGED call
              \/ \E d \in Call : Asked(d) \/ HandlerStep(d) \/ Answer(d)
              \/ \E m \in Node : Crash(m)
            BY <1>0, NextKinds DEF vars, GiveUp, Unlock, Stage, Unstage, Write
        <3>6. call'[c] # call[c] /\ ~Running(c)
            BY <1>3 DEF Fresh, Running
        <3> QED
            BY <3>1, <3>2, <3>3, <3>4, <3>5, <3>6 DEF Asked
    <2>2. src = x /\ told[src] = "created"
        BY <1>0, <1>1, <2>1, AskedCall, ControllerServerAssumption DEF Asks, Name
    <2> QED
        BY <1>1, <2>2, CreatedStays
<1>4. CASE HandlerStep(c)
    BY <1>2, <1>4 DEF HandlerStep, Frame
<1>5. CASE call'[c] = call[c]
    BY <1>2, <1>5 DEF Running
<1>6. CASE call'[c] = Over
    BY <1>6, OverCall DEF Running
<1> QED
    BY <1>0, <1>3, <1>4, <1>5, <1>6, NextCall

(* A snapshot is as good as its source was. *)
LEMMA NextSnapshotGood == ASSUME Inv, [Next]_vars PROVE SnapshotGood' /\ TemporaryGood'
<1>0. /\ TypeOK /\ OriginExists /\ (\A c \in Call : CallShape(c)) /\ spoiled \subseteq spoiled'
    BY NextGrows DEF Inv
<1>1. ASSUME NEW x, NEW c \in Call, x \in Snap \cup {c}, HandlerStep(c), Snaps(c, x),
             call[c].src \notin spoiled
      PROVE  Good(data'[x])
    <2>1. /\ LvCreateSnapshot(x, call[c].src) /\ call[c].src \in Vol /\ call[c].src \in exists /\ Running(c)
        BY <1>1 DEF Snaps, Active, HandlerStep, Frame
    <2>2. data'[x] = data[call[c].src]
        BY <1>0, <1>1, <2>1, SnapFacts
    <2> QED
        BY <1>1, <2>1, <2>2 DEF Inv, SourceGood
<1>2. SnapshotGood'
    <2> SUFFICES ASSUME NEW s \in Snap, s \in exists', s \notin spoiled', origin'[s] \notin spoiled'
                 PROVE  Good(data'[s])
        BY DEF SnapshotGood, Good
    <2>1. s \in Name /\ s \notin spoiled
        BY <1>0 DEF Name
    <2>2. CASE s \notin exists
        <3>1. PICK c \in waits : HandlerStep(c) /\ Snaps(c, s)
            BY <2>1, <2>2, NextNamed, ControllerServerAssumption DEF Makes
        <3>2. c \in Call /\ origin'[s] = call[c].src
            BY <1>0, <3>1, SnapFacts DEF Snaps, TypeOK
        <3> QED
            BY <1>0, <1>1, <3>1, <3>2
    <2>3. CASE s \in exists
        <3>1. Good(data[s])
            BY <1>0, <2>1, <2>3, NextOrigin DEF Inv, SnapshotGood
        <3>2. \A d \in Call : call[d].name = s => call[d].pc \notin {"fill", "half"}
            BY <1>0, ControllerServerAssumption DEF CallShape, Running
        <3> QED
            BY <2>1, <2>3, <3>1, <3>2, GoodStays
    <2> QED
        BY <2>2, <2>3
<1>3. TemporaryGood'
    <2> SUFFICES ASSUME NEW c \in Call, c \in exists', Running(c)', call'[c].src \notin spoiled'
                 PROVE  Good(data'[c])
        BY DEF TemporaryGood, Good
    <2>1. c \notin Name /\ \A d \in Call : Running(d) => c # call[d].name
        BY <1>0, ControllerServerAssumption DEF Name, TypeOK
    <2>2. CASE c \notin exists
        <3>1. PICK d \in Call : HandlerStep(d) /\ \/ Makes(d) /\ c = call[d].name
                                                  \/ c \in Snap \cup {d} /\ Snaps(d, c)
            BY <1>0, <2>2, NextExists
        <3>2. d = c /\ Snaps(c, c)
            BY <2>1, <3>1, ControllerServerAssumption DEF HandlerStep, Frame
        <3>3. call'[c].src = call[c].src
            BY <3>1, <3>2 DEF HandlerStep, Frame
        <3> QED
            BY <1>0, <1>1, <3>1, <3>2, <3>3
    <2>3. CASE c \in exists
        <3>1. call[c].pc \notin {"new", "temp", "snapshot"}
            BY <2>3 DEF Inv, TemporaryOrigin, Held
        <3>2. Running(c) /\ call'[c].src = call[c].src
            <4>1. ~Fresh(c) /\ call'[c] # Over
                BY <3>1, OverCall DEF Fresh, Running
            <4> QED
                BY <1>0, <4>1, NextCall DEF HandlerStep, Frame, Running
        <3>3. Good(data[c])
            BY <1>0, <2>3, <3>2 DEF Inv, TemporaryGood
        <3>4. ASSUME NEW d \in Call, c \in Snap \cup {d}, Snaps(d, c) PROVE FALSE
            BY <3>1, <3>4, ControllerServerAssumption DEF Snaps
        <3>5. ASSUME NEW d \in Call, HandlerStep(d), c = call[d].name PROVE FALSE
            BY <2>1, <3>5 DEF HandlerStep, Frame
        <3>6. c \notin Vol
            BY ControllerServerAssumption
        <3> QED
            BY <1>0, <3>3, <3>4, <3>5, <3>6, NextData
    <2> QED
        BY <2>2, <2>3
<1> QED
    BY <1>2, <1>3

(* Between its two halves, a copy's first half is that of its source. *)
LEMMA NextHalfIsCopied == ASSUME Inv, [Next]_vars PROVE HalfIsCopied'
<1>0. /\ TypeOK /\ OriginExists /\ (\A c \in Call : CallShape(c)) /\ spoiled \subseteq spoiled'
      /\ data \in [Lv -> (0..2) \X (0..2)]
    BY NextGrows DEF Inv, TypeOK
<1>a. FilledActive' /\ TypeOK'
    BY <1>0, NextFilledActive, NextType
<1> SUFFICES ASSUME NEW c \in Call, call'[c].pc = "half", call'[c].name \notin spoiled'
             PROVE  data'[call'[c].name][1] = Content(c, 1)'
    BY DEF HalfIsCopied
<1> DEFINE r == call[c]
           q == call'[c]
<1>1. CASE call'[c] = call[c]
    <2>1. /\ r.pc = "half" /\ r.name \notin spoiled /\ data[r.name][1] = Content(c, 1)
          /\ r.name \in exists' /\ (r.src # None => DataVol(c)' \in exists')
          /\ r.src # None => DataVol(c) \in exists
        BY <1>0, <1>1, <1>a DEF Inv, HalfIsCopied, FilledActive
    <2>2. /\ Running(c) /\ r.name \in Vol /\ r.name \in Name /\ r.name \in r.cleanup
        BY <1>0, <2>1 DEF CallShape, Running, Name
    <2>3. told[r.name] = "nothing" /\ c \in waits
        BY <2>1, <2>2, ListedUntold
    <2>4. data'[r.name] = data[r.name]
        <3> SUFFICES ASSUME data'[r.name] # data[r.name] PROVE FALSE
            OBVIOUS
        <3>1. ASSUME NEW d \in Call, r.name \in Snap \cup {d} PROVE FALSE
            BY <2>2, <3>1, ControllerServerAssumption
        <3>2. ASSUME NEW d \in Call, HandlerStep(d), r.name = call[d].name, FillsFirst(d) \/ FillsSecond(d)
              PROVE  FALSE
            <4>1. d \in waits
                BY <2>1, <3>2 DEF HandlerStep, Frame, Inv, UnspoiledWaits
            <4>2. d = c
                BY <2>3, <3>2, <4>1 DEF Inv, OneWaits
            <4> QED
                BY <1>1, <2>1, <3>2, <4>2 DEF FillsFirst, FillsSecond
        <3>3. ASSUME NEW n \in Node, Write(n, r.name) PROVE FALSE
            BY <2>2, <2>3, <3>3 DEF Write, Inv, StagedActive
        <3> QED
            BY <1>0, <2>1, <3>1, <3>2, <3>3, NextData
    <2>5. ASSUME r.src # None PROVE data'[DataVol(c)] = data[DataVol(c)]
        <3> SUFFICES ASSUME data'[DataVol(c)] # data[DataVol(c)] PROVE FALSE
            OBVIOUS
        <3>0. DataVol(c)' = DataVol(c) /\ DataVol(c) \in exists' /\ DataVol(c) \in exists
            BY <1>1, <2>1, <2>5 DEF DataVol
        <3>1. DataVol(c) \in Snap \cup {c} /\ DataVol(c) \notin Vol
            BY <1>0, <2>5, ControllerServerAssumption DEF DataVol, TypeOK, CallRec, Name
        <3>2. ASSUME NEW d \in Call, Snaps(d, DataVol(c)), DataVol(c) \in Snap \cup {d} PROVE FALSE
            <4>1. DataVol(c) = d
                BY <3>0, <3>2 DEF Snaps
            <4>2. d = c
                BY <3>1, <4>1, ControllerServerAssumption
            <4> QED
                BY <2>1, <3>2, <4>1, <4>2, ControllerServerAssumption DEF Snaps
        <3>3. ASSUME NEW d \in Call, DataVol(c) = call[d].name, FillsFirst(d) \/ FillsSecond(d) PROVE FALSE
            BY <3>1, <3>3 DEF FillsFirst, FillsSecond
        <3> QED
            BY <1>0, <3>0, <3>1, <3>2, <3>3, NextData
    <2>6. Content(c, 1)' = Content(c, 1)
        BY <1>1, <2>5 DEF Content, DataVol
    <2> QED
        BY <1>1, <2>1, <2>4, <2>6
<1>2. CASE HandlerStep(c)
    <2>1. FillsFirst(c)
        BY <1>2, HalfByFill
    <2>2. /\ r.pc = "fill" /\ r.name \in Vol /\ q.name = r.name /\ q.src = r.src /\ Running(c)
          /\ data' = [data EXCEPT ![r.name] = <<Content(c, 1), @[2]>>] /\ r.name \notin spoiled
        BY <1>0, <1>2, <2>1 DEF FillsFirst, HandlerStep, Frame
    <2>3. data'[r.name][1] = Content(c, 1)
        BY <1>0, <2>2 DEF Lv, Name
    <2>4. ASSUME r.src # None PROVE data'[DataVol(c)] = data[DataVol(c)]
        <3>1. r.name \in r.cleanup
            BY <1>0, <2>2 DEF CallShape
        <3>2. told[r.name] = "nothing" /\ told[r.src] # "nothing"
            BY <2>2, <2>4, <3>1, ListedUntold DEF Inv, SourceTold, Name
        <3>3. DataVol(c) # r.name
            BY <2>2, <3>2, ControllerServerAssumption DEF DataVol
        <3>4. DataVol(c) \in Lv
            BY <1>0, <2>4 DEF DataVol, TypeOK, CallRec, Lv, Name
        <3> QED
            BY <1>0, <2>2, <3>3, <3>4
    <2>5. Content(c, 1)' = Content(c, 1)
        BY <2>2, <2>4 DEF Content, DataVol
    <2> QED
        BY <2>2, <2>3, <2>5
<1>3. CASE Fresh(c) \/ call'[c] = Over
    BY <1>3, OverCall DEF Fresh
<1> QED
    BY <1>0, <1>1, <1>2, <1>3, NextCall

-----------------------------------------------------------------------------
(* The invariant holds at the start. *)
LEMMA InitInv == Init => Inv
<1> SUFFICES ASSUME Init PROVE Inv
    OBVIOUS
<1>1. PICK S \in SUBSET Snap : exists = Used \cup S
    BY DEF Init
<1>2. PICK u \in Used : origin = [x \in Snap \cup Call |-> IF x \in exists THEN u ELSE None]
    BY DEF Init
<1>3. /\ u \in Vol \cap exists /\ exists \subseteq Name /\ exists \cap Call = {}
    BY <1>1, ControllerServerAssumption DEF Name
<1>4. /\ \A c \in Call : call[c] = NoCall /\ ~Running(c)
      /\ NoCall \in CallRec /\ NoCall.cleanup = {} /\ NoCall.pc = "new" /\ NoCall.src = None
      /\ NoCall.name = None /\ NoCall.lockVol = None
    BY DEF Init, NoCall, CallRec, Running
<1>5. data \in [Lv -> (0..2) \X (0..2)]
    <2>1. Blank \in (0..2) \X (0..2) /\ <<1, 1>> \in (0..2) \X (0..2)
        BY DEF Blank
    <2> QED
        BY <2>1 DEF Init
<1>6. TypeOK
    <2>1. CallType
        BY <1>4 DEF Init, CallType
    <2>2. LvmType
        <3>1. exists \subseteq Lv
            BY <1>3 DEF Lv
        <3>2. origin \in [Snap \cup Call -> Vol \cup {None}]
            BY <1>2, <1>3
        <3>3. lease \in [Vol -> Node \cup {None}] /\ owner \in [Vol -> Node \cup {None}]
            BY DEF Init
        <3>4. ops \in [Node -> [Vol -> SUBSET (Call \cup {"stage"})]]
            BY DEF Init
        <3> QED
            BY <1>5, <3>1, <3>2, <3>3, <3>4 DEF LvmType
    <2>3. HistoryType
        BY ControllerServerAssumption DEF Init, HistoryType
    <2> QED
        BY <2>1, <2>2, <2>3 DEF TypeOK, CallType, LvmType, HistoryType
<1>7. \A c \in Call : CallShape(c)
    BY <1>4, ControllerServerAssumption DEF CallShape
<1>8. OneWaits /\ UnspoiledWaits /\ CreatorTold /\ DeleterTold /\ SourceTold /\ CleanupTold
    BY <1>4 DEF Init, OneWaits, UnspoiledWaits, CreatorTold, DeleterTold, SourceTold, CleanupTold
<1>9. LeaseExists /\ OriginExists /\ TemporaryOrigin /\ SourceOrigin
    <2>1. \A x \in exists \ Vol : x \in Snap /\ origin[x] = u
        BY <1>1, <1>2, ControllerServerAssumption
    <2>2. told[u] = "created"
        BY <1>3 DEF Init, Name
    <2>3. OriginExists
        BY <1>3, <2>1, <2>2 DEF OriginExists
    <2> QED
        BY <1>3, <1>4, <2>3 DEF Init, LeaseExists, TemporaryOrigin, SourceOrigin, Held
<1>10. OpsOfCalls /\ HeldLocks /\ StagedActive /\ LockedActive /\ FilledActive
    <2>1. \A n \in Node, v \in Vol : ops[n][v] = {}
        BY DEF Init
    <2> QED
        BY <1>4, <2>1 DEF OpsOfCalls, HeldLocks, StagedActive, Staged, LockedActive, FilledActive, Held
<1>11. TemporaryCleanup /\ LeaseCleanup
    BY <1>3 DEF Init, TemporaryCleanup, LeaseCleanup
<1>12. \A x \in exists : Good(data[x]) /\ told[x] = "created"
    <2>1. \A x \in exists : data[x] = <<1, 1>>
        BY <1>3 DEF Init, Lv
    <2> QED
        BY <1>3, <2>1 DEF Init, Good
<1>13. \A x \in Name \ exists : told[x] = "nothing"
    BY DEF Init
<1>14. CreatedExists /\ DeletedGone /\ OriginKept /\ UntoldIsMade /\ AnswerHolds
    BY <1>4, <1>12, <1>13 DEF CreatedExists, DeletedGone, OriginKept, UntoldIsMade, AnswerHolds, EndsWell, Name
<1>15. SourceGood /\ SnapshotGood /\ TemporaryGood /\ HalfIsCopied
    BY <1>4, <1>12 DEF SourceGood, SnapshotGood, TemporaryGood, HalfIsCopied
<1> QED
    BY <1>6, <1>7, <1>8, <1>9, <1>10, <1>11, <1>14, <1>15 DEF Inv

(* Every step preserves it. *)
LEMMA NextInv == Inv /\ [Next]_vars => Inv'
<1> SUFFICES ASSUME Inv, [Next]_vars PROVE Inv'
    OBVIOUS
<1>1. TypeOK' /\ \A c \in Call : CallShape(c)'
    BY NextType DEF Inv
<1>2. RequestInv' /\ LvmInv' /\ OpsInv' /\ LeftInv'
    BY NextRequests, NextLvm, NextLocks, NextLeft
<1>3. CreatedExists' /\ DeletedGone' /\ OriginKept' /\ UntoldIsMade' /\ AnswerHolds'
    BY NextCreatedExists, NextUntoldIsMade, NextAnswerHolds
<1>4. SourceGood' /\ SnapshotGood' /\ TemporaryGood' /\ HalfIsCopied'
    BY NextSourceGood, NextSnapshotGood, NextHalfIsCopied
<1> QED
    BY <1>1, <1>2, <1>3, <1>4 DEF Inv, RequestInv, LvmInv, OpsInv, LeftInv

(* The controller server's invariant: requests, locks, logical volumes, what  *)
(* they hold and what the orchestrator was told agree, in every state.     *)
THEOREM Invariance == Spec => []Inv
    BY InitInv, NextInv, PTL DEF Spec

(* The state keeps its shape (controllerserver.go:140-431, 662-819). *)
THEOREM TypeCorrect == Spec => []TypeOK
<1>1. Inv => TypeOK
    BY DEF Inv
<1> QED
    BY <1>1, Invariance, PTL

(* What CreateVolume answered for exists and holds all of its content, on  *)
(* any number of nodes, whatever fails (controllerserver.go:371).          *)
THEOREM CreatedIsAlwaysUsable == Spec => []CreatedIsUsable
<1>1. Inv => CreatedIsUsable
    <2> SUFFICES ASSUME Inv, NEW v \in Vol, v \notin spoiled, told[v] = "created"
                 PROVE  v \in exists /\ data[v][1] > 0 /\ data[v][2] > 0
        BY DEF CreatedIsUsable
    <2>1. v \in exists /\ Good(data[v])
        BY DEF Inv, CreatedExists, Name
    <2>2. data[v] \in (0..2) \X (0..2)
        BY DEF Inv, TypeOK, Lv, Name
    <2> QED
        BY <2>1, <2>2 DEF Good
<1> QED
    BY <1>1, Invariance, PTL

(* A clone, a restored volume or a snapshot is its source at one instant   *)
(* (controllerserver.go:299).                                              *)
THEOREM AlwaysPointInTime == Spec => []PointInTime
<1>1. Inv => PointInTime
    <2> SUFFICES ASSUME Inv, NEW x \in exists, x \notin spoiled, x \notin Call, told[x] = "created"
                 PROVE  data[x][1] >= data[x][2]
        BY DEF PointInTime
    <2>1. x \in Name
        BY DEF Inv, TypeOK, Lv
    <2> QED
        BY <2>1 DEF Inv, CreatedExists, Good
<1> QED
    BY <1>1, Invariance, PTL

(* A snapshot stays until its deletion is asked for, and what was deleted  *)
(* is gone (controllerserver.go:448-470, 726-756, 811-818).                *)
THEOREM AlwaysKeptUntilDeleted == Spec => []KeptUntilDeleted
<1>1. Inv => KeptUntilDeleted
    BY DEF Inv, CreatedExists, DeletedGone, KeptUntilDeleted, Name
<1> QED
    BY <1>1, Invariance, PTL

(* A handler keeps what it locked active on its node, and what it fills in *)
(* place (controllerserver.go:277-296, 364-368; volumelock.go:74-146).     *)
THEOREM HandlersAlwaysKeepLease == Spec => []HandlerKeepsLease
<1>1. Inv => HandlerKeepsLease
    <2> SUFFICES ASSUME Inv, NEW c \in Call
                 PROVE  /\ call[c].pc \in Held
                              => call[c].lockVol \notin exists \ spoiled \/ lease[call[c].lockVol] = call[c].at
                        /\ call[c].pc \in {"fill", "half"}
                              => call[c].name \notin exists \ spoiled \/ lease[call[c].name] = call[c].at
                        /\ call[c].pc = "half" /\ call[c].src \notin spoiled => Ready(c)
        BY DEF HandlerKeepsLease, Held
    <2>0. TypeOK /\ CallShape(c) /\ LockedActive /\ HeldLocks /\ FilledActive /\ TemporaryOrigin /\ SourceOrigin
        BY DEF Inv
    <2>1. ASSUME call[c].pc \in Held, call[c].lockVol \in exists \ spoiled
          PROVE  lease[call[c].lockVol] = call[c].at
        <3>1. call[c].at \in Node /\ call[c].lockVol \in Vol
            BY <2>0, <2>1, ControllerServerAssumption DEF TypeOK, CallRec, Held, Running, Lv, Name
        <3> QED
            BY <2>0, <2>1, <3>1, ControllerServerAssumption DEF LockedActive, HeldLocks
    <2>2. ASSUME call[c].pc \in {"fill", "half"}, call[c].name \in exists \ spoiled
          PROVE  lease[call[c].name] = call[c].at
        <3>1. call[c].at \in Node /\ call[c].name \in Vol
            BY <2>0, <2>2 DEF TypeOK, Running, CallShape
        <3> QED
            BY <2>0, <2>2, <3>1 DEF LockedActive, HeldLocks
    <2>3. ASSUME call[c].pc = "half", call[c].src \notin spoiled PROVE Ready(c)
        <3>1. Running(c) /\ call[c].name \in Vol /\ call[c].src \in Name \cup {None}
            BY <2>0, <2>3 DEF TypeOK, CallRec, Running, CallShape
        <3>2. Active(call[c].at, call[c].name)
            BY <2>0, <2>3, <3>1 DEF FilledActive, Active, Base
        <3>3. ASSUME call[c].src # None PROVE Active(call[c].at, DataVol(c))
            <4>1. DataVol(c) \in exists /\ lease[call[c].lockVol] = call[c].at
                BY <2>0, <2>3, <3>3 DEF FilledActive
            <4>2. CASE call[c].src \in Vol
                <5>1. DataVol(c) = c /\ c \notin Vol /\ origin[c] = call[c].lockVol
                    BY <2>0, <3>1, <4>1, <4>2, ControllerServerAssumption
                       DEF DataVol, TemporaryOrigin, CallShape
                <5> QED
                    BY <4>1, <5>1 DEF Active, Base
            <4>3. CASE call[c].src \in Snap
                <5>1. DataVol(c) = call[c].src /\ call[c].src \notin Vol
                    BY <4>3, ControllerServerAssumption DEF DataVol
                <5>2. origin[call[c].src] = call[c].lockVol
                    BY <2>0, <2>3, <4>1, <4>3, <5>1 DEF SourceOrigin, Held
                <5> QED
                    BY <4>1, <5>1, <5>2 DEF Active, Base
            <4> QED
                BY <3>1, <3>3, <4>2, <4>3 DEF Name
        <3> QED
            BY <3>2, <3>3 DEF Ready
    <2> QED
        BY <2>1, <2>2, <2>3
<1> QED
    BY <1>1, Invariance, PTL

(* A request that is over leaves no temporary snapshot and no lock behind  *)
(* (controllerserver.go:261-296, 364-368, 910-914).                        *)
THEOREM NothingIsLeftBehind == Spec => []NothingLeftBehind
<1>1. Inv => NothingLeftBehind
    <2> SUFFICES ASSUME Inv PROVE NothingLeftBehind
        OBVIOUS
    <2>0. /\ TypeOK /\ (\A c \in Call : CallShape(c)) /\ TemporaryCleanup /\ LeaseCleanup /\ OpsOfCalls
          /\ lease \in [Vol -> Node \cup {None}]
          /\ ops \in [Node -> [Vol -> SUBSET (Call \cup {"stage"})]]
        BY DEF Inv, TypeOK
    <2>1. \A c \in exists \cap Call : Running(c) \/ c \in leaked
        BY <2>0 DEF TemporaryCleanup, CallShape
    <2>2. ASSUME NEW v \in Vol, v \notin leaked, lease[v] # None, ~Staged(lease[v], v)
          PROVE  \E c \in Call : Running(c) /\ v \in {call[c].name, call[c].lockVol}
        <3>0. lease[v] \in Node
            BY <2>0, <2>2
        <3>1. CASE ops[lease[v]][v] # {}
            <4>1. PICK op : op \in ops[lease[v]][v]
                BY <3>1
            <4>2. op \in Call
                BY <2>0, <2>2, <3>0, <4>1 DEF Staged
            <4>3. v \in {call[op].name, call[op].lockVol} /\ call[op].pc \in Held \cup {"remove", "unwind"}
                BY <2>0, <3>0, <4>1, <4>2 DEF OpsOfCalls, Held
            <4> QED
                BY <4>2, <4>3 DEF Running, Held
        <3>2. CASE ops[lease[v]][v] = {}
            <4>1. PICK c \in Call : v \in call[c].cleanup
                BY <2>0, <2>2, <3>2 DEF LeaseCleanup
            <4>2. v = call[c].name /\ Running(c)
                BY <2>0, <4>1, ControllerServerAssumption DEF TypeOK, CallShape
            <4> QED
                BY <4>2
        <3> QED
            BY <3>1, <3>2
    <2> QED
        BY <2>1, <2>2 DEF NothingLeftBehind
<1> QED
    BY <1>1, Invariance, PTL
=============================================================================
