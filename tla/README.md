# csi-sanlock-lvm in TLA+

csi-sanlock-lvm is a CSI driver that gives each node of a cluster read/write access to logical volumes on shared
storage. Every node runs a `driverd` (the CSI server) and an `lvmctrld` (which runs lvm commands and starts sanlock and
lvmlockd). The nodes have no network protocol of their own: they exclude each other with lvm's exclusive activation,
backed by sanlock leases on the shared disk, and they delegate requests to each other through a mailbox file, also on
the shared disk. This directory models that coordination and what is built on it: who holds a volume, what the mailbox
file looks like after a crash, which remote calls come back, what becomes of volumes and snapshots that are created,
cloned, deleted, staged and expanded from several nodes, and what the answers to requests are worth.

## Inventory

| part | state | operations | interacts with | what makes it correct |
|---|---|---|---|---|
| volume locker, `pkg/driverd/volumelock.go` | per node, volume -> operations that hold it; on disk, leases and owner tags | `LockVolume`, `UnlockVolume`, `GetOwner`, `setOwner`, `sync` at start-up | lvm commands through lvmctrld; called by controller, node server and rpc adapter | one holder per volume; a holder has the lease and is named by the one owner tag; a restarted driver knows what is in use and releases what is not |
| state segments, `mailbox.go` `readState`/`writeState` | three copies of heads and allocation tree | read, write | used by the mailbox under the rpc lock | a write that is cut short took place or did not |
| allocator, `pkg/diskrpc/allocator.go` | buddy tree | `Alloc`, `Free` | stored in the state segments | hands out disjoint blocks, loses no space |
| mailbox, `pkg/diskrpc/mailbox.go` | one file: header, state segments, data blocks | `NewMailBox`/`format`, `Send`, `Recv` | rpc lock (a volume lock), allocator | sending and receiving are atomic, messages are delivered at most once and in the end |
| disk rpc, `pkg/diskrpc/diskrpc.go` | pending calls, queue of outgoing messages, mutex | `Register`, `Invoke`, `Handle` | mailbox; runs methods of the controller server | a method runs at most once per call; callers return; the loop keeps running |
| rpc service, `pkg/driverd/diskrpcservice.go` | the Handle goroutine | `Lock`/`Unlock` adapter, `Start` | locker, disk rpc | retries until it has the lock |
| controller server, `controllerserver.go` | none (lvm metadata) | `CreateVolume`, `DeleteVolume`, `CreateSnapshot`, `DeleteSnapshot`; expand, validate, capacity and the listings read only | locker, disk rpc, lvmctrld | retried requests end in complete volumes; clones are a point in time; locks and temporary snapshots go away; listings are complete; sizes and capabilities are in range |
| node server and file systems, `nodeserver.go`, `filesystem.go` | mounts | stage, publish, unpublish, unstage, expand | locker, lvmctrld, kernel | a volume is mounted on the node that holds it only; retries are idempotent |
| tags and references, `tagencoder.go`, `tags.go`, `volumeref.go` | none | encode, decode | all of the above | what is read back from lvm is what was stored |
| lvmctrld, `pkg/lvmctrld` | none | lvm commands and their errors; starting the lock daemons | driverd | |
| command line tools, listeners, logging | none | | | |

What is hard about it: the locker's methods are sequences of lvm commands, each of which can fail before or after its
effect, or run after its caller has given up; drivers and hosts die between any two of them; two lockers race for the
volume and for its tags; the mailbox file is written by several hosts and must survive any torn write; callers time out
while their response is on its way; one goroutine per node does everything for the remote calls and must not block.
`PROJECT.json` lists these hazards at their lines, with the properties that cover them.

## Modules

| module | models | state and actions |
|---|---|---|
| `ExclusiveLock` | abstract: what the locker promises | holders of each volume; `Acquire`, `Release` |
| `VolumeLock` | `volumelock.go` and the lvm commands it uses | one action per step of a method: every lvm command is a step of its own (`Activate`, `FetchTags`, `Retag`, `Deactivate`, `Undo`), because other nodes and crashes come between; `LockVolume`, `UnlockVolume` and `Start` enter a method; `SyncList` and `SyncNext` are `sync`; `Open` and `Close` stand for what node and controller server do with a device they have locked; `DriverCrash`, `HostCrash`, `LateCommand` are the environment |
| `VolumeLockProofs` | proofs about `VolumeLock` | |
| `StateSegments` | `readState`, `writeState` | three copies made of parts; `BeginWrite`, `WritePart`, `NextCopy`, `EndWrite`, `Interrupt` |
| `StateSegmentsProofs` | proofs about `StateSegments` | |
| `BlockAllocator` | abstract: allocation of aligned blocks as sets | live blocks |
| `MailBoxFormat` | `NewMailBox`, `readHeader`, `format` of `mailbox.go`, called when the rpc service starts; reads copies as `StateSegments` does | the header, the three copies as numbers, the rpc lock; `StartDriver`, `FormatHeader`, `WriteCopy`, `Change` (a Send or a Recv), `Die` |
| `BuddyAllocator` | `allocator.go` | the tree as an array; `Alloc` and `Free` go down to a node, negate it and rewrite the nodes above on the way back |
| `MailBoxFileProofs` | proofs about `MailBoxFormat` and `BuddyAllocator`, and that the latter implements `BlockAllocator` | |
| `PostOffice` | abstract: what the mailbox promises | a box per node; `Post`, `Collect`, `HandOver`, `Lose` |
| `MailBox` | `mailbox.go` `Send` and `Recv`, the rpc lock adapter; composes `StateSegments` | lists of blocks and the set of allocated blocks in the segments, the data blocks, the lock; a method is `Lock`, `SendAlloc`/`SendStore` or `RecvWalk`, the steps of the write, `Unlock` |
| `MailBoxProofs` | proofs about `MailBox` and that it implements `PostOffice` | |
| `DiskRpc` | `diskrpc.go`, the loop of `diskrpcservice.go`; uses mailboxes as `PostOffice` describes them | calls, pending, outgoing, mailboxes, where each Handle loop is; `Invoke`, `Timeout`, `Return` for callers, `HandleRecv`, `HandleResponse`, `Deliver`, `HandleRequest`, ... for the loop |
| `DiskRpcProofs` | proofs about `DiskRpc` | |
| `NodeServer` | `nodeserver.go`, `filesystem.go`; locks as `VolumeLock` shows them to be | what the orchestrator was told (`co`), the step of the call in progress, leases and locks, mounts at staging and target paths, sizes; a request is an action that begins the call (`NodeStageVolume`), and each part that can fail or be cut off is one of its own (`StageLock`, `StageMount`) |
| `NodeServerProofs` | proofs about `NodeServer` | |
| `ControllerServer` | the handlers of `controllerserver.go` that change something, with the locker, lvm, the rpc loop and the node server as they meet them | a record per request: its arguments, the node it runs on, whether it was delegated, how far its handler is, what its deferred functions have to do; the logical volumes with origin, lease, owner tag and content; `LookupSource`, `LockSource`, `CreateTemporary`, `CreateLv`, `LockNew`, `Fill`, `TakeSnapshot`, `RemoveVolume`, ... are the steps of a handler, `Unlock` and `CleanUp` its deferred functions, `Answer` its end |
| `ControllerServerProofs` | proofs about `ControllerServer` | |
| `VolumeListing` | `ListVolumes`, `ListSnapshots` | what exists, and a client in the middle of a listing; `FirstPage`, `NextPage`, `Create`, `Delete` |
| `VolumeRequest` | the size calculations, `reduceVolumeCapabilities`, `ValidateVolumeCapabilities` | functions of the arguments of a request |
| `RequestProofs` | proofs about `VolumeListing`, `VolumeRequest` and `VolumeTags` | |
| `VolumeTags` | `tagencoder.go`, `tags.go`, `splitLvmField` | functions on sequences of bytes |

`MC*` modules name what TLC is run on, with symmetry sets where they are used; each `.cfg` is an instance. `MCMailBoxFile` puts `StateSegments`, `MailBoxFormat` and
`BuddyAllocator`, the parts of the mailbox file, into one instance, `MCRequests` the three modules about what requests
say and are told; a behaviour of either is about one of the parts. Names ending in `_Something` next to a definition
(`DelTags_KeepStale` beside `DelTags`) are wrong versions of it, kept to see that a property notices.

How the code is abstracted. A volume, a node, an operation, a message and a uuid are model values. The locker's mutex
makes a node run one method at a time, so a node has one program counter. Tags are the set of nodes that a volume's
owner tags name. lvmlockd is modelled from its use: a command on a volume needs its lease or that nobody has it, a device
that is open cannot be deactivated, deactivating what is not active changes nothing. The mailbox's block is the extent of
one message; addresses come from the lowest free block, as `BuddyAllocator` does it. The content of a message is its
number; a message is `long` when it does not fit into a block beside its length prefix. In `DiskRpc`, the short critical
sections of the mutex are atomic and the flush, which holds it over the Sends, is not. The channel of a call is not
modelled: `Invoke` does not transmit it (diskrpc.go:107-113), so that all requests are served by channel 0, the only one
that the program registers, although the type is meant as a "Multiplexer channel for RPC handlers". In `NodeServer` a
`LockVolume` or `UnlockVolume` is one step, with the outcomes that `VolumeLock` gives it, failures that leave the lease
included; a device is open while its file system is mounted or a workload has the raw device open, and cannot be
deactivated then. The orchestrator sends one call at a time for a volume on a node, repeats a call that failed, or undoes
it.

In `ControllerServer` every lvm command that changes something is a step, look-ups in a row are one step, and a lock or an
unlock is one step with the outcomes that `VolumeLock` gives it. The content of a volume is two halves, so that a copy can
be overtaken by a write, or cut short; sizes are left to `VolumeRequest`. A delegated request runs from its beginning in
the rpc loop of the owner, one at a time, with a context that never expires; any other runs with the context of its
caller, and once that has expired no command is issued any more, in the deferred functions neither. The orchestrator
issues one request at a time for a name, may give it up while it runs, and does not use a name again after it has deleted
it. (If it did, the lock that a `CreateSnapshot` keeps in memory would outlive the deletion of its volume, and count for
the new one of the same name.) In `VolumeListing` ids are numbers, in the order in which lvm sorts the names; in
`VolumeTags` strings are sequences of bytes, because the escapes are what the properties are about.

## Runs

| run | instance | shows |
|---|---|---|
| `lock_safety` | 2 nodes, a volume with the managed prefix and the rpc lock volume, 2 operations, every command may fail with or without effect, 2 crashes | mutual exclusion, lease and owner tag of a holder, no second owner tag, devices in use are known, refinement of `ExclusiveLock` |
| `lock_live` | 2 nodes, 1 volume, 1 command may run late and none fails, 1 crash, fairness | devices in use are known even then; without late commands orphaned volumes are released |
| `lock_late` | 2 nodes, 1 volume, 2 operations, 1 command may run late, no other failure | **violated**: a deactivation whose caller has given up runs after the volume was locked again, and a second node locks it |
| `mailbox_file` | 3 copies of 2 parts, 3 values, 1 torn write between complete ones; 3 drivers on a blank file, 2 changes, 1 death; 8 blocks, sizes 0 to 9, addresses 0 to 8 | the vote restores the old or the new value; a file that says it is formatted can be used and is formatted once; the tree is exact, refinement of `BlockAllocator` |
| `mailbox_torn` | 2 nodes, 2 blocks, 2 messages, i/o errors in the data and the state write, 1 crash | lists and tree agree, live blocks are not overwritten, refinement of `PostOffice` |
| `mailbox_live` | 2 nodes, 2 blocks, 3 messages, long ones among them, fairness | what waits is received, unless a long message blocks a box; the file runs full and recovers |
| `rpc` | 2 nodes, 2 calls with a deadline, nested calls without, queue limits 0 and 0, 1 mailbox error, 1 crash, fairness | a method runs at most once, the pending calls are those that wait, the queue is bounded; calls with a deadline return; a loop stops only in a delivery to a caller that has left or in a nested call |
| `rpc_late` | 2 nodes, 2 calls with a deadline, fairness | **violated**: a timeout that races the response blocks the Handle loop |
| `rpc_forever` | 2 nodes, 2 calls without deadline, 1 mailbox error, fairness | **violated**: the inverted test leaves callers without deadline waiting for ever |
| `node_safety` | 2 nodes, 1 volume, raw or with a file system, 2 sizes, every call may fail at every step, 2 crashes | what the orchestrator was told staged, published, unstaged or expanded is so; one node has the device open |
| `controller_safety` | 2 nodes, 2 volumes, 1 snapshot, 2 requests, 1 failing command or request that is given up, 1 crash; a volume is staged and written meanwhile | a volume reported created has all of its content, a copy is the source at one instant, snapshots stay and deleted volumes are gone, a handler keeps what it locked, nothing is left behind |
| `requests` | 4 volumes of 2 sources, pages of up to 2; sectors of 4 bytes, words of 6 bits, volume groups of up to 24 bytes, any word as required bytes, limit or maximum, shares in tenths from -1 to 1.1 and "NaN"; up to 3 capabilities of 5 modes, mounts with 3 file systems with and without flags, block or neither; 2 tags with values of up to 2 of 7 bytes | listings are complete and ordered and aborted only after a deletion; which sizes the handlers compute, which capabilities they accept and confirm; tags come back from lvm as they were set |

Why the bounds are enough. Two nodes give every race in the locker, whose steps involve the acting node and at most one
rival per volume; the proofs remove the bound. Two crashes let a node die while it recovers. Two messages make a list
with a successor, or reuse a block that was freed; three fill the two blocks. Two calls give a nested call, a queue at
its limit and a response that competes with a request; the limits of 64 and 256 are 0 and 0, so that the tests `>` are
reached with one message queued. `MaxTorn` is 1 because that is how far the design goes: with `MaxTorn = 2` TLC finds
`Transactional` violated (two interrupted writes in a row can leave the first two copies equal and mixed), although
mailbox.go:112-115 names no such limit. `MaxLate` is 0 in `lock_safety`, and in the theorems, because
lvmctrld runs commands without the caller's context (runner.go:29): `lock_late` shows how a late one breaks
`MutualExclusion`, and with it what rests on it. In `lock_live` no command fails (`Flaky = FALSE`): a deactivation that
fails leaves the volume active until its driver restarts or locks it again. In `rpc` the two calls have a deadline, as
the orchestrator's requests do, and those that a method makes have none, because Handle's context has none. With
`Delegating = TRUE` and no deadlines `HandleKeepsRunning` is violated without any timeout: a method that delegates waits, inside the loop, for a
request that only this loop can send. `OrphansReclaimed` is stated for volumes with the managed prefix: `sync` selects
these only (volumelock.go:225), so that a driver that dies with the rpc lock leaves it active until the same node locks it
again. In `ControllerServer` two requests give each pair of handlers, on one node or on two, on the same volumes: a
retry of a
request that was given up, a deletion under a copy, a delegation; one fault and one crash fall anywhere in them. In
`VolumeRequest` a sector of 4 bytes and a word of 6 bits have the boundaries of 512 and 2^64: origins reach six sectors,
so that a tenth of one is less than a byte, and every word is tried, so that all sums wrap around. In `NodeServer` volumes do not influence each other, so that one
is enough, and two crashes let a driver die while
a call that an earlier crash cut off is retried. Two of its invariants have exceptions, which are how the code is:
`StagedIsUsable` does not hold for raw volumes, whose device nobody may have open when `sync` runs, and
`UnstagedIsReleased` excepts volumes that `sync` failed to deactivate (volumelock.go:239), because the unlock of a volume
without an entry succeeds without doing anything.

What the exceptions in the properties stand for, each found by TLC when it is taken out:

* `CreatedIsUsable`, `PointInTime` and `KeptUntilDeleted` except names that are `spoiled`: a request for them was
  given up,
  its driver died, or its clean-up failed. The volume it leaves is not formatted, or half copied, and the retry takes
  it for
  the one asked for (controllerserver.go:341-358: its size is all that is looked at). An expired context makes this
  likely, because the deferred `LvRemove` is not issued then (controllerserver.go:266). What is copied from such a
  volume is as incomplete as it is, so that an answer for a copy of a spoiled source spoils the copy.
* `HandlerKeepsLease` has the same exception: `DeleteVolume` takes no lock, so that a volume may be deleted while a
  handler has it locked; a request for it that was given up, and still runs, then makes the volume again, and another
  node may activate it.
* `NothingLeftBehind` excepts what a failed command has left. One such failure needs no fault: the source is unlocked
  before the temporary snapshot is removed (the deferred functions run last one first), and if another node locks it in
  between, the snapshot stays, and its origin can not be deleted any more.
* A request that was delegated to the owner, and finds the volume taken by another node again, is delegated once more from
  inside the rpc loop, and waits there for ever (state `stuck`); without an owner tag `GetOwner` answers 0, so that the
  request is delegated to the node's own mailbox.
* `StartKeepsState` excepts drivers that start while another one formats the file: they format it again under the
  messages of the first, or send before its last copy is written. `FormattedIsUsable` and `StartKeepsState` except a death
  between the header and the copies: the file then passes for formatted for ever, its heads point to block 0, and each
  `Recv` reads the header as a message.
* `WaitingIsReceived` excepts boxes that are `Blocked`: when the length prefix exceeds the block, `Recv` reads the whole
  extent again but keeps prefix and padding, so that the message can not be decoded and is not freed
  (mailbox.go:265-279). Its node then takes the rpc lock every second, which may starve the others.
* `SizeIsInRange` says where the sizes are not what one would ask for. The size of a volume is compared with its range if
  a volume group can hold it, which has at most half a word of bytes: for a limit below 511 without required bytes the
  size wraps around and `lvcreate` refuses it; for 511 to 1022 it is 0 (controllerserver.go:177-179). A snapshot is
  never larger than its origin, but gets size 0 when its share is less than a byte (:711) and when its maximum is above
  2^64-512, so that rounding it up wraps around to 0 (:722). A share below 0 and "NaN" pass the test at :708, although its
  message says "expected a value in range (0, 1]"; the product is then no unsigned word, and the model allows whatever
  the processor makes of it. Products are exact in the model, a double keeps 53 bits of them.
* `CapabilitiesAreHonoured` says which lists are accepted, and which volumes are confirmed, exactly. A list is accepted if
  its modes fit and its access types are equal, file system and flags included (`reflect.DeepEqual`,
  controllerserver.go:980), unless it begins with `SINGLE_NODE_SINGLE_WRITER` and has that once more: the table does not
  list this mode as compatible with itself, so that acceptance depends on the order. `CreateVolume` uses the default file
  system whatever a mount names (:154-157), although the flag is for "when none is specified" (cmd/driverd/main.go:31),
  and validation compares the tag with what each capability names (:515): a mount with another file system, or with
  none, is accepted and then not confirmed, and so are modes that only the table knows. The upgrade to a broader mode
  (:976) is never taken with this table.
* `TagsSurviveLvm` excepts bytes below 16: `&%2x` pads with a space (tagencoder.go:29), and lvmctrld refuses the tag.

Symmetry is used for nodes, in runs of invariants and of box-action properties only, never with liveness.
`CHECK_DEADLOCK FALSE` stands where the bounded environment (messages, calls) runs out and everything may be at rest.

Fairness. In `VolumeLock` a method that has begun goes on, a driver that is down is restarted (Kubernetes restarts it),
lvmctrld finishes its commands; clients promise nothing. In `MailBox` the loop calls `Recv` again every second, `Lock`
retries until it succeeds, a method with the lock runs to its end; nobody has to send. In `DiskRpc` the Handle goroutine
proceeds whenever it is not blocked, timers fire, and a caller that waits for the mutex gets it in the end (strong
fairness: Go's mutex hands itself to a waiter that is starved); methods return and the mailbox answers.

## Proofs

`VolumeLockProofs`, for all nodes, volumes, operations, failures and numbers of crashes, from `VolumeLockAssumption` and
`MaxLate = 0` (no command outlives its caller; the theorems are false without it):

* `TypeCorrect`, `Exclusion` (`MutualExclusion`), `HeldVolumes` (`HeldIsActive`), `OwnedWhileHeld` (`OwnerTagWhileHeld`),
  `SingleOwner` (`AtMostOneOwner`), `InUse` (`InUseIsLocked`): invariants of `Spec`;
* `Refinement`: `Spec => ImplementsExclusiveLock`.

The invariants are not inductive: that the owner tag names the holder depends on what a method in progress has already
done. The inductive invariant adds, per node, what each step of a method implies (`Shape`, `Tagging`: after a successful
activation the node has the lease; between `FetchTags` and `Retag` of a node with the lease nobody else changed the tags;
a node that releases holds nothing). It is proved as rely and guarantee: a step of node n preserves n's own part
(one lemma per action) and its effect on the shared leases and tags is one that every other node's part tolerates
(`Guarantee`, `Rely`): a node changes a volume's lease or tags only if it has the lease or nobody has it. The refinement
follows from the same invariant and the fact that a step changes the locks of one node only (`StepsAreOneWay`).

`StateSegmentsProofs`: `TypeCorrect` and `TornWriteProtection`, for copies of any number of parts and any values,
`MaxTorn <= 1`. The inductive invariant says which copies already have the new value, which still have the old one, and
that all three agree after a complete write.

`DiskRpcProofs`, for all nodes, calls, limits, errors and crashes, from `DiskRpcAssumption`: `TypeCorrect`; `Pending`
(`PendingAreWaiting`) and `Bounded` (`QueueBounded`), which are inductive with the types; and `ServedAtMostOnce`
(`AtMostOnce`), which is not: that a method has not run yet says nothing of how many copies of its request are on their
way. The invariant `Placed` says where a request can be: in one queue, one mailbox or one batch at most, once, and nowhere
once it was served, except at the head of the batch of the loop that runs its method. Lemmas on what appending to,
splitting and shortening a queue does to the messages it holds (`HoldsAppend`, `HoldsFront`, `HoldsTail`) carry it through
the actions.

`NodeServerProofs`, for all nodes, volumes, sizes, failures and crashes, from `NodeServerAssumption`: `TypeCorrect`,
`Access` (`SingleNodeAccess`), `Usable` (`StagedIsUsable`), `Targets` (`TargetShowsVolume`), `Released`
(`UnstagedIsReleased`), `Expansion` (`ExpansionIsComplete`). The inductive invariant is a conjunction over nodes and
volumes (`LocalOK`): what each step of a call implies (`CallOK`), that locks, entries of
the locker's map, leases and open devices agree (`LockOK`), that what is mounted and open fits what the orchestrator was
told (`MountOK`), and how the sizes of volume and file system follow each other (`SizeOK`). One lemma per action; a
step of one node changes another's part only through the lease, which it
takes only when nobody has it.

`ControllerServerProofs`, for all nodes, volumes, snapshots and requests, any number of faults and crashes, from
`ControllerServerAssumption` (the names of volumes, snapshots and requests are distinct): `TypeCorrect`,
`CreatedIsAlwaysUsable` (`CreatedIsUsable`), `AlwaysPointInTime` (`PointInTime`), `AlwaysKeptUntilDeleted`
(`KeptUntilDeleted`), `HandlersAlwaysKeepLease` (`HandlerKeepsLease`), `NothingIsLeftBehind` (`NothingLeftBehind`). None of
the properties is inductive: what an answer is worth depends on what the handler has done before it, and that on what
other handlers may do to the same volumes. The inductive invariant `Inv` has five groups of parts:

* requests and what the orchestrator was told: which steps and local variables a handler can have (`CallShape`); one
  request for a name is waited for; a request that runs and is not waited for has a spoiled name; a source was reported
  created at some time, a volume in a clean-up list was not (`SourceTold`, `CleanupTold`);
* logical volumes: what is active exists, and the origin of a snapshot exists (`LeaseExists`, `OriginExists`), temporary
  snapshots are those of the requests that made them (`TemporaryOrigin`);
* locks: an entry in the locker's map belongs to a staging or to a handler that has yet to unlock (`OpsOfCalls`), a handler
  between lock and unlock has its entry (`HeldLocks`), and an entry for a volume that exists means that its lease is here
  (`LockedActive`; this one is what makes the first to finish leave the volume active for the others);
* what is left: a temporary snapshot is on the clean-up list of its request, an active volume has an entry in the map or
  is on the clean-up list of a request on that node, or else a command failed (`TemporaryCleanup`, `LeaseCleanup`);
* what exists and what it holds: a volume that was not reported yet is on the clean-up list of the request that is waited
  for (`UntoldIsMade`), so that no other handler takes it for complete; the answer that a handler is about to give is true
  (`AnswerHolds`); snapshots and sources are complete and of one instant (`SnapshotGood`, `SourceGood`, `TemporaryGood`);
  a half that was copied equals that of the copy's source (`HalfIsCopied`).

Each action is first shown to be of one of a few kinds (it only moves on, takes a lock, activates, removes, takes a
snapshot, makes or fills a volume: `NextKinds`), and each variable to change by few actions only (`NextExists`, `NextLease`,
`NextData`, `NextTold`, ...). Every part of `Inv` then has one lemma on these, instead of one per action.

`MailBoxFileProofs`, about the format, for any number of drivers that start on a file and of changes to it:
`FormattedIsAlwaysUsable` (`FormattedIsUsable`), for any number of deaths, and `StartAlwaysKeepsState` (`StartKeepsState`), for
at most one, which is how far the vote over three copies goes (the theorem is false for two). The first needs that a copy
that is still blank is one that some formatter has yet to write (`BlankIsFormatted`); the second says, for each step of a
write, which copies have the new and which the latest state, and who may write at all (`StartInv`).

And about the allocator, for a file of any size that `SizeAssumption` allows (a power of two that an int32 holds):
`TreeIsAlwaysExact` (`TreeIsExact`) and `TreeImplementsBlockAllocator` (`ImplementsBlockAllocator`). The argument has four parts:

* the geometry of the array: levels, sizes and addresses are powers of two and their multiples (`LevelFacts`,
  `SizeIsPower`, `AddressIs`), the children halve a node's region (`ChildFacts`), and of two regions one is inside the
  other or they are disjoint (`Trichotomy`);
* the recursion: walking down ends (`WalkExists`, `WalkEnds`), and what the way back up writes at every node is defined by
  what it writes at the children (`NegateIs`). A recursive function is shown to be defined from the last node to the
  first, on the greatest node for which it would not be;
* the inductive invariant `Consistent`, which relates each node to its two children only: whole or handed out with two
  whole halves, or broken, with the larger of its halves, which are not both whole. `TreeIsExact` is not inductive: it says
  nothing of the nodes inside an allocated one, which a free relies on. `NegateKeeps` carries `Consistent` through `Alloc`
  and `Free`, and `BelowIsWhole`, `ClearIsWhole` and `NodesAreBest` lead from neighbours to whole subtrees;
* the refinement: aligned blocks are nodes (`BlockIsNode`, `NodeIsBlock`), available ones are vacant nodes
  (`AvailableIs`), the node that alloc finds is the smallest that fits (`TargetFits`) and the lowest of its size, because
  where its way and that to another vacant node part it went left (`TargetIsLowest`); free finds the allocated node that
  begins at an address (`FreeFindsIt`).

`MailBoxProofs`, for all nodes, blocks and messages, any number of crashes and i/o errors, from `MailBoxAssumption` and
`MaxTorn <= 1` (two writes of the state in a row that are cut short defeat the vote over three copies; then the theorems
are false): `AlwaysConsistentView` (`ConsistentView`), `LiveDataAlwaysUntouched` (`LiveDataUntouched`), and `Refinement`
(`ImplementsPostOffice`): a message is put into a box and taken out of it in one step, although the code writes blocks and
copies one after the other and may die between any two. The inductive invariant `Inv` says

* what the segments hold at every moment of a write: the old state, the new one, or both (`Segments`; taken from
  `StateSegmentsProofs`, which is instantiated on the segments of the mailbox). `PartWritten` is the point where a Send or
  Recv takes effect: once the vote finds the new state it keeps finding it;
* that only the node with the rpc lock is between reading the state and unlocking (`Owned`), and what it has in hand at each
  step (`Method`, `Prepared`): what it read is the committed state, what it writes is that state with one block pushed on or
  one list taken off, and the block it fills is free in the committed state;
* that the committed state is well formed: a list per node, from its head to the null pointer, disjoint, which together
  use the allocated blocks and no others, and hold the messages that were sent and not received (`View`, `Filled`).

`ConsistentView` alone is not inductive, since the state that is about to become the current one has to be well formed on
the data blocks before it is written. A list on disk is defined by its result (`IsWalk`: it starts at the head and follows
the pointers until a block that is not allocated or comes again) instead of by recursion. Such a list is unique
(`WalkIsUnique`, by the least index at which two would differ) and no longer than the file (`Pigeonhole`); a write to a
free block leaves it as it is (`ViewFrame`), a Send puts one block in front (`ViewPush`), a Recv drops one list (`ViewPop`).

`RequestProofs`: `ListingIsAlwaysExact` (`ListingIsExact`), for any finite set of names, any filter and pages of any size,
from `VolumeListingAssumption`. The invariant says that what was seen is in order and before the token, that what
matched all along was seen or is not before the token, and that the token is still in the list unless something that
matched is gone. That a finite set can be sorted at all is shown on a smallest one that cannot (`SortedExists`);
`PageIsNext` is the arithmetic of a page. And `SizeIsAlwaysInRange` (`SizeIsInRange`), for sectors, words and
volume groups of any size within `VolumeRequestAssumption` (a group has at most half a word, a word more than four sectors)
and shares in any number of parts: rounding up gives whole sectors, less than one above its argument, or 0 when it wraps
around (`RoundUpWhole`, `RoundUpBounds`, `RoundUpWraps`), a share of an origin is at most the origin (`ShareInRange`), and
the smaller of such sizes is in range again (`SnapshotSizeInRange`). And `CapabilitiesAreAlwaysHonoured`
(`CapabilitiesAreHonoured`), for lists of any length and any file systems: as long as nothing was refused the first
capability stands for all, since what fits it is covered by it (`Fits`, `AggregateFits`), and a list that was refused once
stays so (`ReducedStep`, `ReducedAll`, from the first element that would break it).

And `TagsAlwaysSurviveLvm` (`TagsSurviveLvm`), for any finite set of keys and values of any length over all bytes, from
`VolumeTagsAssumption`: the prefix has at least two bytes, prefix and keys are printable, a key has no "=" and does not
start with a hyphen (tags.go:27-37). Encoder, decoder and splitter are recursive functions of how many bytes they have read,
so that what they compute is proved by the least number of bytes after which it would be wrong (`InductionUpTo`). The
steps: what is written for a prefix of the string stays a prefix of the tag (`EncodedGrows`, `EncodedPrefix`), so the
driver recognises its tags by the encoded prefix; the tag is valid exactly if no byte is escaped with a space
(`EncodedValid`, `ValidIsWritable`); the decoder that starts after the prefix is between two bytes of the value whenever
the encoder was (`RestDecodes`; the hyphen needs care, since the decoder counts positions from the end of the prefix and
the encoder from its start); the first "=" ends the key (`PairParts`); a list of words without commas comes back from the
field they are joined to (`SplitReport`). Nothing of it is about the order of the tags in the report.

Only model-checked: liveness, which is out of the prover's reach.

## Not modelled

* Calls to the node server that overlap an earlier one for the same volume, which its caller has given up. The size that
  `NodeExpandVolume` compares was read some commands before `lvresize -f` sets it (nodeserver.go:414): an overlapping
  expansion to a larger size would be undone.
* The files in a file system. `umountFs` takes an error of the look-up other than `os.ErrNotExist` for "not mounted"
  (filesystem.go:238), and `Unpublish` goes on to remove the path.
* Buffers of a copy: the `bufio.Writer` of `CreateVolume` is never flushed (controllerserver.go:403), which is harmless
  as long as the size is a multiple of its buffer.
* `ControllerExpandVolume`, `GetCapacity`, `ControllerGetCapabilities` and the stats, which read one value; volume
  references, which concatenate and match names.
* Command lines and json reports of lvm in lvmctrld; start-up of the lock daemons, listeners, logging and flags, which
  have no protocol state.
* Messages that cannot be decoded, long ones excepted: both ends are this program.

## Plan

Done: the locker, the mailbox with its file, the disk rpc, the node server, the controller server and what requests say,
with proofs about all of them. Left: overlapping calls to the node server; a composition of `ControllerServer` with
`DiskRpc` in place of its queue of delegated requests.
