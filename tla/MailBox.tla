--------------------------------- MODULE MailBox ---------------------------------
(***************************************************************************)
(* The disk mailbox (pkg/diskrpc/mailbox.go): the nodes exchange messages  *)
(* through one file on shared storage.  The STATE segments hold, per node, *)
(* the head of its list of messages, and the allocation tree of the data   *)
(* blocks that the messages are stored in.  Every change runs under the    *)
(* rpc lock; a node runs one Send or Recv at a time, from its Handle loop. *)
(*                                                                         *)
(* A block of the model stands for the extent that the allocator hands out *)
(* for one message (BuddyAllocator: the lowest one that is free).  The     *)
(* file is formatted: MailBoxFormat has what NewMailBox does to a blank    *)
(* one.                                                                    *)
(***************************************************************************)
EXTENDS Integers, Sequences, FiniteSetsExt, SequencesExt

CONSTANTS
    Node,       \* the mailbox ids in use
    Local,      \* mailbox id 0: the recipient is the sender's own mailbox
    Blocks,     \* number of data blocks
    Long,       \* {FALSE}, or BOOLEAN to send messages longer than a block too
    None,       \* nobody
    MaxTorn,    \* writes of the state that may be cut short in a row
    MaxCrashes, \* crashes of a driver
    MaxMsgs     \* messages sent in a behaviour

ASSUME MailBoxAssumption ==
    /\ None \notin Node /\ Local \notin Node
    /\ Blocks \in Nat \ {0} /\ MaxMsgs \in Nat
    /\ Long \subseteq BOOLEAN
    /\ MaxTorn \in Nat /\ MaxCrashes \in Nat

VARIABLES
    copies, at, left, buf, torn, committed,     \* the STATE segments
    data,       \* data[a]: the message stored in block a and its Next pointer
    holder,     \* the node that has the rpc lock
    pc,         \* pc[n]: where n's Send or Recv is
    op,         \* op[n]: its arguments and results
    received,   \* received[n]: history: the messages that Recv returned on n
    sent,       \* history: how many Sends there were
    crashes     \* how many crashes so far

seg == <<copies, at, left, buf, torn, committed>>
vars == <<copies, at, left, buf, torn, committed, data, holder, pc, op, received,
          sent, crashes>>

Nil == -1                   \* the null pointer; block 0 is the HEADER
Addr == 1..Blocks

Message == [id : 1..MaxMsgs, from : Node, to : Node, long : BOOLEAN]
NoMessage == [id |-> 0, from |-> None, to |-> None, long |-> FALSE]

Op == [fn : {"none", "Send", "Recv"}, msg : Message \cup {NoMessage},
       addr : Addr \cup {Nil}, batch : Seq(Message)]
NoOp == [fn |-> "none", msg |-> NoMessage, addr |-> Nil, batch |-> <<>>]

Seg == INSTANCE StateSegments WITH
    Part <- {"heads", "tree"},
    Val <- [Node -> Addr \cup {Nil}] \cup SUBSET Addr

State == Seg!ReadState(copies)

Formatted == [heads |-> [n \in Node |-> Nil], tree |-> {}]

Init ==
    /\ Seg!SegInit(Formatted)
    /\ data = [a \in Addr |-> [msg |-> NoMessage, next |-> Nil]]
    /\ holder = None
    /\ pc = [n \in Node |-> "idle"]
    /\ op = [n \in Node |-> NoOp]
    /\ received = [n \in Node |-> <<>>]
    /\ sent = 0
    /\ crashes = 0

-----------------------------------------------------------------------------
Goto(n, step) == pc' = [pc EXCEPT ![n] = step]

Recipient(n, to) == IF to = Local THEN n ELSE to

(* The list that starts at a follows the Next pointers through allocated   *)
(* blocks, through none of them twice: Free refuses a block that is not    *)
(* allocated, so that a list through any other block ends in an error.     *)
IsWalk(list, disk, a, tree) ==
    /\ list # <<>> /\ list[1] = a
    /\ \A i \in 1..(Len(list) - 1) : list[i] \in tree /\ list[i + 1] = disk[list[i]].next
    /\ \A i, j \in 1..(Len(list) - 1) : list[i] = list[j] => i = j
    /\ Last(list) \in tree => \E i \in 1..(Len(list) - 1) : list[i] = Last(list)

Walk(disk, a, tree) ==
    CHOOSE list \in BoundedSeq(Addr \cup {Nil}, Blocks + 1) : IsWalk(list, disk, a, tree)

List(s, n) == Walk(data, s.heads[n], s.tree)

Intact(list) == Last(list) = Nil

Messages(list) == [i \in 1..(Len(list) - 1) |-> data[list[i]].msg]

(* A message longer than a block is read back with its length prefix and   *)
(* its padding, which is no message.                                       *)
Readable(list) == Intact(list) /\ \A i \in DOMAIN Messages(list) : ~Messages(list)[i].long

-----------------------------------------------------------------------------
Send(n, to, long) ==
    /\ pc[n] = "idle"
    /\ sent < MaxMsgs
    /\ sent' = sent + 1
    /\ op' = [op EXCEPT ![n] = [NoOp EXCEPT !.fn = "Send", !.msg =
                [id |-> sent + 1, from |-> n, to |-> Recipient(n, to), long |-> long]]]
    /\ Goto(n, "lock")
    /\ UNCHANGED <<seg, data, holder, received, crashes>>

(* Recv reads the state without the lock first and returns when its list   *)
(* is empty.  In the middle of a write it may read anything.               *)
Peek_Positive(n) == at # 0 \/ State.heads[n] > 1
Peek(n) == at # 0 \/ State.heads[n] # Nil

Recv(n) ==
    /\ pc[n] = "idle"
    /\ Peek(n)
    /\ op' = [op EXCEPT ![n] = [NoOp EXCEPT !.fn = "Recv"]]
    /\ Goto(n, "lock")
    /\ UNCHANGED <<seg, data, holder, received, sent, crashes>>

(* The rpc lock: a node whose driver died still has the volume active and  *)
(* is granted the lock again; the others are not.                          *)
Lock(n) ==
    /\ pc[n] = "lock"
    /\ holder \in {None, n}
    /\ holder' = n
    /\ Goto(n, "locked")
    /\ UNCHANGED <<seg, data, op, received, sent, crashes>>

FreeBlocks_All(tree) == Addr
FreeBlocks(tree) == Addr \ tree

SendAlloc(n) ==
    /\ pc[n] = "locked"
    /\ op[n].fn = "Send"
    /\ IF FreeBlocks(State.tree) = {}
       THEN Goto(n, "unlock") /\ UNCHANGED op
       ELSE /\ op' = [op EXCEPT ![n].addr = Min(FreeBlocks(State.tree))]
            /\ Goto(n, "store")
    /\ UNCHANGED <<seg, data, holder, received, sent, crashes>>

(* The message points to the head of the list and becomes its new head; it *)
(* is stored in a free block before the state is written.                  *)
NextPointer_Nil(n) == Nil
NextPointer(n) == State.heads[op[n].msg.to]

Stored(n) == [data EXCEPT ![op[n].addr] = [msg |-> op[n].msg, next |-> NextPointer(n)]]

SendStore(n) ==
    /\ pc[n] = "store"
    /\ data' = Stored(n)
    /\ Seg!BeginWrite([heads |-> [State.heads EXCEPT ![op[n].msg.to] = op[n].addr],
                       tree |-> State.tree \cup {op[n].addr}])
    /\ Goto(n, "write")
    /\ UNCHANGED <<holder, op, received, sent, crashes>>

SendStoreFailed(n) ==
    /\ pc[n] = "store"
    /\ data' \in {data, Stored(n)}
    /\ Goto(n, "unlock")
    /\ UNCHANGED <<seg, holder, op, received, sent, crashes>>

(* Recv with the lock: read the state again, walk the list, free its       *)
(* blocks and empty the list.                                              *)
Freed_None(list) == {}
Freed(list) == ToSet(Front(list))

RecvWalk(n) ==
    /\ pc[n] = "locked"
    /\ op[n].fn = "Recv"
    /\ LET list == List(State, n)
       IN  IF Readable(list)
           THEN /\ op' = [op EXCEPT ![n].batch = Messages(list)]
                /\ Seg!BeginWrite([heads |-> [State.heads EXCEPT ![n] = Nil],
                                   tree |-> State.tree \ Freed(list)])
                /\ Goto(n, "write")
           ELSE Goto(n, "unlock") /\ UNCHANGED <<seg, op>>
    /\ UNCHANGED <<data, holder, received, sent, crashes>>

WriteState(n) ==
    /\ pc[n] = "write"
    /\ (\E p \in {"heads", "tree"} : Seg!WritePart(p)) \/ Seg!NextCopy
    /\ UNCHANGED <<data, holder, pc, op, received, sent, crashes>>

WriteDone(n) ==
    /\ pc[n] = "write"
    /\ Seg!EndWrite
    /\ Goto(n, "unlock")
    /\ UNCHANGED <<data, holder, op, received, sent, crashes>>

(* An i/o error: the method returns it, and no messages. *)
WriteFailed(n) ==
    /\ pc[n] = "write"
    /\ Seg!Interrupt
    /\ op' = [op EXCEPT ![n].batch = <<>>]
    /\ Goto(n, "unlock")
    /\ UNCHANGED <<data, holder, received, sent, crashes>>

Unlock(n) ==
    /\ pc[n] = "unlock"
    /\ holder' = None
    /\ received' = [received EXCEPT ![n] = @ \o op[n].batch]
    /\ op' = [op EXCEPT ![n] = NoOp]
    /\ Goto(n, "idle")
    /\ UNCHANGED <<seg, data, sent, crashes>>

(* The driver, or with it the host and its lease, dies and is restarted. *)
Crash(n) ==
    /\ crashes < MaxCrashes
    /\ crashes' = crashes + 1
    /\ IF pc[n] = "write" THEN Seg!Interrupt ELSE UNCHANGED seg
    /\ holder' \in {holder, IF holder = n THEN None ELSE holder}
    /\ op' = [op EXCEPT ![n] = NoOp]
    /\ Goto(n, "idle")
    /\ data' \in IF pc[n] = "store" THEN {data, Stored(n)} ELSE {data}
    /\ UNCHANGED <<received, sent>>

Proceed(n) ==
    \/ SendAlloc(n) \/ SendStore(n) \/ RecvWalk(n) \/ WriteState(n) \/ WriteDone(n)
    \/ Unlock(n)

Next ==
    \E n \in Node :
        \/ \E to \in Node \cup {Local}, long \in Long : Send(n, to, long)
        \/ Recv(n) \/ Lock(n) \/ Proceed(n) \/ SendStoreFailed(n) \/ WriteFailed(n) \/ Crash(n)

Spec == Init /\ [][Next]_vars

(* The Handle loop calls Recv every second, Lock retries until the lock is *)
(* granted, and a method that has the lock runs to its end.                *)
Fairness ==
    \A n \in Node : WF_vars(Recv(n)) /\ WF_vars(Lock(n)) /\ WF_vars(Proceed(n))

FairSpec == Spec /\ Fairness

-----------------------------------------------------------------------------
(* The state that counts: the one on disk, or, in the middle of a write,   *)
(* the old one until the new one can be read back.                         *)
Current == IF at = 0 THEN State
           ELSE IF State = buf THEN buf ELSE committed

Chain(list) == ToSet(Front(list))

(* "The previous active STATE will still have a consistent view of data"   *)
(* (mailbox.go:112-115): whatever was cut short, the lists on disk are     *)
(* intact and disjoint and the tree has allocated exactly their blocks, so *)
(* no message is cut off and no block leaks (mailbox.go:185-216, 259-296). *)
ConsistentView ==
    /\ \A n \in Node : Intact(List(Current, n))
    /\ \A m, n \in Node :
          m # n => Chain(List(Current, m)) \cap Chain(List(Current, n)) = {}
    /\ Current.tree = UNION {Chain(List(Current, n)) : n \in Node}

(* "Each transaction can only use free space from the DATA segment"        *)
(* (mailbox.go:112-113): a block that the state refers to is not written.  *)
LiveDataUntouched ==
    [][\A a \in Addr : data'[a] # data[a] => a \notin Current.tree]_vars

InHand(n) ==
    IF op[n].fn = "Recv" /\ (pc[n] = "unlock" \/ (pc[n] = "write" /\ State = buf))
    THEN op[n].batch ELSE <<>>

Abstract == INSTANCE PostOffice WITH
    box <- [n \in Node |-> Messages(List(Current, n))],
    hand <- [n \in Node |-> InHand(n)]

(* Refinement: seen through the state that counts, Send and Recv are       *)
(* atomic through every torn write and crash, and hand every message over  *)
(* at most once (mailbox.go:150-298, 374-404).                             *)
ImplementsPostOffice == Abstract!Spec

Waiting(i) == \E n \in Node :
    LET box == Messages(List(Current, n)) IN \E k \in DOMAIN box : box[k].id = i

Arrived(i) == \E n \in Node : \E k \in DOMAIN received[n] : received[n][k].id = i

(* A box holds a message longer than a block, which Recv cannot read back. *)
Blocked == \E n \in Node : ~Readable(List(Current, n))

(* "Receive messages from the mail box." (mailbox.go:65): a message that   *)
(* waits in a box is received in the end, also when the file runs full,    *)
(* unless a box, its own or another one, is blocked for good by a message  *)
(* longer than a block: the node of that box then takes the rpc lock every *)
(* second, which may keep the others from it (mailbox.go:219-298).         *)
WaitingIsReceived == \A i \in 1..MaxMsgs : Waiting(i) ~> (Arrived(i) \/ Blocked)
=============================================================================
