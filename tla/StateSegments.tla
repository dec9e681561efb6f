----------------------------- MODULE StateSegments -----------------------------
(***************************************************************************)
(* The STATE segments of the mailbox file (pkg/diskrpc/mailbox.go): three  *)
(* copies of one value, written one after the other and read back with a   *)
(* vote, "a simple protection against torn writes".                        *)
(*                                                                         *)
(* A copy spans several disk blocks, its parts.  A write that is cut short *)
(* by a crash or an i/o error leaves any of the parts of the copy being    *)
(* written in place.  All writers run under the rpc lock, so one write is  *)
(* under way at a time.                                                    *)
(***************************************************************************)
EXTENDS Naturals

CONSTANTS
    Part,       \* the blocks of a copy
    MaxTorn     \* writes that may be cut short between two complete ones

ASSUME SegmentsAssumption == MaxTorn \in Nat

VARIABLES
    copies,     \* copies[i][p]: part p of STATE[i-1] on disk
    at,         \* the copy being written, 0 when no write is under way
    left,       \* the parts of that copy still to be written
    buf,        \* the value being written
    torn,       \* writes cut short since the last complete one
    committed   \* history: the value of the last write that took place

segVars == <<copies, at, left, buf, torn, committed>>

(* Two equal first copies are the state; otherwise a write of one of them  *)
(* was cut short and the third still is.                                   *)
ReadState_First(c) == c[1]
ReadState(c) == IF c[1] = c[2] THEN c[1] ELSE c[3]

SegInit(v) ==
    /\ copies = [i \in 1..3 |-> v]
    /\ at = 0
    /\ left = {}
    /\ buf = v
    /\ torn = 0
    /\ committed = v

(* writeState: the copies are written in order, each part by part. *)
BeginWrite(v) ==
    /\ at = 0
    /\ at' = 1
    /\ left' = Part
    /\ buf' = v
    /\ UNCHANGED <<copies, torn, committed>>

WritePart(p) ==
    /\ at # 0
    /\ p \in left
    /\ copies' = [copies EXCEPT ![at] = [@ EXCEPT ![p] = buf[p]]]
    /\ left' = left \ {p}
    /\ UNCHANGED <<at, buf, torn, committed>>

NextCopy_Again ==
    /\ at \in 1..3
    /\ left = {}
    /\ at' = at + 1
    /\ left' = Part
    /\ UNCHANGED <<copies, buf, torn, committed>>

NextCopy ==
    /\ at \in 1..2
    /\ left = {}
    /\ at' = at + 1
    /\ left' = Part
    /\ UNCHANGED <<copies, buf, torn, committed>>

EndWrite ==
    /\ at = 3
    /\ left = {}
    /\ at' = 0
    /\ torn' = 0
    /\ committed' = buf
    /\ UNCHANGED <<copies, left, buf>>

(* The write is cut short.  It is meant to have taken place, or not at all. *)
Interrupt ==
    /\ at # 0
    /\ torn < MaxTorn
    /\ at' = 0
    /\ left' = {}
    /\ torn' = torn + 1
    /\ committed' = IF ReadState(copies) = buf THEN buf ELSE committed
    /\ UNCHANGED <<copies, buf>>

-----------------------------------------------------------------------------
CONSTANT Val    \* what a part may hold

State == [Part -> Val]

Init == \E v \in State : SegInit(v)

Next ==
    \/ \E v \in State : BeginWrite(v)
    \/ \E p \in Part : WritePart(p)
    \/ NextCopy
    \/ EndWrite
    \/ Interrupt

Spec == Init /\ [][Next]_segVars

(* The shape of the segments (mailbox.go:78-103). *)
TypeOK ==
    /\ copies \in [1..3 -> State]
    /\ at \in 0..3
    /\ left \subseteq Part
    /\ buf \in State
    /\ torn \in 0..MaxTorn
    /\ committed \in State

(* "In case of ungraceful STATE flush, the previous active STATE will      *)
(* still have a consistent view of data" (mailbox.go:112-115): whenever no *)
(* write is under way, a reader finds the last write that took place, and  *)
(* an interrupted one took place entirely or not at all.                   *)
Transactional == at = 0 => ReadState(copies) = committed
=============================================================================
