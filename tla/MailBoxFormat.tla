------------------------------ MODULE MailBoxFormat ------------------------------
(***************************************************************************)
(* The start of a driver on the mailbox file (NewMailBox, readHeader and   *)
(* format of pkg/diskrpc/mailbox.go): whoever finds a blank HEADER formats *)
(* the file, first the HEADER, then the three copies of the STATE, and     *)
(* does not hold the rpc lock while it reads and writes them.  Drivers     *)
(* that have started change the state under the lock, as Send and Recv do. *)
(*                                                                         *)
(* A state is a number: 0 the blank one, with which a Send finds nothing   *)
(* free and a Recv no message that it can read, 1 the one that format      *)
(* writes, and one more after each Send or Recv.  A copy is written at     *)
(* once; StateSegments has the writes that are cut short inside a copy.    *)
(***************************************************************************)
EXTENDS StateSegments

CONSTANTS
    Driver,     \* the nodes whose driver starts
    Nobody,     \* no driver
    MaxChanges, \* Sends and Recvs that change the state
    MaxDeaths   \* deaths of a driver

ASSUME FormatAssumption ==
    Nobody \notin Driver /\ MaxChanges \in Nat /\ MaxDeaths \in Nat

VARIABLES
    header,     \* "blank" or "magic"
    segments,   \* segments[i]: the copy STATE[i-1]
    step,       \* step[d]: where d is
    next,       \* next[d]: the copy that it writes next
    work,       \* work[d]: what it writes there
    rpcLock,    \* who has the rpc lock
    deaths,
    latest,     \* history: the state after the last complete write
    overlapped, \* history: a driver started while another one formatted
    cutShort    \* history: a driver died after the header and before the state

formatVars == <<header, segments, step, next, work, rpcLock, deaths, latest,
                overlapped, cutShort>>

FormatInit ==
    /\ header = "blank"
    /\ segments = [i \in 1..3 |-> 0]
    /\ step = [d \in Driver |-> "down"]
    /\ next = [d \in Driver |-> 0]
    /\ work = [d \in Driver |-> 0]
    /\ rpcLock = Nobody
    /\ deaths = 0
    /\ latest = 0
    /\ overlapped = FALSE
    /\ cutShort = FALSE

-----------------------------------------------------------------------------
Formats(d) == step[d] = "format" \/ (step[d] = "write" /\ work[d] = 1)

(* NewMailBox: the first look at the header, which decides. *)
MustFormat_Always == TRUE
MustFormat == header = "blank"

StartDriver(d) ==
    /\ step[d] = "down"
    /\ step' = [step EXCEPT ![d] = IF MustFormat THEN "format" ELSE "up"]
    /\ overlapped' = (overlapped \/ \E e \in Driver : Formats(e))
    /\ UNCHANGED <<header, segments, next, work, rpcLock, deaths, latest, cutShort>>

(* writeState begins, with the first copy. *)
BeginCopies(d, state) ==
    /\ step' = [step EXCEPT ![d] = "write"]
    /\ next' = [next EXCEPT ![d] = 1]
    /\ work' = [work EXCEPT ![d] = state]

AtRest(d, where) ==
    /\ step' = [step EXCEPT ![d] = where]
    /\ next' = [next EXCEPT ![d] = 0]
    /\ work' = [work EXCEPT ![d] = 0]

(* format: the header is first, and tells everyone else that the file is   *)
(* formatted.                                                              *)
FormatHeader(d) ==
    /\ step[d] = "format"
    /\ header' = "magic"
    /\ BeginCopies(d, 1)
    /\ UNCHANGED <<segments, rpcLock, deaths, latest, overlapped, cutShort>>

(* writeState, for format and for a change; after it, format's header is   *)
(* read again, and a change gives the lock back.                           *)
Copies_One == 1..1
Copies == 1..3

WriteCopy(d) ==
    /\ step[d] = "write"
    /\ segments' = [i \in 1..3 |-> IF i = next[d] /\ i \in Copies THEN work[d]
                                   ELSE segments[i]]
    /\ IF next[d] < 3
       THEN /\ next' = [next EXCEPT ![d] = @ + 1]
            /\ UNCHANGED <<step, work, rpcLock, latest>>
       ELSE /\ AtRest(d, "up")
            /\ rpcLock' = IF rpcLock = d THEN Nobody ELSE rpcLock
            /\ latest' = work[d]
    /\ UNCHANGED <<header, deaths, overlapped, cutShort>>

(* Send or Recv: with the lock the state is read and written back; in the  *)
(* blank state both return an error.                                       *)
Change(d) ==
    /\ step[d] = "up"
    /\ rpcLock \in {Nobody, d}
    /\ ReadState(segments) \in 1..MaxChanges
    /\ rpcLock' = d
    /\ BeginCopies(d, ReadState(segments) + 1)
    /\ UNCHANGED <<header, segments, deaths, latest, overlapped, cutShort>>

(* The driver dies; the rpc lock is its node's until the driver takes it   *)
(* again.  A change that was cut short took place, or it did not.          *)
Die(d) ==
    /\ step[d] # "down"
    /\ deaths < MaxDeaths
    /\ deaths' = deaths + 1
    /\ AtRest(d, "down")
    /\ cutShort' = (cutShort \/ (step[d] = "write" /\ Formats(d)))
    /\ latest' = IF step[d] = "write" /\ ReadState(segments) = work[d] THEN work[d] ELSE latest
    /\ UNCHANGED <<header, segments, rpcLock, overlapped>>

FormatNext ==
    \E d \in Driver :
        StartDriver(d) \/ FormatHeader(d) \/ WriteCopy(d) \/ Change(d) \/ Die(d)

FormatSpec == FormatInit /\ [][FormatNext]_formatVars

-----------------------------------------------------------------------------
Quiet == \A d \in Driver : step[d] \in {"down", "up"}

(* A file whose header says that it is formatted can be used, in whatever  *)
(* order drivers start on the blank file and write over each other, unless *)
(* a driver died in the middle of its format: then the state is blank, the *)
(* header is not, and nobody formats the file again                        *)
(* (mailbox.go:328-348, 433-475).                                          *)
FormattedIsUsable ==
    Quiet /\ header = "magic" /\ ~cutShort => ReadState(segments) # 0

(* What Send and Recv have written is not lost to the start of a driver: a *)
(* file is formatted once, also when a driver died before it had begun.    *)
(* Drivers that start while another one formats are the exception: they    *)
(* format the file again under the first one's messages, or send before it *)
(* has written its last copy (mailbox.go:123-144, 340-344).                *)
StartKeepsState ==
    Quiet /\ ~cutShort /\ ~overlapped => ReadState(segments) = latest
=============================================================================
