-------------------------- MODULE StateSegmentsProofs --------------------------
(***************************************************************************)
(* Proofs about StateSegments, for copies of any number of parts and any   *)
(* values: the three copies protect against a torn write as long as no two *)
(* writes in a row are cut short.                                          *)
(***************************************************************************)
EXTENDS StateSegments, TLAPS

(* What has been written of the value under way, and, unless the write     *)
(* before it was cut short too, what is left of the value before it.       *)
Written ==
    at # 0 =>
        /\ \A i \in 1..3 : i < at => copies[i] = buf
        /\ \A p \in Part : p \notin left => copies[at][p] = buf[p]

Unwritten ==
    at # 0 /\ torn = 0 =>
        /\ \A i \in 1..3 : i > at => copies[i] = committed

Clean == at = 0 /\ torn = 0 => \A i \in 1..3 : copies[i] = committed

(* At every point of a write that follows a complete one, a reader that    *)
(* comes after a crash at this point would find the old or the new value.  *)
VoteOldOrNew ==
    at # 0 /\ torn = 0 => ReadState(copies) \in {committed, buf}

SegInv == TypeOK /\ Written /\ Unwritten /\ Clean /\ Transactional

(* The initial state satisfies the inductive invariant. *)
LEMMA InitSegInv == Init => SegInv
<1> SUFFICES ASSUME NEW v \in State, SegInit(v) PROVE SegInv
    BY DEF Init
<1> USE SegmentsAssumption DEF SegInit
<1>1. TypeOK
    BY DEF TypeOK
<1> QED
    BY <1>1 DEF SegInv, Written, Unwritten, Clean, Transactional, ReadState

(* Until a write that follows a complete one ends, the vote finds the old  *)
(* or the new value.                                                       *)
LEMMA VoteIsAtomic == SegInv => VoteOldOrNew
<1> SUFFICES ASSUME SegInv, at # 0, torn = 0
             PROVE  ReadState(copies) \in {committed, buf}
    BY DEF VoteOldOrNew
<1>1. at \in 1..3
    BY DEF SegInv, TypeOK
<1>2. CASE at = 1
    BY <1>2 DEF SegInv, Unwritten, ReadState
<1>3. CASE at = 2
    BY <1>3 DEF SegInv, Written, Unwritten, ReadState
<1>4. CASE at = 3
    BY <1>4 DEF SegInv, Written, ReadState
<1> QED
    BY <1>1, <1>2, <1>3, <1>4

(* Every step of a write, and its interruption, preserves it.              *)
LEMMA NextSegInv == ASSUME MaxTorn <= 1, SegInv, [Next]_segVars PROVE SegInv'
<1> USE SegmentsAssumption
<1>0. TypeOK /\ Written /\ Unwritten /\ Clean /\ Transactional
    BY DEF SegInv
<1>1. ASSUME NEW v \in State, BeginWrite(v) PROVE SegInv'
  <2>1. TypeOK'
      BY <1>0, <1>1 DEF TypeOK, BeginWrite
  <2>2. (Written /\ Unwritten /\ Clean /\ Transactional)'
      BY <1>0, <1>1 DEF BeginWrite, TypeOK, Written, Unwritten, Clean, Transactional
  <2> QED
      BY <2>1, <2>2 DEF SegInv
<1>2. ASSUME NEW p \in Part, WritePart(p) PROVE SegInv'
  <2>1. /\ at \in 1..3 /\ at' = at /\ buf' = buf /\ torn' = torn /\ committed' = committed
        /\ left' = left \ {p}
      BY <1>0, <1>2 DEF WritePart, TypeOK
  <2>2. copies' \in [1..3 -> State]
      BY <1>0, <1>2, <2>1 DEF WritePart, TypeOK, State
  <2>3. TypeOK'
      BY <1>0, <2>1, <2>2 DEF TypeOK
  <2>4. \A i \in 1..3 : i # at => copies'[i] = copies[i]
      BY <1>0, <1>2, <2>1 DEF WritePart, TypeOK
  <2>5. \A q \in Part : copies'[at][q] = IF q = p THEN buf[p] ELSE copies[at][q]
      BY <1>0, <1>2, <2>1 DEF WritePart, TypeOK, State
  <2>6. Written'
      BY <1>0, <2>1, <2>4, <2>5 DEF Written
  <2>7. Unwritten'
      BY <1>0, <2>1, <2>4 DEF Unwritten
  <2> QED
      BY <2>1, <2>3, <2>6, <2>7 DEF SegInv, Clean, Transactional
<1>3. ASSUME NextCopy PROVE SegInv'
  <2>1. TypeOK'
      BY <1>0, <1>3 DEF TypeOK, NextCopy
  <2>2. copies[at] = buf
      BY <1>0, <1>3 DEF NextCopy, TypeOK, State, Written
  <2>3. (Written /\ Unwritten)'
      BY <1>0, <1>3, <2>2 DEF NextCopy, TypeOK, Written, Unwritten
  <2> QED
      BY <1>3, <2>1, <2>3 DEF SegInv, NextCopy, Clean, Transactional
<1>4. ASSUME EndWrite PROVE SegInv'
  <2>1. TypeOK'
      BY <1>0, <1>4 DEF TypeOK, EndWrite
  <2>2. \A i \in 1..3 : copies[i] = buf
      BY <1>0, <1>4 DEF EndWrite, TypeOK, State, Written
  <2> QED
      BY <1>4, <2>1, <2>2 DEF SegInv, EndWrite, Written, Unwritten, Clean, Transactional,
         ReadState
<1>5. ASSUME Interrupt PROVE SegInv'
  <2>1. TypeOK'
      BY <1>0, <1>5 DEF TypeOK, Interrupt
  <2>2. torn = 0 /\ torn' = 1 /\ at # 0 /\ at' = 0
      BY <1>0, <1>5 DEF TypeOK, Interrupt
  <2>3. ReadState(copies) \in {committed, buf}
      BY <2>2, VoteIsAtomic DEF VoteOldOrNew
  <2> QED
      BY <1>5, <2>1, <2>2, <2>3 DEF SegInv, Interrupt, Written, Unwritten, Clean,
         Transactional, ReadState
<1>6. ASSUME UNCHANGED segVars PROVE SegInv'
    BY <1>0, <1>6 DEF SegInv, segVars, TypeOK, Written, Unwritten, Clean, Transactional,
       ReadState
<1> QED
    BY <1>1, <1>2, <1>3, <1>4, <1>5, <1>6 DEF Next

(* The segments keep their shape through torn writes (mailbox.go:374-404). *)
THEOREM TypeCorrect == ASSUME MaxTorn <= 1 PROVE Spec => []TypeOK
<1>1. SegInv /\ [Next]_segVars => SegInv'
    BY NextSegInv
<1>2. SegInv => TypeOK
    BY DEF SegInv
<1> QED
    BY <1>1, <1>2, InitSegInv, PTL DEF Spec

(* A write cut short by a crash or an i/o error took place or did not, and *)
(* readState finds out which (mailbox.go:374-404), as long as no second    *)
(* write is cut short before one completes.                                *)
THEOREM TornWriteProtection ==
    ASSUME MaxTorn <= 1 PROVE Spec => []Transactional
<1>1. SegInv /\ [Next]_segVars => SegInv'
    BY NextSegInv
<1>2. SegInv => Transactional
    BY DEF SegInv
<1> QED
    BY <1>1, <1>2, InitSegInv, PTL DEF Spec
=============================================================================
