------------------------------- MODULE PostOffice -------------------------------
(***************************************************************************)
(* What the disk mailbox promises: sending puts a message into the box of  *)
(* its recipient in one atomic step, and receiving empties the box, the    *)
(* newest message first.  A message is handed over at most once; one that  *)
(* its recipient took out of its box and failed to hand over is lost.      *)
(***************************************************************************)
EXTENDS Sequences

CONSTANTS Node, Message

VARIABLES
    box,        \* box[n]: the messages waiting for n, newest first
    hand,       \* hand[n]: those n has taken out and not handed over yet
    received    \* received[n]: those handed over on n

Init ==
    /\ box = [n \in Node |-> <<>>]
    /\ hand = [n \in Node |-> <<>>]
    /\ received = [n \in Node |-> <<>>]

Post(m) ==
    /\ box' = [box EXCEPT ![m.to] = <<m>> \o @]
    /\ UNCHANGED <<hand, received>>

Collect(n) ==
    /\ hand[n] = <<>>
    /\ box[n] # <<>>
    /\ hand' = [hand EXCEPT ![n] = box[n]]
    /\ box' = [box EXCEPT ![n] = <<>>]
    /\ UNCHANGED received

HandOver(n) ==
    /\ hand[n] # <<>>
    /\ received' = [received EXCEPT ![n] = @ \o hand[n]]
    /\ hand' = [hand EXCEPT ![n] = <<>>]
    /\ UNCHANGED box

Lose(n) ==
    /\ hand[n] # <<>>
    /\ hand' = [hand EXCEPT ![n] = <<>>]
    /\ UNCHANGED <<box, received>>

Next ==
    \/ \E m \in Message : Post(m)
    \/ \E n \in Node : Collect(n) \/ HandOver(n) \/ Lose(n)

Spec == Init /\ [][Next]_<<box, hand, received>>
=============================================================================
