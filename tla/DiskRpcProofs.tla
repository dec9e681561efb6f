------------------------------ MODULE DiskRpcProofs ------------------------------
(***************************************************************************)
(* Proofs that the safety invariants of DiskRpc hold for any number of     *)
(* nodes, calls, errors and crashes, and any limits of the queue.          *)
(***************************************************************************)
EXTENDS DiskRpc, TLAPS

(* The messages have their types. *)
LEMMA MessageType ==
    ASSUME NEW type \in {"request", "response"}, NEW c \in Call, NEW n \in Node,
           NEW to \in Node \cup {Local}
    PROVE  [type |-> type, id |-> c, from |-> n, to |-> to] \in Message
BY DEF Message

LEMMA QueueType ==
    ASSUME NEW q \in Seq(Message)
    PROVE  /\ \A m \in Message : Append(q, m) \in Seq(Message) /\ <<m>> \o q \in Seq(Message)
           /\ q # <<>> => Head(q) \in Message /\ Tail(q) \in Seq(Message)
<1>1. ASSUME NEW m \in Message PROVE Append(q, m) \in Seq(Message)
  OBVIOUS
<1>2. ASSUME NEW m \in Message PROVE <<m>> \o q \in Seq(Message)
  OBVIOUS
<1>3. ASSUME q # <<>> PROVE Head(q) \in Message /\ Tail(q) \in Seq(Message)
  BY <1>3
<1> QED
  BY <1>1, <1>2, <1>3

(* What Invoke and Delegate have in common. *)
LEMMA ScheduleType ==
    ASSUME TypeOK, NEW n \in Node, NEW c \in Call, NEW to \in Node \cup {Local},
           NEW deadline \in BOOLEAN, Schedule(n, c, to, deadline)
    PROVE  /\ call' \in [Call -> [from : Node \cup {Local}, to : Node \cup {Local},
                                  deadline : BOOLEAN]]
           /\ pc' \in [Call -> {"new", "select", "leave", "returned"}]
           /\ result' \in [Call -> {"none", "response", "timeout", "exhausted", "crashed"}]
           /\ pending' \in [Node -> SUBSET Call]
           /\ outgoing' \in [Node -> Seq(Message)]
<1>1. call' \in [Call -> [from : Node \cup {Local}, to : Node \cup {Local}, deadline : BOOLEAN]]
  BY DEF Schedule, TypeOK
<1>2. call'[c].to = to
  BY DEF Schedule, TypeOK
<1>3. Request(n, c) \in Message
  BY <1>2, MessageType DEF Request
<1>4. outgoing' \in [Node -> Seq(Message)]
  <2>1. Append(outgoing[n], Request(n, c)) \in Seq(Message)
    BY <1>3, QueueType DEF TypeOK
  <2>2. UNCHANGED outgoing \/ outgoing' = [outgoing EXCEPT ![n] = Append(@, Request(n, c))]
    BY DEF Schedule
  <2> QED
    BY <2>1, <2>2 DEF TypeOK
<1>5. pending' \in [Node -> SUBSET Call]
  <2>1. UNCHANGED pending \/ pending' = [pending EXCEPT ![n] = pending[n] \cup {c}]
    BY DEF Schedule, Registered
  <2>2. CASE UNCHANGED pending
    BY <2>2 DEF TypeOK
  <2>3. CASE pending' = [pending EXCEPT ![n] = pending[n] \cup {c}]
    BY <2>3 DEF TypeOK
  <2> QED
    BY <2>1, <2>2, <2>3
<1>6. /\ pc' \in [Call -> {"new", "select", "leave", "returned"}]
      /\ result' \in [Call -> {"none", "response", "timeout", "exhausted", "crashed"}]
  BY DEF Schedule, TypeOK
<1> QED
  BY <1>1, <1>4, <1>5, <1>6

(* Posting the first queued message. *)
LEMMA PostedType ==
    ASSUME TypeOK, NEW n \in Node, outgoing[n] # <<>>
    PROVE  Posted(n) \in [Node -> Seq(Message)] /\ Tail(outgoing[n]) \in Seq(Message)
<1> DEFINE m == Head(outgoing[n])
<1>1. m \in Message /\ Tail(outgoing[n]) \in Seq(Message)
  BY QueueType DEF TypeOK
<1>2. Recipient(n, m.to) \in Node
  BY <1>1 DEF Recipient, Message
<1>3. <<m>> \o box[Recipient(n, m.to)] \in Seq(Message)
  BY <1>1, <1>2, QueueType DEF TypeOK
<1> QED
  BY <1>1, <1>2, <1>3 DEF Posted, TypeOK

(* A method runs for the first message of the batch. *)
TypeInv == TypeOK /\ \A n \in Node : loop[n] = "method" => batch[n] # <<>>

LEMMA InitType == Init => TypeInv
  BY DiskRpcAssumption DEF Init, TypeInv, TypeOK, NoCall

LEMMA NextType == TypeInv /\ [Next]_vars => TypeInv'
<1> SUFFICES ASSUME TypeInv, [Next]_vars PROVE TypeInv'
  OBVIOUS
<1> USE DEF calls, counters
<1> TypeOK
  BY DEF TypeInv
<1>1. CASE UNCHANGED vars
  BY <1>1 DEF vars, TypeInv, TypeOK
<1>2. ASSUME NEW n \in Node, NEW c \in Call, NEW to \in Node \cup {Local},
             NEW deadline \in Deadline, Invoke(n, c, to, deadline)
      PROVE  TypeInv'
  BY <1>2, ScheduleType, DiskRpcAssumption DEF Invoke, TypeInv, TypeOK
<1>3. ASSUME NEW n \in Node, NEW c \in Call, NEW to \in Node \cup {Local}, Delegate(n, c, to)
      PROVE  TypeInv'
  BY <1>3, ScheduleType DEF Delegate, TypeInv, TypeOK
<1>4. ASSUME NEW c \in Call, Timeout(c) PROVE TypeInv'
  BY <1>4 DEF Timeout, TypeInv, TypeOK
<1>5. ASSUME NEW c \in Call, Return(c) PROVE TypeInv'
  BY <1>5 DEF Return, Unregistered, TypeInv, TypeOK
<1>6. ASSUME NEW n \in Node, HandleStep(n) PROVE TypeInv'
  <2>1. CASE HandleRecv(n)
    BY <2>1 DEF HandleRecv, Goto, TypeInv, TypeOK
  <2>2. CASE HandleResponse(n)
    <3>1. Head(batch[n]).id \in Call /\ Tail(batch[n]) \in Seq(Message)
      BY <2>2, QueueType DEF HandleResponse, NextIs, TypeOK, Message
    <3>2. pending' \in [Node -> SUBSET Call] /\ cur' \in [Node -> Call \cup {None}]
      <4>1. CASE UNCHANGED <<pending, cur>>
        BY <4>1 DEF TypeOK
      <4>2. CASE /\ pending' = [pending EXCEPT ![n] = @ \ {Head(batch[n]).id}]
                 /\ cur' = [cur EXCEPT ![n] = Head(batch[n]).id]
        BY <3>1, <4>2 DEF TypeOK
      <4> QED
        BY <2>2, <4>1, <4>2 DEF HandleResponse
    <3>3. batch' \in [Node -> Seq(Message)] /\ \A m \in Node \ {n} : batch'[m] = batch[m]
      BY <2>2, <3>1 DEF HandleResponse, TypeOK
    <3>4. /\ loop' \in [Node -> {"recv", "handle", "deliver", "method", "flush"}]
          /\ loop'[n] # "method" /\ \A m \in Node \ {n} : loop'[m] = loop[m]
      BY <2>2 DEF HandleResponse, NextIs, Goto, TypeOK
    <3> QED
      BY <2>2, <3>2, <3>3, <3>4 DEF HandleResponse, TypeInv, TypeOK
  <2>3. CASE Deliver(n)
    BY <2>3 DEF Deliver, Goto, TypeInv, TypeOK
  <2>4. CASE HandleRequest(n)
    <3>1. Head(batch[n]).id \in Call
      BY <2>4, QueueType DEF HandleRequest, NextIs, TypeOK, Message
    <3> QED
      BY <2>4, <3>1 DEF HandleRequest, NextIs, Goto, TypeInv, TypeOK
  <2>5. CASE HandleRequestDone(n)
    <3>1. Head(batch[n]) \in Message /\ Tail(batch[n]) \in Seq(Message)
      BY <2>5, QueueType DEF HandleRequestDone, TypeInv, TypeOK
    <3>2. Response(n, Head(batch[n])) \in Message
      BY <3>1, MessageType DEF Response, Message
    <3>3. Append(outgoing[n], Response(n, Head(batch[n]))) \in Seq(Message)
      BY <3>2, QueueType DEF TypeOK
    <3>4. outgoing' \in [Node -> Seq(Message)]
      BY <2>5, <3>3 DEF HandleRequestDone, TypeOK
    <3> QED
      BY <2>5, <3>1, <3>4 DEF HandleRequestDone, Goto, TypeInv, TypeOK
  <2>6. CASE HandleBatchDone(n)
    BY <2>6 DEF HandleBatchDone, Goto, TypeInv, TypeOK
  <2>7. CASE FlushSend(n)
    <3>1. Posted(n) \in [Node -> Seq(Message)] /\ Tail(outgoing[n]) \in Seq(Message)
      BY <2>7, PostedType DEF FlushSend
    <3> QED
      BY <2>7, <3>1 DEF FlushSend, TypeInv, TypeOK
  <2>8. CASE FlushDone(n)
    BY <2>8 DEF FlushDone, Goto, TypeInv, TypeOK
  <2> QED
    BY <1>6, <2>1, <2>2, <2>3, <2>4, <2>5, <2>6, <2>7, <2>8 DEF HandleStep
<1>7. ASSUME NEW n \in Node, HandleRecvFailed(n) PROVE TypeInv'
  <2>1. box' \in [Node -> Seq(Message)]
    <3>1. UNCHANGED box \/ box' = [box EXCEPT ![n] = <<>>]
      BY <1>7 DEF HandleRecvFailed
    <3>2. <<>> \in Seq(Message)
      OBVIOUS
    <3> QED
      BY <3>1, <3>2 DEF TypeOK
  <2>2. errors' \in 0..MaxErrors
    BY <1>7, DiskRpcAssumption DEF HandleRecvFailed, TypeOK
  <2> QED
    BY <1>7, <2>1, <2>2 DEF HandleRecvFailed, TypeInv, TypeOK
<1>8. ASSUME NEW n \in Node, FlushSendFailed(n) PROVE TypeInv'
  <2>1. Posted(n) \in [Node -> Seq(Message)] /\ Tail(outgoing[n]) \in Seq(Message)
    BY <1>8, PostedType DEF FlushSendFailed
  <2>2. errors' \in 0..MaxErrors
    BY <1>8, DiskRpcAssumption DEF FlushSendFailed, TypeOK
  <2>3. box' \in [Node -> Seq(Message)] /\ outgoing' \in [Node -> Seq(Message)]
    BY <1>8, <2>1 DEF FlushSendFailed, AfterFailure, TypeOK
  <2> QED
    BY <1>8, <2>2, <2>3 DEF FlushSendFailed, TypeInv, TypeOK
<1>9. ASSUME NEW n \in Node, Crash(n) PROVE TypeInv'
  BY <1>9, DiskRpcAssumption DEF Crash, Goto, TypeInv, TypeOK
<1> QED
  BY <1>1, <1>2, <1>3, <1>4, <1>5, <1>6, <1>7, <1>8, <1>9 DEF Next

LEMMA Typed == Spec => []TypeInv
  BY InitType, NextType, PTL DEF Spec

(* The calls, queues and loops have their types in every reachable state   *)
(* (diskrpc.go:51-63, 176-216).                                            *)
THEOREM TypeCorrect == Spec => []TypeOK
<1>1. TypeInv => TypeOK
  BY DEF TypeInv
<1> QED
  BY <1>1, Typed, PTL

-----------------------------------------------------------------------------
(* PendingAreWaiting, for one node and one call. *)
WaitOK(n, c) ==
    /\ c \in pending[n] => call[c].from = n /\ pc[c] \in {"select", "leave"}
    /\ (pc[c] = "select" /\ call[c].from = n /\ c \notin pending[n])
          => loop[n] = "deliver" /\ cur[n] = c

LEMMA ScheduleWait ==
    ASSUME TypeOK, PendingAreWaiting, NEW n \in Node, NEW c \in Call,
           NEW to \in Node \cup {Local}, NEW deadline \in BOOLEAN, Schedule(n, c, to, deadline),
           UNCHANGED <<loop, cur>>
    PROVE  PendingAreWaiting'
<1> SUFFICES ASSUME NEW m \in Node, NEW d \in Call PROVE WaitOK(m, d)'
  BY DEF PendingAreWaiting, WaitOK
<1> WaitOK(m, d) /\ WaitOK(m, c) /\ WaitOK(n, d)
  BY DEF PendingAreWaiting, WaitOK
<1>1. /\ pc[c] = "new"
      /\ call' = [call EXCEPT ![c] = [from |-> n, to |-> to, deadline |-> deadline]]
  BY DEF Schedule
<1>2. call'[c].from = n /\ (d # c => call'[d] = call[d])
  BY <1>1 DEF TypeOK
<1>3. CASE QueueFull(n)
  <2>1. pc' = [pc EXCEPT ![c] = "returned"] /\ UNCHANGED pending
    BY <1>3 DEF Schedule
  <2> QED
    BY <1>1, <1>2, <2>1 DEF TypeOK, WaitOK
<1>4. CASE ~QueueFull(n)
  <2>1. /\ pc' = [pc EXCEPT ![c] = "select"]
        /\ pending' = [pending EXCEPT ![n] = pending[n] \cup {c}]
    BY <1>4 DEF Schedule, Registered
  <2>2. m = n => pending'[m] = pending[m] \cup {c}
    BY <2>1 DEF TypeOK
  <2>3. m # n => pending'[m] = pending[m]
    BY <2>1 DEF TypeOK
  <2>4. pc'[c] = "select" /\ (d # c => pc'[d] = pc[d])
    BY <2>1 DEF TypeOK
  <2> QED
    BY <1>1, <1>2, <2>2, <2>3, <2>4 DEF WaitOK
<1> QED
  BY <1>3, <1>4

LEMMA NextWait == TypeInv /\ PendingAreWaiting /\ [Next]_vars => PendingAreWaiting'
<1> SUFFICES ASSUME TypeInv, PendingAreWaiting, [Next]_vars PROVE PendingAreWaiting'
  OBVIOUS
<1> USE DEF calls, counters
<1> TypeOK
  BY DEF TypeInv
<1>1. CASE UNCHANGED vars
  BY <1>1 DEF vars, PendingAreWaiting
<1>2. ASSUME NEW n \in Node, NEW c \in Call, NEW to \in Node \cup {Local},
             NEW deadline \in Deadline, Invoke(n, c, to, deadline)
      PROVE  PendingAreWaiting'
  BY <1>2, ScheduleWait, DiskRpcAssumption DEF Invoke
<1>3. ASSUME NEW n \in Node, NEW c \in Call, NEW to \in Node \cup {Local}, Delegate(n, c, to)
      PROVE  PendingAreWaiting'
  BY <1>3, ScheduleWait DEF Delegate
<1>4. ASSUME NEW c \in Call, Timeout(c) PROVE PendingAreWaiting'
  BY <1>4 DEF Timeout, PendingAreWaiting, TypeOK
<1>5. ASSUME NEW c \in Call, Return(c) PROVE PendingAreWaiting'
  <2> SUFFICES ASSUME NEW m \in Node, NEW d \in Call PROVE WaitOK(m, d)'
    BY DEF PendingAreWaiting, WaitOK
  <2> WaitOK(m, d) /\ WaitOK(m, c)
    BY DEF PendingAreWaiting, WaitOK
  <2>1. /\ pc[c] = "leave" /\ pc' = [pc EXCEPT ![c] = "returned"]
        /\ UNCHANGED <<call, loop, cur>>
        /\ pending' = [pending EXCEPT ![call[c].from] = @ \ {c}]
    BY <1>5 DEF Return, Unregistered
  <2>2. pending'[m] = IF m = call[c].from THEN pending[m] \ {c} ELSE pending[m]
    BY <2>1 DEF TypeOK
  <2> QED
    BY <2>1, <2>2 DEF TypeOK, WaitOK
<1>6. ASSUME NEW n \in Node, HandleResponse(n) PROVE PendingAreWaiting'
  <2> DEFINE c == Head(batch[n]).id
  <2> SUFFICES ASSUME NEW m \in Node, NEW d \in Call PROVE WaitOK(m, d)'
    BY DEF PendingAreWaiting, WaitOK
  <2> WaitOK(m, d)
    BY DEF PendingAreWaiting, WaitOK
  <2>1. loop[n] = "handle" /\ UNCHANGED <<call, pc>>
    BY <1>6 DEF HandleResponse, NextIs
  <2>2. CASE UNCHANGED <<pending, cur, loop>>
    BY <2>1, <2>2 DEF WaitOK
  <2>3. CASE /\ pending' = [pending EXCEPT ![n] = @ \ {c}]
             /\ cur' = [cur EXCEPT ![n] = c] /\ loop' = [loop EXCEPT ![n] = "deliver"]
    <3>1. pending'[m] = IF m = n THEN pending[m] \ {c} ELSE pending[m]
      BY <2>3 DEF TypeOK
    <3>2. m = n => loop'[m] = "deliver" /\ cur'[m] = c
      BY <2>3 DEF TypeOK
    <3>3. m # n => loop'[m] = loop[m] /\ cur'[m] = cur[m]
      BY <2>3 DEF TypeOK
    <3> QED
      BY <2>1, <3>1, <3>2, <3>3 DEF WaitOK
  <2> QED
    BY <1>6, <2>2, <2>3 DEF HandleResponse, Goto
<1>7. ASSUME NEW n \in Node, Deliver(n) PROVE PendingAreWaiting'
  BY <1>7 DEF Deliver, Goto, PendingAreWaiting, TypeOK
<1>8. ASSUME NEW n \in Node,
             \/ HandleRecv(n) \/ HandleRequest(n) \/ HandleRequestDone(n) \/ HandleBatchDone(n)
             \/ FlushSend(n) \/ FlushDone(n) \/ HandleRecvFailed(n) \/ FlushSendFailed(n)
      PROVE  PendingAreWaiting'
  <2>1. /\ UNCHANGED <<call, pc, pending>>
        /\ \/ UNCHANGED <<loop, cur>>
           \/ /\ loop[n] # "deliver"
              /\ \A m \in Node \ {n} : loop'[m] = loop[m] /\ cur'[m] = cur[m]
    BY <1>8 DEF HandleRecv, HandleRequest, NextIs, HandleRequestDone, HandleBatchDone, FlushSend,
                FlushDone, HandleRecvFailed, FlushSendFailed, Goto, TypeOK
  <2> QED
    BY <2>1 DEF PendingAreWaiting
<1>9. ASSUME NEW n \in Node, Crash(n) PROVE PendingAreWaiting'
  <2> SUFFICES ASSUME NEW m \in Node, NEW d \in Call PROVE WaitOK(m, d)'
    BY DEF PendingAreWaiting, WaitOK
  <2> WaitOK(m, d)
    BY DEF PendingAreWaiting, WaitOK
  <2> QED
    BY <1>9 DEF Crash, Goto, WaitOK, TypeOK
<1> QED
  BY <1>1, <1>2, <1>3, <1>4, <1>5, <1>6, <1>7, <1>8, <1>9 DEF Next, HandleStep

(* The registered calls are those that wait for a response: no response    *)
(* misses its caller and no registration is left behind                    *)
(* (diskrpc.go:127, 138-142, 223-235).                                     *)
THEOREM Pending == Spec => []PendingAreWaiting
<1>1. Init => PendingAreWaiting
  BY DEF Init, PendingAreWaiting
<1> QED
  BY <1>1, NextWait, Typed, PTL DEF Spec

-----------------------------------------------------------------------------
(* QueueBounded, for one node. *)
BoundOK(n) ==
    /\ Len(outgoing[n]) <= ReplyLimit + 1
    /\ \A i \in DOMAIN outgoing[n] : outgoing[n][i].type = "request" => i <= QueueLimit + 1

LEMMA ScheduleBound ==
    ASSUME TypeOK, QueueBounded, NEW n \in Node, NEW c \in Call,
           NEW to \in Node \cup {Local}, NEW deadline \in BOOLEAN, Schedule(n, c, to, deadline)
    PROVE  QueueBounded'
<1> SUFFICES ASSUME NEW m \in Node PROVE BoundOK(m)'
  BY DEF QueueBounded, BoundOK
<1> BoundOK(m)
  BY DEF QueueBounded, BoundOK
<1>1. CASE UNCHANGED outgoing
  BY <1>1 DEF BoundOK
<1>2. CASE /\ Len(outgoing[n]) <= QueueLimit
           /\ outgoing' = [outgoing EXCEPT ![n] = Append(@, Request(n, c))]
  <2>1. outgoing[n] \in Seq(Message)
    BY DEF TypeOK
  <2>2. outgoing'[m] = IF m = n THEN Append(outgoing[n], Request(n, c)) ELSE outgoing[m]
    BY <1>2 DEF TypeOK
  <2> QED
    BY <1>2, <2>1, <2>2, DiskRpcAssumption DEF BoundOK
<1>3. QueueFull(n) \/ Len(outgoing[n]) <= QueueLimit
  BY DiskRpcAssumption DEF QueueFull, TypeOK
<1> QED
  BY <1>1, <1>2, <1>3 DEF Schedule

LEMMA NextBound == TypeInv /\ QueueBounded /\ [Next]_vars => QueueBounded'
<1> SUFFICES ASSUME TypeInv, QueueBounded, [Next]_vars PROVE QueueBounded'
  OBVIOUS
<1> USE DEF calls, counters
<1> TypeOK
  BY DEF TypeInv
<1>1. CASE UNCHANGED outgoing
  BY <1>1 DEF QueueBounded
<1>2. ASSUME NEW n \in Node, NEW c \in Call, NEW to \in Node \cup {Local},
             NEW deadline \in Deadline, Invoke(n, c, to, deadline)
      PROVE  QueueBounded'
  BY <1>2, ScheduleBound, DiskRpcAssumption DEF Invoke
<1>3. ASSUME NEW n \in Node, NEW c \in Call, NEW to \in Node \cup {Local}, Delegate(n, c, to)
      PROVE  QueueBounded'
  BY <1>3, ScheduleBound DEF Delegate
<1>4. ASSUME NEW n \in Node, HandleRequestDone(n) PROVE QueueBounded'
  <2> SUFFICES ASSUME NEW m \in Node PROVE BoundOK(m)'
    BY DEF QueueBounded, BoundOK
  <2> BoundOK(m)
    BY DEF QueueBounded, BoundOK
  <2> DEFINE r == Response(n, Head(batch[n]))
  <2>1. CASE UNCHANGED outgoing
    BY <2>1 DEF BoundOK
  <2>2. CASE Len(outgoing[n]) <= ReplyLimit /\ outgoing' = [outgoing EXCEPT ![n] = Append(@, r)]
    <3>1. outgoing[n] \in Seq(Message) /\ r.type = "response"
      BY DEF TypeOK, Response
    <3>2. outgoing'[m] = IF m = n THEN Append(outgoing[n], r) ELSE outgoing[m]
      BY <2>2 DEF TypeOK
    <3> HIDE DEF r
    <3> QED
      BY <2>2, <3>1, <3>2, DiskRpcAssumption DEF BoundOK
  <2>3. ReplyDropped(n) \/ Len(outgoing[n]) <= ReplyLimit
    BY DiskRpcAssumption DEF ReplyDropped, TypeOK
  <2> QED
    BY <1>4, <2>1, <2>2, <2>3 DEF HandleRequestDone
<1>5. ASSUME NEW n \in Node, FlushSend(n) \/ FlushSendFailed(n) PROVE QueueBounded'
  <2> SUFFICES ASSUME NEW m \in Node PROVE BoundOK(m)'
    BY DEF QueueBounded, BoundOK
  <2> BoundOK(m)
    BY DEF QueueBounded, BoundOK
  <2>1. outgoing[n] # <<>> /\ outgoing' = [outgoing EXCEPT ![n] = Tail(@)]
    BY <1>5 DEF FlushSend, FlushSendFailed, AfterFailure
  <2>2. outgoing'[m] = IF m = n THEN Tail(outgoing[n]) ELSE outgoing[m]
    BY <2>1 DEF TypeOK
  <2>3. outgoing[n] \in Seq(Message)
    BY DEF TypeOK
  <2> QED
    BY <2>1, <2>2, <2>3, DiskRpcAssumption DEF BoundOK
<1>6. ASSUME NEW n \in Node, Crash(n) PROVE QueueBounded'
  <2>1. \A m \in Node : outgoing'[m] = IF m = n THEN <<>> ELSE outgoing[m]
    BY <1>6 DEF Crash, TypeOK
  <2> QED
    BY <2>1, DiskRpcAssumption DEF QueueBounded
<1>7. ASSUME \/ UNCHANGED vars
             \/ \E c \in Call : Timeout(c) \/ Return(c)
             \/ \E n \in Node : \/ HandleRecv(n) \/ HandleResponse(n) \/ Deliver(n)
                                \/ HandleRequest(n) \/ HandleBatchDone(n) \/ FlushDone(n)
                                \/ HandleRecvFailed(n)
      PROVE  QueueBounded'
  BY <1>1, <1>7 DEF vars, Timeout, Return, HandleRecv, HandleResponse, Deliver, HandleRequest,
                    HandleBatchDone, FlushDone, HandleRecvFailed
<1> QED
  BY <1>2, <1>3, <1>4, <1>5, <1>6, <1>7 DEF Next, HandleStep

(* The queue keeps to its limits whoever appends to it, for any limits     *)
(* (diskrpc.go:123-126, 299-303).                                          *)
THEOREM Bounded == Spec => []QueueBounded
<1>1. Init => QueueBounded
  <2> SUFFICES ASSUME Init, NEW n \in Node
               PROVE  /\ Len(outgoing[n]) <= ReplyLimit + 1
                      /\ \A i \in DOMAIN outgoing[n] :
                            outgoing[n][i].type = "request" => i <= QueueLimit + 1
    BY DEF QueueBounded
  <2>1. outgoing[n] = <<>>
    BY DEF Init
  <2>2. Len(outgoing[n]) = 0 /\ DOMAIN outgoing[n] = {}
    BY <2>1
  <2> QED
    BY <2>2, DiskRpcAssumption
<1> QED
  BY <1>1, NextBound, Typed, PTL DEF Spec

-----------------------------------------------------------------------------
(* Queue q holds a message of this type for call c, and where. *)
IsFor(m, type, c) == m.type = type /\ m.id = c

Holds(q, type, c) == \E i \in DOMAIN q : IsFor(q[i], type, c)

Once(q, c) ==
    \A i, j \in DOMAIN q : IsFor(q[i], "request", c) /\ IsFor(q[j], "request", c) => i = j

(* Where n's Handle is, and what it is busy with. *)
LoopOK(n) ==
    /\ loop[n] \in {"recv", "flush"} => batch[n] = <<>>
    /\ loop[n] = "method" => /\ batch[n] # <<>>
                             /\ Head(batch[n]).type = "request"
                             /\ served[Head(batch[n]).id] >= 1
    /\ loop[n] = "deliver" => cur[n] \in Call /\ served[cur[n]] >= 1

(* The request of a call is in one place at most. *)
OnePlace(c) ==
    /\ \A n \in Node : Once(outgoing[n], c) /\ Once(box[n], c) /\ Once(batch[n], c)
    /\ \A n, m \in Node :
          /\ Holds(outgoing[n], "request", c) => ~Holds(box[m], "request", c)
          /\ Holds(outgoing[n], "request", c) => ~Holds(batch[m], "request", c)
          /\ Holds(box[n], "request", c) => ~Holds(batch[m], "request", c)
          /\ n # m => /\ ~(Holds(outgoing[n], "request", c) /\ Holds(outgoing[m], "request", c))
                      /\ ~(Holds(box[n], "request", c) /\ Holds(box[m], "request", c))
                      /\ ~(Holds(batch[n], "request", c) /\ Holds(batch[m], "request", c))

(* A request exists once its call was made; one that was served is gone,   *)
(* or its method runs; a response exists only then.                        *)
ServedOK(c) ==
    /\ served[c] <= 1
    /\ pc[c] = "new" => served[c] = 0
    /\ result[c] = "response" => served[c] = 1
    /\ \A n \in Node :
          /\ pc[c] = "new" => /\ ~Holds(outgoing[n], "request", c)
                              /\ ~Holds(box[n], "request", c)
                              /\ ~Holds(batch[n], "request", c)
          /\ served[c] = 1 => /\ ~Holds(outgoing[n], "request", c)
                              /\ ~Holds(box[n], "request", c)
                              /\ Holds(batch[n], "request", c) =>
                                    loop[n] = "method" /\ Head(batch[n]).id = c
          /\ served[c] = 0 => /\ ~Holds(outgoing[n], "response", c)
                              /\ ~Holds(box[n], "response", c)
                              /\ ~Holds(batch[n], "response", c)

Placed ==
    /\ \A n \in Node : LoopOK(n)
    /\ \A c \in Call : OnePlace(c) /\ ServedOK(c)

(* Messages that are appended, put in front, taken off; an empty queue. *)
LEMMA HoldsAppend ==
    ASSUME NEW q \in Seq(Message), NEW m \in Message, NEW type, NEW c
    PROVE  /\ Holds(Append(q, m), type, c) <=> Holds(q, type, c) \/ IsFor(m, type, c)
           /\ Once(q, c) /\ (IsFor(m, "request", c) => ~Holds(q, "request", c))
                 => Once(Append(q, m), c)
<1> DEFINE r == Append(q, m)
           k == Len(q) + 1
<1>1. k \in DOMAIN r /\ r[k] = m /\ Len(q) \in Nat
  OBVIOUS
<1>2. \A i \in DOMAIN q : i \in DOMAIN r /\ i # k /\ r[i] = q[i]
  OBVIOUS
<1>3. \A i \in DOMAIN r : i # k => i \in DOMAIN q
  OBVIOUS
<1> HIDE DEF r, k
<1>4. Holds(r, type, c) <=> Holds(q, type, c) \/ IsFor(m, type, c)
  BY <1>1, <1>2, <1>3 DEF Holds
<1>5. Once(q, c) /\ (IsFor(m, "request", c) => ~Holds(q, "request", c)) => Once(r, c)
  BY <1>1, <1>2, <1>3 DEF Holds, Once
<1> QED
  BY <1>4, <1>5 DEF r

LEMMA HoldsFront ==
    ASSUME NEW q \in Seq(Message), NEW m \in Message, NEW type, NEW c
    PROVE  /\ Holds(<<m>> \o q, type, c) <=> Holds(q, type, c) \/ IsFor(m, type, c)
           /\ Once(q, c) /\ (IsFor(m, "request", c) => ~Holds(q, "request", c))
                 => Once(<<m>> \o q, c)
<1> DEFINE r == <<m>> \o q
<1>1. 1 \in DOMAIN r /\ r[1] = m /\ Len(q) \in Nat
  OBVIOUS
<1>2. \A i \in DOMAIN q : i + 1 \in DOMAIN r /\ i + 1 # 1 /\ r[i + 1] = q[i]
  OBVIOUS
<1>3. \A i \in DOMAIN r : i \in Nat /\ (i # 1 => i - 1 \in DOMAIN q /\ r[i] = q[i - 1])
  OBVIOUS
<1> HIDE DEF r
<1>4. Holds(r, type, c) <=> Holds(q, type, c) \/ IsFor(m, type, c)
  BY <1>1, <1>2, <1>3 DEF Holds
<1>5. Once(q, c) /\ (IsFor(m, "request", c) => ~Holds(q, "request", c)) => Once(r, c)
  BY <1>1, <1>3 DEF Holds, Once
<1> QED
  BY <1>4, <1>5 DEF r

LEMMA HoldsTail ==
    ASSUME NEW q \in Seq(Message), q # <<>>, NEW type, NEW c
    PROVE  /\ Holds(Tail(q), type, c) => Holds(q, type, c)
           /\ IsFor(Head(q), type, c) => Holds(q, type, c)
           /\ Once(q, c) => Once(Tail(q), c)
           /\ Once(q, c) /\ IsFor(Head(q), "request", c) => ~Holds(Tail(q), "request", c)
<1>1. /\ 1 \in DOMAIN q /\ Head(q) = q[1]
      /\ \A i \in DOMAIN Tail(q) : i \in Nat /\ i # 0 /\ i + 1 \in DOMAIN q /\ Tail(q)[i] = q[i + 1]
  OBVIOUS
<1> QED
  BY <1>1 DEF Holds, Once

LEMMA HoldsEmpty ==
    ASSUME NEW type, NEW c PROVE ~Holds(<<>>, type, c) /\ Once(<<>>, c)
BY DEF Holds, Once

Types == {"request", "response"}

LEMMA InitPlaced == Init => Placed
<1> SUFFICES ASSUME Init PROVE Placed
  OBVIOUS
<1>1. \A n \in Node : outgoing[n] = <<>> /\ box[n] = <<>> /\ batch[n] = <<>>
  BY DEF Init
<1>2. \A n \in Node, type \in Types, c \in Call :
         /\ ~Holds(outgoing[n], type, c) /\ ~Holds(box[n], type, c) /\ ~Holds(batch[n], type, c)
         /\ Once(outgoing[n], c) /\ Once(box[n], c) /\ Once(batch[n], c)
  BY <1>1, HoldsEmpty
<1>3. \A n \in Node : LoopOK(n)
  BY <1>1 DEF Init, LoopOK
<1>4. \A c \in Call : OnePlace(c)
  BY <1>2 DEF OnePlace, Types
<1>5. \A c \in Call : ServedOK(c)
  BY <1>2 DEF Init, ServedOK, Types
<1> QED
  BY <1>3, <1>4, <1>5 DEF Placed

(* Invoke and Delegate: the request of a new call is queued. *)
LEMMA SchedulePlaced ==
    ASSUME TypeOK, Placed, NEW n \in Node, NEW c \in Call, NEW to \in Node \cup {Local},
           NEW deadline \in BOOLEAN, Schedule(n, c, to, deadline),
           UNCHANGED <<box, loop, batch, cur, served>>
    PROVE  Placed'
<1> DEFINE m == Request(n, c)
<1>1. m \in Message /\ IsFor(m, "request", c)
  <2>1. call'[c].to = to
    BY DEF Schedule, TypeOK
  <2> QED
    BY <2>1, MessageType DEF Request, IsFor
<1>2. \A type \in Types, d \in Call : IsFor(m, type, d) => type = "request" /\ d = c
  BY DEF IsFor, Request
<1>3. pc[c] = "new" /\ \A d \in Call : pc'[d] = "new" => pc[d] = "new"
  BY DEF Schedule, TypeOK
<1>4. \A d \in Call : result'[d] = "response" => result[d] = "response"
  BY DEF Schedule, TypeOK
<1>5. pc'[c] # "new"
  BY DEF Schedule, TypeOK
<1> HIDE DEF m
<1>6. \A x \in Node : outgoing'[x] = outgoing[x] \/ (x = n /\ outgoing'[x] = Append(outgoing[n], m))
  BY DEF Schedule, m, TypeOK
<1>7. \A x \in Node, type \in Types, d \in Call :
         Holds(outgoing'[x], type, d)
            => Holds(outgoing[x], type, d) \/ (x = n /\ d = c /\ type = "request")
  <2>1. outgoing[n] \in Seq(Message)
    BY DEF TypeOK
  <2>2. ASSUME NEW type \in Types, NEW d \in Call
        PROVE  Holds(Append(outgoing[n], m), type, d)
                  => Holds(outgoing[n], type, d) \/ IsFor(m, type, d)
    BY <1>1, <2>1, HoldsAppend
  <2> QED
    BY <1>2, <1>6, <2>2
<1>8. \A x \in Node, d \in Call : Once(outgoing'[x], d)
  <2>1. \A x \in Node, d \in Call : Once(outgoing[x], d)
    BY DEF Placed, OnePlace
  <2>2. ~Holds(outgoing[n], "request", c)
    BY <1>3 DEF Placed, ServedOK
  <2>3. \A d \in Call : IsFor(m, "request", d) => ~Holds(outgoing[n], "request", d)
    BY <1>2, <2>2 DEF Types
  <2> QED
    BY <1>1, <1>6, <2>1, <2>3, HoldsAppend DEF TypeOK
<1>9. \A x \in Node : LoopOK(x)'
  BY DEF Placed, LoopOK
<1>10. \A d \in Call : OnePlace(d)'
  BY <1>3, <1>7, <1>8 DEF Placed, OnePlace, ServedOK, Types
<1>11. \A d \in Call : ServedOK(d)'
  BY <1>3, <1>4, <1>5, <1>7 DEF Placed, ServedOK, Types
<1> QED
  BY <1>9, <1>10, <1>11 DEF Placed

(* The flush takes the first message off the queue, and may post it. *)
LEMMA FlushPlaced ==
    ASSUME TypeOK, Placed, NEW n \in Node, outgoing[n] # <<>>,
           outgoing' = [outgoing EXCEPT ![n] = Tail(@)], box' \in {box, Posted(n)},
           UNCHANGED <<pc, result, loop, batch, cur, served>>
    PROVE  Placed'
<1> DEFINE m == Head(outgoing[n])
           r == Recipient(n, m.to)
<1>1. m \in Message /\ r \in Node
  BY QueueType DEF TypeOK, Message, Recipient
<1>2. /\ \A x \in Node : outgoing'[x] = IF x = n THEN Tail(outgoing[n]) ELSE outgoing[x]
      /\ \A x \in Node : box'[x] = box[x] \/ (x = r /\ box'[x] = <<m>> \o box[r])
  BY <1>1 DEF TypeOK, Posted
<1>3. \A type \in Types, d \in Call :
         /\ Holds(Tail(outgoing[n]), type, d) => Holds(outgoing[n], type, d)
         /\ IsFor(m, type, d) => Holds(outgoing[n], type, d)
         /\ IsFor(m, "request", d) => ~Holds(Tail(outgoing[n]), "request", d)
         /\ Once(Tail(outgoing[n]), d)
  BY HoldsTail DEF TypeOK, Placed, OnePlace
<1> HIDE DEF m, r
<1>4. \A x \in Node, type \in Types, d \in Call :
         /\ Holds(outgoing'[x], type, d) => Holds(outgoing[x], type, d)
         /\ IsFor(m, "request", d) => ~Holds(outgoing'[n], "request", d)
         /\ Once(outgoing'[x], d)
  BY <1>2, <1>3 DEF Placed, OnePlace
<1>5. \A x \in Node, type \in Types, d \in Call :
         Holds(box'[x], type, d) => Holds(box[x], type, d) \/ (x = r /\ IsFor(m, type, d))
  <2>1. box[r] \in Seq(Message)
    BY <1>1 DEF TypeOK
  <2>2. ASSUME NEW type \in Types, NEW d \in Call
        PROVE  Holds(<<m>> \o box[r], type, d) => Holds(box[r], type, d) \/ IsFor(m, type, d)
    BY <1>1, <2>1, HoldsFront
  <2> QED
    BY <1>2, <2>2
<1>6. \A x \in Node, d \in Call : Once(box'[x], d)
  <2>1. \A d \in Call : IsFor(m, "request", d) => ~Holds(box[r], "request", d)
    BY <1>1, <1>3 DEF Placed, OnePlace, Types
  <2>2. \A x \in Node, d \in Call : Once(box[x], d)
    BY DEF Placed, OnePlace
  <2>3. box[r] \in Seq(Message)
    BY <1>1 DEF TypeOK
  <2>4. ASSUME NEW d \in Call PROVE Once(<<m>> \o box[r], d)
    BY <1>1, <2>1, <2>2, <2>3, HoldsFront
  <2> QED
    BY <1>2, <2>2, <2>4
<1>7. \A x \in Node : LoopOK(x)'
  BY DEF Placed, LoopOK
<1>8. ASSUME NEW d \in Call PROVE OnePlace(d)'
  <2>1. OnePlace(d)
    BY DEF Placed
  <2> QED
    BY <1>3, <1>4, <1>5, <1>6, <2>1 DEF OnePlace, Types
<1>9. ASSUME NEW d \in Call PROVE ServedOK(d)'
  <2>1. ServedOK(d)
    BY DEF Placed
  <2> QED
    BY <1>3, <1>4, <1>5, <2>1 DEF ServedOK, Types
<1> QED
  BY <1>7, <1>8, <1>9 DEF Placed

(* A step that takes no message elsewhere, though it may empty queues. *)
DropStep ==
    /\ UNCHANGED served
    /\ \A x \in Node :
          /\ outgoing'[x] = outgoing[x] \/ outgoing'[x] = <<>>
          /\ box'[x] = box[x] \/ box'[x] = <<>>
          /\ \/ batch'[x] = batch[x] /\ loop'[x] = loop[x] /\ cur'[x] = cur[x]
             \/ batch'[x] = <<>> /\ loop'[x] = "recv"
    /\ \A c \in Call :
          /\ pc'[c] = "new" => pc[c] = "new"
          /\ result'[c] = "response" => result[c] = "response"

LEMMA DropPlaced ==
    ASSUME Placed, DropStep
    PROVE  Placed'
<1>1. \A x \in Node, type \in Types, d \in Call :
         /\ Holds(outgoing'[x], type, d) => Holds(outgoing[x], type, d)
         /\ Holds(box'[x], type, d) => Holds(box[x], type, d)
         /\ Holds(batch'[x], type, d) => Holds(batch[x], type, d)
         /\ Holds(batch'[x], type, d) => batch'[x] = batch[x] /\ loop'[x] = loop[x]
         /\ Once(outgoing'[x], d) /\ Once(box'[x], d) /\ Once(batch'[x], d)
  BY HoldsEmpty DEF DropStep, Placed, OnePlace
<1>2. \A x \in Node : LoopOK(x)'
  BY DEF DropStep, Placed, LoopOK
<1>3. ASSUME NEW d \in Call PROVE OnePlace(d)'
  <2>1. OnePlace(d)
    BY DEF Placed
  <2> QED
    BY <1>1, <2>1 DEF OnePlace, Types
<1>4. ASSUME NEW d \in Call PROVE ServedOK(d)'
  <2>1. ServedOK(d)
    BY DEF Placed
  <2> QED
    BY <1>1, <2>1 DEF DropStep, ServedOK, Types
<1> QED
  BY <1>2, <1>3, <1>4 DEF Placed

(* A message of the batch is dealt with; a response may be queued. *)
LEMMA HandledPlaced ==
    ASSUME TypeOK, Placed, NEW n \in Node, batch[n] # <<>>,
           batch' = [batch EXCEPT ![n] = Tail(@)], UNCHANGED <<pc, result, box, served>>,
           \/ UNCHANGED outgoing
           \/ /\ outgoing' = [outgoing EXCEPT ![n] = Append(@, Response(n, Head(batch[n])))]
              /\ served[Head(batch[n]).id] >= 1,
           \A x \in Node \ {n} : loop'[x] = loop[x] /\ cur'[x] = cur[x],
           loop'[n] \in {"handle", "deliver"},
           loop'[n] = "deliver" => cur'[n] \in Call /\ served[cur'[n]] >= 1,
           loop[n] # "method" => Head(batch[n]).type = "response"
    PROVE  Placed'
<1> DEFINE m == Head(batch[n])
           a == Response(n, m)
<1>1. m \in Message /\ m.id \in Call /\ served[m.id] \in Nat
  BY QueueType DEF TypeOK, Message
<1>2. a \in Message
  BY <1>1, MessageType DEF Response, Message
<1>3. \A type \in Types, d \in Call : IsFor(a, type, d) => type = "response" /\ d = m.id
  BY DEF IsFor, Response
<1>4. \A x \in Node : batch'[x] = IF x = n THEN Tail(batch[n]) ELSE batch[x]
  BY DEF TypeOK
<1>5. \A x \in Node : \/ outgoing'[x] = outgoing[x]
                      \/ x = n /\ outgoing'[x] = Append(outgoing[n], a) /\ served[m.id] >= 1
  BY DEF TypeOK
<1>6. \A type \in Types, d \in Call :
         /\ Holds(Tail(batch[n]), type, d) => Holds(batch[n], type, d)
         /\ IsFor(m, "request", d) => ~Holds(Tail(batch[n]), "request", d)
         /\ Once(Tail(batch[n]), d)
  BY HoldsTail DEF TypeOK, Placed, OnePlace
<1>7. \A d \in Call : loop[n] = "method" /\ m.id = d => IsFor(m, "request", d)
  BY DEF Placed, LoopOK, IsFor
<1> HIDE DEF m, a
<1>8. \A type \in Types, d \in Call :
         Holds(Append(outgoing[n], a), type, d)
            => Holds(outgoing[n], type, d) \/ (type = "response" /\ d = m.id)
  <2>1. outgoing[n] \in Seq(Message)
    BY DEF TypeOK
  <2>2. ASSUME NEW type \in Types, NEW d \in Call
        PROVE  Holds(Append(outgoing[n], a), type, d)
                  => Holds(outgoing[n], type, d) \/ IsFor(a, type, d)
    BY <1>2, <2>1, HoldsAppend
  <2> QED
    BY <1>3, <2>2
<1>9. \A d \in Call : Once(Append(outgoing[n], a), d)
  <2>1. outgoing[n] \in Seq(Message)
    BY DEF TypeOK
  <2>2. \A d \in Call : Once(outgoing[n], d) /\ ~IsFor(a, "request", d)
    BY <1>3 DEF Placed, OnePlace, Types
  <2>3. ASSUME NEW d \in Call PROVE Once(Append(outgoing[n], a), d)
    BY <1>2, <2>1, <2>2, HoldsAppend
  <2> QED
    BY <2>3
<1>10. \A x \in Node, type \in Types, d \in Call :
          Holds(outgoing'[x], type, d)
             => \/ Holds(outgoing[x], type, d)
                \/ type = "response" /\ d = m.id /\ served[d] >= 1
  BY <1>5, <1>8
<1>11. \A x \in Node, d \in Call : Once(outgoing'[x], d)
  BY <1>5, <1>9 DEF Placed, OnePlace
<1>12. \A x \in Node, type \in Types, d \in Call :
          /\ Holds(batch'[x], type, d) => Holds(batch[x], type, d)
          /\ Once(batch'[x], d)
  BY <1>4, <1>6 DEF Placed, OnePlace
<1>13. \A x \in Node : LoopOK(x)'
  BY <1>4 DEF Placed, LoopOK
<1>14. ASSUME NEW d \in Call PROVE OnePlace(d)'
  <2>1. OnePlace(d)
    BY DEF Placed
  <2> QED
    BY <1>10, <1>11, <1>12, <2>1 DEF OnePlace, Types
<1>15. ASSUME NEW d \in Call PROVE ServedOK(d)'
  <2>1. ServedOK(d) /\ served[d] \in Nat
    BY DEF Placed, TypeOK
  <2>2. ASSUME served[d] = 1, NEW x \in Node, Holds(batch'[x], "request", d)
        PROVE  loop'[x] = "method" /\ Head(batch'[x]).id = d
    <3>1. Holds(batch[x], "request", d)
      BY <1>12, <2>2 DEF Types
    <3>2. loop[x] = "method" /\ Head(batch[x]).id = d
      BY <2>1, <2>2, <3>1 DEF ServedOK
    <3>3. x # n
      BY <1>4, <1>6, <1>7, <2>2, <3>2 DEF Types, m
    <3> QED
      BY <1>4, <3>2, <3>3
  <2> QED
    BY <1>10, <1>12, <2>1, <2>2 DEF ServedOK, Types
<1> QED
  BY <1>13, <1>14, <1>15 DEF Placed

LEMMA NextPlaced == TypeInv /\ Placed /\ [Next]_vars => Placed'
<1> SUFFICES ASSUME TypeInv, TypeOK, Placed, [Next]_vars PROVE Placed'
  BY DEF TypeInv
<1> USE DEF calls, counters
<1>1. CASE UNCHANGED vars
  <2>1. DropStep
    BY <1>1 DEF DropStep, vars
  <2> QED
    BY <2>1, DropPlaced
<1>2. ASSUME NEW n \in Node, NEW c \in Call, NEW to \in Node \cup {Local},
             NEW deadline \in Deadline, Invoke(n, c, to, deadline)
      PROVE  Placed'
  BY <1>2, SchedulePlaced, DiskRpcAssumption DEF Invoke
<1>3. ASSUME NEW n \in Node, NEW c \in Call, NEW to \in Node \cup {Local}, Delegate(n, c, to)
      PROVE  Placed'
  BY <1>3, SchedulePlaced DEF Delegate
<1>4. ASSUME NEW c \in Call, Timeout(c) PROVE Placed'
  <2>1. DropStep
    BY <1>4 DEF DropStep, Timeout, TypeOK
  <2> QED
    BY <2>1, DropPlaced
<1>5. ASSUME NEW c \in Call, Return(c) PROVE Placed'
  <2>1. DropStep
    BY <1>5 DEF DropStep, Return, TypeOK
  <2> QED
    BY <2>1, DropPlaced
<1>6. ASSUME NEW n \in Node, HandleRecv(n) PROVE Placed'
  <2>1. \A x \in Node : /\ box'[x] = IF x = n THEN <<>> ELSE box[x]
                        /\ batch'[x] = IF x = n THEN box[n] ELSE batch[x]
                        /\ loop'[x] = IF x = n THEN "handle" ELSE loop[x]
                        /\ outgoing'[x] = outgoing[x] /\ cur'[x] = cur[x]
    BY <1>6 DEF HandleRecv, Goto, TypeOK
  <2>2. UNCHANGED <<pc, result, served>>
    BY <1>6 DEF HandleRecv
  <2>3. \A type \in Types, d \in Call : ~Holds(box'[n], type, d) /\ Once(box'[n], d)
    BY <2>1, HoldsEmpty
  <2>4. \A x \in Node : LoopOK(x)'
    BY <2>1, <2>2 DEF Placed, LoopOK
  <2>5. ASSUME NEW d \in Call PROVE OnePlace(d)'
    <3>1. OnePlace(d)
      BY DEF Placed
    <3> QED
      BY <2>1, <2>3, <3>1 DEF OnePlace, Types
  <2>6. ASSUME NEW d \in Call PROVE ServedOK(d)'
    <3>1. ServedOK(d)
      BY DEF Placed
    <3> QED
      BY <2>1, <2>2, <2>3, <3>1 DEF ServedOK, Types
  <2> QED
    BY <2>4, <2>5, <2>6 DEF Placed
<1>7. ASSUME NEW n \in Node, HandleRecvFailed(n) PROVE Placed'
  <2>1. DropStep
    BY <1>7 DEF DropStep, HandleRecvFailed, TypeOK
  <2> QED
    BY <2>1, DropPlaced
<1>8. ASSUME NEW n \in Node, HandleResponse(n) PROVE Placed'
  <2> DEFINE m == Head(batch[n])
  <2>1. batch[n] # <<>> /\ m.type = "response" /\ m \in Message /\ loop[n] = "handle"
    BY <1>8, QueueType DEF HandleResponse, NextIs, TypeOK
  <2>2. m.id \in Call /\ served[m.id] \in Nat /\ IsFor(m, "response", m.id)
    BY <2>1 DEF Message, TypeOK, IsFor
  <2>3. Holds(batch[n], "response", m.id)
    BY <2>1, <2>2, HoldsTail DEF TypeOK
  <2>4. served[m.id] >= 1
    BY <2>2, <2>3 DEF Placed, ServedOK
  <2>5. /\ \A x \in Node \ {n} : loop'[x] = loop[x] /\ cur'[x] = cur[x]
        /\ loop'[n] \in {"handle", "deliver"}
        /\ loop'[n] = "deliver" => cur'[n] = m.id
    BY <1>8, <2>1 DEF HandleResponse, Goto, TypeOK
  <2> QED
    BY <1>8, <2>1, <2>2, <2>4, <2>5, HandledPlaced DEF HandleResponse
<1>9. ASSUME NEW n \in Node, Deliver(n) PROVE Placed'
  <2>1. cur[n] \in Call /\ served[cur[n]] = 1
    BY <1>9 DEF Deliver, Placed, LoopOK, ServedOK, TypeOK
  <2>2. UNCHANGED <<outgoing, box, batch, served>>
    BY <1>9 DEF Deliver
  <2>3. \A d \in Call : /\ pc'[d] = "new" => pc[d] = "new"
                        /\ result'[d] = "response" => result[d] = "response" \/ d = cur[n]
    BY <1>9 DEF Deliver, TypeOK
  <2>4. \A x \in Node : x # n => loop'[x] = loop[x] /\ cur'[x] = cur[x]
    BY <1>9 DEF Deliver, Goto, TypeOK
  <2>5. loop[n] = "deliver" /\ loop'[n] = "handle"
    BY <1>9 DEF Deliver, Goto, TypeOK
  <2>6. \A x \in Node : LoopOK(x)'
    BY <2>2, <2>4, <2>5 DEF Placed, LoopOK
  <2>7. ASSUME NEW d \in Call PROVE OnePlace(d)' /\ ServedOK(d)'
    <3>1. OnePlace(d)'
      BY <2>2 DEF Placed, OnePlace
    <3>2. ServedOK(d)'
      <4>1. ServedOK(d)
        BY DEF Placed
      <4> QED
        BY <2>1, <2>2, <2>3, <2>4, <2>5, <4>1 DEF ServedOK
    <3> QED
      BY <3>1, <3>2
  <2> QED
    BY <2>6, <2>7 DEF Placed
<1>10. ASSUME NEW n \in Node, HandleRequest(n) PROVE Placed'
  <2>0. PICK c \in Call : c = Head(batch[n]).id
    BY <1>10, QueueType DEF HandleRequest, NextIs, TypeOK, Message
  <2>1. /\ batch[n] # <<>> /\ Head(batch[n]).type = "request" /\ loop[n] = "handle"
        /\ served[c] \in Nat /\ IsFor(Head(batch[n]), "request", c)
    BY <1>10, <2>0 DEF HandleRequest, NextIs, TypeOK, IsFor
  <2>2. Holds(batch[n], "request", c)
    BY <2>1, HoldsTail DEF TypeOK
  <2>3. served[c] = 0 /\ pc[c] # "new"
    BY <2>1, <2>2 DEF Placed, ServedOK
  <2>4. /\ \A d \in Call : served'[d] = IF d = c THEN 1 ELSE served[d]
        /\ \A x \in Node : loop'[x] = IF x = n THEN "method" ELSE loop[x]
        /\ \A x \in Node : x # n => cur'[x] = cur[x]
        /\ UNCHANGED <<pc, result, outgoing, box, batch>>
    BY <1>10, <2>0, <2>1, <2>3 DEF HandleRequest, Goto, TypeOK
  <2>5. \A x \in Node : LoopOK(x)'
    <3>1. \A x \in Node : batch[x] # <<>> => Head(batch[x]).id \in Call
      BY QueueType DEF TypeOK, Message
    <3> QED
      BY <2>0, <2>1, <2>4, <3>1 DEF Placed, LoopOK
  <2>6. \A d \in Call : OnePlace(d)'
    BY <2>4 DEF Placed, OnePlace
  <2>7. ASSUME NEW d \in Call, d # c PROVE ServedOK(d)'
    <3>1. ServedOK(d)
      BY DEF Placed
    <3> QED
      BY <2>1, <2>4, <2>7, <3>1 DEF ServedOK
  <2>8. ServedOK(c)'
    <3>1. ServedOK(c) /\ OnePlace(c)
      BY DEF Placed
    <3> QED
      BY <2>1, <2>2, <2>3, <2>4, <2>0, <3>1 DEF ServedOK, OnePlace
  <2> QED
    BY <2>5, <2>6, <2>7, <2>8 DEF Placed
<1>11. ASSUME NEW n \in Node, HandleRequestDone(n) PROVE Placed'
  <2>1. /\ loop[n] = "method" /\ batch[n] # <<>> /\ served[Head(batch[n]).id] >= 1
    BY <1>11 DEF HandleRequestDone, Placed, LoopOK
  <2>2. /\ \A x \in Node \ {n} : loop'[x] = loop[x] /\ cur'[x] = cur[x]
        /\ loop'[n] = "handle"
    BY <1>11 DEF HandleRequestDone, Goto, TypeOK
  <2> QED
    BY <1>11, <2>1, <2>2, HandledPlaced DEF HandleRequestDone
<1>12. ASSUME NEW n \in Node, HandleBatchDone(n) \/ FlushDone(n) PROVE Placed'
  <2>1. /\ UNCHANGED <<pc, result, outgoing, box, batch, cur, served>>
        /\ batch[n] = <<>> /\ loop[n] # "method" /\ loop'[n] \in {"flush", "recv"}
        /\ \A x \in Node : x # n => loop'[x] = loop[x]
    BY <1>12 DEF HandleBatchDone, FlushDone, Goto, TypeOK, Placed, LoopOK
  <2>2. \A x \in Node : LoopOK(x)'
    BY <2>1 DEF Placed, LoopOK
  <2>3. \A d \in Call : OnePlace(d)' /\ ServedOK(d)'
    BY <2>1 DEF Placed, OnePlace, ServedOK
  <2> QED
    BY <2>2, <2>3 DEF Placed
<1>13. ASSUME NEW n \in Node, FlushSend(n) \/ FlushSendFailed(n) PROVE Placed'
  <2>1. /\ outgoing[n] # <<>> /\ outgoing' = [outgoing EXCEPT ![n] = Tail(@)]
        /\ box' \in {box, Posted(n)} /\ UNCHANGED <<pc, result, loop, batch, cur, served>>
    BY <1>13 DEF FlushSend, FlushSendFailed, AfterFailure
  <2> QED
    BY <2>1, FlushPlaced
<1>14. ASSUME NEW n \in Node, Crash(n) PROVE Placed'
  <2>1. \A x \in Node : /\ outgoing'[x] = IF x = n THEN <<>> ELSE outgoing[x]
                        /\ batch'[x] = IF x = n THEN <<>> ELSE batch[x]
                        /\ loop'[x] = IF x = n THEN "recv" ELSE loop[x]
                        /\ x # n => cur'[x] = cur[x]
                        /\ box'[x] = box[x]
    BY <1>14 DEF Crash, Goto, TypeOK
  <2>2. \A c \in Call : /\ pc'[c] = "new" => pc[c] = "new"
                        /\ result'[c] = "response" => result[c] = "response"
    BY <1>14 DEF Crash
  <2>3. UNCHANGED served
    BY <1>14 DEF Crash
  <2>4. DropStep
    BY <2>1, <2>2, <2>3 DEF DropStep
  <2> QED
    BY <2>4, DropPlaced
<1> QED
  BY <1>1, <1>2, <1>3, <1>4, <1>5, <1>6, <1>7, <1>8, <1>9, <1>10, <1>11, <1>12, <1>13, <1>14
     DEF Next, HandleStep

(* A method runs at most once per call, whatever fails after it took       *)
(* place and whichever drivers crash: a request is in one place at a time, *)
(* and in none once it was served (diskrpc.go:204-214, 240-310).           *)
THEOREM ServedAtMostOnce == Spec => []AtMostOnce
<1>1. TypeInv /\ Placed => AtMostOnce
  <2> SUFFICES ASSUME TypeInv, Placed, NEW c \in Call
               PROVE  served[c] <= 1 /\ (result[c] = "response" => served[c] = 1)
    BY DEF AtMostOnce
  <2> QED
    BY DEF Placed, ServedOK
<1> QED
  BY <1>1, InitPlaced, NextPlaced, Typed, PTL DEF Spec
=============================================================================
