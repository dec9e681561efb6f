--------------------------------- MODULE DiskRpc ---------------------------------
(***************************************************************************)
(* Remote calls over the disk mailbox (pkg/diskrpc/diskrpc.go and the loop *)
(* of pkg/driverd/diskrpcservice.go).  Invoke runs in the goroutine of the *)
(* caller: it registers the call, queues the request and waits in a select *)
(* for the response or a timeout.  One goroutine per node runs Handle over *)
(* and over: it takes the messages out of the mailbox, passes responses to *)
(* the waiting callers over unbuffered channels, runs the methods that the *)
(* requests name, and sends what is queued while it holds the mutex.       *)
(*                                                                         *)
(* The mailbox is the one PostOffice specifies and MailBox implements; a   *)
(* Send or a Recv that returns an error may have taken place.              *)
(***************************************************************************)
EXTENDS Naturals, Sequences

CONSTANTS
    Node,       \* the nodes
    Local,      \* mailbox id 0: the caller's own node
    Call,       \* the uuids of calls
    None,       \* no call
    Deadline,   \* what a caller's context may say: does it have a deadline?
    Delegating, \* may a method delegate, in its turn, to another node?
    QueueLimit, \* 64: queued messages beyond which Invoke refuses
    ReplyLimit, \* 256: and beyond which a response is dropped
    MaxErrors,  \* Sends and Recvs that return an error
    MaxCrashes  \* crashes of a driver

ASSUME DiskRpcAssumption ==
    /\ Local \notin Node /\ None \notin Call
    /\ Deadline \subseteq BOOLEAN /\ Delegating \in BOOLEAN
    /\ QueueLimit \in Nat /\ ReplyLimit \in Nat /\ QueueLimit <= ReplyLimit
    /\ MaxErrors \in Nat /\ MaxCrashes \in Nat

VARIABLES
    call,       \* call[c]: the arguments of Invoke
    pc,         \* pc[c]: "new", "select", "leave" or "returned"
    result,     \* result[c]: what Invoke returns
    pending,    \* pending[n]: calls whose channel is registered
    outgoing,   \* outgoing[n]: messages queued for the next flush
    box,        \* box[n]: n's mailbox, newest message first
    loop,       \* loop[n]: where n's Handle is
    batch,      \* batch[n]: messages received and not handled yet
    cur,        \* cur[n]: the call whose message Handle is busy with
    nested,     \* nested[n]: the call that the running method waits for
    served,     \* history: how often c's method was started
    errors, crashes

vars == <<call, pc, result, pending, outgoing, box, loop, batch, cur, nested,
          served, errors, crashes>>

calls == <<call, pc, result>>
counters == <<errors, crashes>>

Message == [type : {"request", "response"}, id : Call, from : Node,
            to : Node \cup {Local}]

NoCall == [from |-> Local, to |-> Local, deadline |-> FALSE]

Init ==
    /\ call = [c \in Call |-> NoCall]
    /\ pc = [c \in Call |-> "new"]
    /\ result = [c \in Call |-> "none"]
    /\ pending = [n \in Node |-> {}]
    /\ outgoing = [n \in Node |-> <<>>]
    /\ box = [n \in Node |-> <<>>]
    /\ loop = [n \in Node |-> "recv"]
    /\ batch = [n \in Node |-> <<>>]
    /\ cur = [n \in Node |-> None]
    /\ nested = [n \in Node |-> None]
    /\ served = [c \in Call |-> 0]
    /\ errors = 0
    /\ crashes = 0

-----------------------------------------------------------------------------
(* The mutex guards short sections, which are atomic here, and the flush.  *)
MutexFree(n) == loop[n] # "flush"

Goto(n, step) == loop' = [loop EXCEPT ![n] = step]

Request(n, c) == [type |-> "request", id |-> c, from |-> n, to |-> call'[c].to]

Response_Untyped(n, m) == [type |-> "unset", id |-> m.id, from |-> n, to |-> m.from]
Response(n, m) == [type |-> "response", id |-> m.id, from |-> n, to |-> m.from]

QueueFull(n) == Len(outgoing[n]) > QueueLimit

Registered(n, c) == pending[n] \cup {c}

(* Invoke up to its select, in whatever goroutine. *)
Schedule(n, c, to, deadline) ==
    /\ pc[c] = "new"
    /\ MutexFree(n)
    /\ call' = [call EXCEPT ![c] =
          [from |-> n, to |-> to, deadline |-> deadline]]
    /\ IF QueueFull(n)
       THEN /\ pc' = [pc EXCEPT ![c] = "returned"]
            /\ result' = [result EXCEPT ![c] = "exhausted"]
            /\ UNCHANGED <<pending, outgoing>>
       ELSE /\ pc' = [pc EXCEPT ![c] = "select"]
            /\ pending' = [pending EXCEPT ![n] = Registered(n, c)]
            /\ outgoing' = [outgoing EXCEPT ![n] = Append(@, Request(n, c))]
            /\ UNCHANGED result

(* A CSI request that its node cannot serve is delegated to another. *)
Invoke(n, c, to, deadline) ==
    /\ Schedule(n, c, to, deadline)
    /\ UNCHANGED <<box, loop, batch, cur, nested, served, counters>>

(* A context with a deadline gives a timeout of 30 seconds; without one    *)
(* the wait is the time since the zero time, 292 years.                    *)
TimesOut_NoDeadline(c) == ~call[c].deadline
TimesOut(c) == call[c].deadline

Timeout(c) ==
    /\ pc[c] = "select"
    /\ TimesOut(c)
    /\ pc' = [pc EXCEPT ![c] = "leave"]
    /\ result' = [result EXCEPT ![c] = "timeout"]
    /\ UNCHANGED <<call, pending, outgoing, box, loop, batch, cur, nested, served,
                   counters>>

(* The deferred function of Invoke, and its return. *)
Unregistered_Not(c) == pending
Unregistered(c) == [pending EXCEPT ![call[c].from] = @ \ {c}]

Return(c) ==
    /\ pc[c] = "leave"
    /\ MutexFree(call[c].from)
    /\ pending' = Unregistered(c)
    /\ pc' = [pc EXCEPT ![c] = "returned"]
    /\ UNCHANGED <<call, result, outgoing, box, loop, batch, cur, nested, served,
                   counters>>

-----------------------------------------------------------------------------
(* Handle: Recv empties the mailbox. *)
HandleRecv(n) ==
    /\ loop[n] = "recv"
    /\ batch' = [batch EXCEPT ![n] = box[n]]
    /\ box' = [box EXCEPT ![n] = <<>>]
    /\ Goto(n, "handle")
    /\ UNCHANGED <<calls, pending, outgoing, cur, nested, served, counters>>

(* Recv returns an error, before or after the messages are gone.  Handle   *)
(* returns it, and is called again.                                        *)
HandleRecvFailed_Exit(n) ==
    /\ loop[n] = "recv"
    /\ errors < MaxErrors
    /\ errors' = errors + 1
    /\ Goto(n, "exit")
    /\ UNCHANGED <<calls, pending, outgoing, box, batch, cur, nested, served, crashes>>
HandleRecvFailed(n) ==
    /\ loop[n] = "recv"
    /\ errors < MaxErrors
    /\ errors' = errors + 1
    /\ box' \in {box, [box EXCEPT ![n] = <<>>]}
    /\ UNCHANGED <<calls, pending, outgoing, loop, batch, cur, nested, served, crashes>>

NextIs(n, type) ==
    /\ loop[n] = "handle"
    /\ batch[n] # <<>>
    /\ Head(batch[n]).type = type

(* handleResponse: a registered call is unregistered, under the mutex, and *)
(* its channel is sent the response, which waits for the receiver.         *)
Expected(n, c) == c \in pending[n]

HandleResponse(n) ==
    /\ NextIs(n, "response")
    /\ LET c == Head(batch[n]).id
       IN  IF Expected(n, c)
           THEN /\ pending' = [pending EXCEPT ![n] = @ \ {c}]
                /\ cur' = [cur EXCEPT ![n] = c]
                /\ Goto(n, "deliver")
           ELSE UNCHANGED <<pending, cur, loop>>
    /\ batch' = [batch EXCEPT ![n] = Tail(@)]
    /\ UNCHANGED <<calls, outgoing, box, nested, served, counters>>

(* The rendezvous of "ch <- dMsg" with the select of Invoke. *)
Deliver(n) ==
    /\ loop[n] = "deliver"
    /\ pc[cur[n]] = "select"
    /\ pc' = [pc EXCEPT ![cur[n]] = "leave"]
    /\ result' = [result EXCEPT ![cur[n]] = "response"]
    /\ cur' = [cur EXCEPT ![n] = None]
    /\ Goto(n, "handle")
    /\ UNCHANGED <<call, pending, outgoing, box, batch, nested, served, counters>>

(* handleRequest: the method runs in this goroutine.  Invoke leaves the    *)
(* channel unset, so every request is for channel 0, whose handler, the    *)
(* controller server, is registered before the loop is started.            *)
HandleRequest(n) ==
    /\ NextIs(n, "request")
    /\ LET c == Head(batch[n]).id
       IN  /\ served' = [served EXCEPT ![c] = @ + 1]
           /\ cur' = [cur EXCEPT ![n] = c]
    /\ Goto(n, "method")
    /\ UNCHANGED <<calls, pending, outgoing, box, batch, nested, counters>>

(* The method finds the volume owned by yet another node, and delegates to *)
(* it with the context of Handle, which has no deadline.                   *)
Delegate(n, c, to) ==
    /\ Delegating
    /\ loop[n] = "method"
    /\ nested[n] = None
    /\ Schedule(n, c, to, FALSE)
    /\ nested' = [nested EXCEPT ![n] = c]
    /\ UNCHANGED <<box, loop, batch, cur, served, counters>>

(* The method returns, and its response is queued. *)
ReplyDropped_Never(n) == FALSE
ReplyDropped(n) == Len(outgoing[n]) > ReplyLimit

HandleRequestDone(n) ==
    /\ loop[n] = "method"
    /\ nested[n] # None => pc[nested[n]] = "returned"
    /\ outgoing' = IF ReplyDropped(n) THEN outgoing
                   ELSE [outgoing EXCEPT ![n] = Append(@, Response(n, Head(batch[n])))]
    /\ batch' = [batch EXCEPT ![n] = Tail(@)]
    /\ cur' = [cur EXCEPT ![n] = None]
    /\ nested' = [nested EXCEPT ![n] = None]
    /\ Goto(n, "handle")
    /\ UNCHANGED <<calls, pending, box, served, counters>>

(* Every message is handled: the mutex is taken to send what is queued. *)
HandleBatchDone(n) ==
    /\ loop[n] = "handle"
    /\ batch[n] = <<>>
    /\ Goto(n, "flush")
    /\ UNCHANGED <<calls, pending, outgoing, box, batch, cur, nested, served, counters>>

Recipient(n, to) == IF to = Local THEN n ELSE to

Posted(n) == LET m == Head(outgoing[n])
             IN  [box EXCEPT ![Recipient(n, m.to)] = <<m>> \o @]

FlushSend(n) ==
    /\ loop[n] = "flush"
    /\ outgoing[n] # <<>>
    /\ box' = Posted(n)
    /\ outgoing' = [outgoing EXCEPT ![n] = Tail(@)]
    /\ UNCHANGED <<calls, pending, loop, batch, cur, nested, served, counters>>

(* Send returns an error, which is logged: the message is not kept. *)
AfterFailure_Retry(n) == outgoing
AfterFailure(n) == [outgoing EXCEPT ![n] = Tail(@)]

FlushSendFailed(n) ==
    /\ loop[n] = "flush"
    /\ outgoing[n] # <<>>
    /\ errors < MaxErrors
    /\ errors' = errors + 1
    /\ box' \in {box, Posted(n)}
    /\ outgoing' = AfterFailure(n)
    /\ UNCHANGED <<calls, pending, loop, batch, cur, nested, served, crashes>>

FlushDone(n) ==
    /\ loop[n] = "flush"
    /\ outgoing[n] = <<>>
    /\ Goto(n, "recv")
    /\ UNCHANGED <<calls, pending, outgoing, box, batch, cur, nested, served, counters>>

(* The driver dies, with its callers, and restarts; mailboxes survive. *)
Crash(n) ==
    /\ crashes < MaxCrashes
    /\ crashes' = crashes + 1
    /\ LET mine == {c \in Call : call[c].from = n /\ pc[c] # "returned"}
       IN  /\ pc' = [c \in Call |-> IF c \in mine THEN "returned" ELSE pc[c]]
           /\ result' = [c \in Call |-> IF c \in mine THEN "crashed" ELSE result[c]]
    /\ pending' = [pending EXCEPT ![n] = {}]
    /\ outgoing' = [outgoing EXCEPT ![n] = <<>>]
    /\ batch' = [batch EXCEPT ![n] = <<>>]
    /\ cur' = [cur EXCEPT ![n] = None]
    /\ nested' = [nested EXCEPT ![n] = None]
    /\ Goto(n, "recv")
    /\ UNCHANGED <<call, box, served, errors>>

HandleStep(n) ==
    \/ HandleRecv(n) \/ HandleResponse(n) \/ Deliver(n) \/ HandleRequest(n)
    \/ HandleRequestDone(n) \/ HandleBatchDone(n) \/ FlushSend(n) \/ FlushDone(n)

Next ==
    \/ \E n \in Node, c \in Call, to \in Node \cup {Local} :
          \/ \E deadline \in Deadline : Invoke(n, c, to, deadline)
          \/ Delegate(n, c, to)
    \/ \E c \in Call : Timeout(c) \/ Return(c)
    \/ \E n \in Node :
          \/ HandleStep(n) \/ HandleRecvFailed(n) \/ FlushSendFailed(n) \/ Crash(n)

Spec == Init /\ [][Next]_vars

(* A goroutine that can go on does, and a timer that is due fires; a       *)
(* method that runs returns, and the mailbox answers in the end.           *)
Fairness ==
    /\ \A n \in Node : WF_vars(HandleStep(n))
    /\ \A c \in Call : WF_vars(Timeout(c)) /\ SF_vars(Return(c))

FairSpec == Spec /\ Fairness

-----------------------------------------------------------------------------
(* The shape of the state (diskrpc.go:51-63, 176-216). *)
TypeOK ==
    /\ call \in [Call -> [from : Node \cup {Local}, to : Node \cup {Local},
                          deadline : BOOLEAN]]
    /\ pc \in [Call -> {"new", "select", "leave", "returned"}]
    /\ result \in [Call -> {"none", "response", "timeout", "exhausted", "crashed"}]
    /\ pending \in [Node -> SUBSET Call]
    /\ outgoing \in [Node -> Seq(Message)]
    /\ box \in [Node -> Seq(Message)]
    /\ batch \in [Node -> Seq(Message)]
    /\ loop \in [Node -> {"recv", "handle", "deliver", "method", "flush"}]
    /\ cur \in [Node -> Call \cup {None}]
    /\ nested \in [Node -> Call \cup {None}]
    /\ served \in [Call -> Nat]
    /\ errors \in 0..MaxErrors /\ crashes \in 0..MaxCrashes

(* A method runs at most once per call although Send and Recv may fail     *)
(* after they took place and drivers crash; a caller that gets a response  *)
(* had its method run (diskrpc.go:204-214, 240-310).                       *)
AtMostOnce ==
    \A c \in Call :
        /\ served[c] <= 1
        /\ result[c] = "response" => served[c] = 1

(* "Pending requests, indexed by id" (diskrpc.go:58-59): exactly the calls *)
(* that still wait, so that no response misses its caller and no entry is  *)
(* left behind by a call that is over (diskrpc.go:127, 138-142, 223-235).  *)
PendingAreWaiting ==
    \A n \in Node, c \in Call :
        /\ c \in pending[n] => call[c].from = n /\ pc[c] \in {"select", "leave"}
        /\ (pc[c] = "select" /\ call[c].from = n /\ c \notin pending[n])
              => loop[n] = "deliver" /\ cur[n] = c

(* The limits of the queue hold whatever the order in which the callers    *)
(* and Handle append to it: no request is queued behind more than          *)
(* QueueLimit messages, and responses never grow the queue beyond          *)
(* ReplyLimit + 1 (diskrpc.go:123-126, 299-303).                           *)
QueueBounded ==
    \A n \in Node :
        /\ Len(outgoing[n]) <= ReplyLimit + 1
        /\ \A i \in DOMAIN outgoing[n] :
              outgoing[n][i].type = "request" => i <= QueueLimit + 1

(* A call with a deadline returns, even if messages are lost, its target   *)
(* is down or a Handle loop is stuck (diskrpc.go:138-160).                 *)
DeadlineReturns ==
    \A c \in Call : (pc[c] = "select" /\ call[c].deadline) ~> (pc[c] = "returned")

(* "Handle incoming and outgoing messages." (diskrpc.go:44): every node's  *)
(* loop comes back to its mailbox (diskrpcservice.go:152-167).             *)
HandleKeepsRunning == \A n \in Node : []<>(loop[n] = "recv")

(* A loop that stops coming back waits for ever in one of two places: for  *)
(* a caller that has timed out to take its response, or for the call that  *)
(* its method has made.  Sends and Recvs that fail, messages lost,         *)
(* timeouts, crashes and responses to calls of a former life stop no loop  *)
(* otherwise (diskrpc.go:176-238, diskrpcservice.go:152-167).              *)
HandleSurvivesErrors ==
    \A n \in Node :
        \/ []<>(loop[n] = "recv")
        \/ <>[](loop[n] = "deliver" /\ result[cur[n]] = "timeout")
        \/ <>[](loop[n] = "method" /\ nested[n] # None)

(* "If no explicit deadline is set, we use a standard timeout value."      *)
(* (diskrpc.go:149): a call without a deadline returns too.                *)
NoDeadlineReturns ==
    \A c \in Call : (pc[c] = "select" /\ ~call[c].deadline) ~> (pc[c] = "returned")
=============================================================================
