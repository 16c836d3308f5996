--------------------------- MODULE QueueContract ---------------------------
(***************************************************************************)
(* What queue.h promises the C of xQueueGenericSend, xQueueReceive and     *)
(* xQueuePeek on one queue, with no kernel, no scheduler and no retries:   *)
(* a call takes effect at one instant between being made and returning, or *)
(* is refused at an instant when it could not take effect and its block    *)
(* time had run out.                                                       *)
(***************************************************************************)
EXTENDS Naturals, Sequences

CONSTANTS Tasks, Capacity, MaxWait, Requests, InterruptRequests, None

VARIABLES
  content,  \* the items in the queue, oldest first
  request,  \* per task: the call it has made, or None
  outcome,  \* per task: pending, passed or failed
  value,    \* per task: the item a passed receive or peek delivers
  waited    \* per task: how much block time the call has used, up to MaxWait

vars == <<content, request, outcome, value, waited>>

Possible(r) ==
  IF r.op = "send" THEN r.position = "overwrite" \/ Len(content) < Capacity
                   ELSE content # <<>>

(* Back keeps arrival order, front overtakes, overwrite replaces; a peek   *)
(* leaves the item it delivers.                                            *)
Effect(r) ==
  CASE r.op = "send" /\ r.position = "back"      -> content' = Append(content, r.item)
    [] r.op = "send" /\ r.position = "front"     -> content' = <<r.item>> \o content
    [] r.op = "send" /\ r.position = "overwrite" -> content' = <<r.item>>
    [] r.op = "receive"                          -> content' = Tail(content)
    [] r.op = "peek"                             -> UNCHANGED content

Invoke(t, r) ==
  /\ request[t] = None
  /\ request' = [request EXCEPT ![t] = r]
  /\ outcome' = [outcome EXCEPT ![t] =
       IF r.op = "send" /\ r.position = "bad" THEN "failed" ELSE "pending"]
  /\ waited' = [waited EXCEPT ![t] = 0]
  /\ UNCHANGED <<content, value>>

Pass(t) ==
  /\ request[t] # None /\ outcome[t] = "pending"
  /\ Possible(request[t])
  /\ Effect(request[t])
  /\ outcome' = [outcome EXCEPT ![t] = "passed"]
  /\ value' = [value EXCEPT ![t] =
       IF request[t].op = "send" THEN None ELSE Head(content)]
  /\ UNCHANGED <<request, waited>>

Refuse(t) ==
  /\ request[t] # None /\ outcome[t] = "pending"
  /\ ~Possible(request[t])
  /\ waited[t] >= request[t].ticks
  /\ outcome' = [outcome EXCEPT ![t] = "failed"]
  /\ UNCHANGED <<content, request, value, waited>>

Deliver(t) ==
  /\ request[t] # None /\ outcome[t] # "pending"
  /\ request' = [request EXCEPT ![t] = None]
  /\ outcome' = [outcome EXCEPT ![t] = "pending"]
  /\ value' = [value EXCEPT ![t] = None]
  /\ UNCHANGED <<content, waited>>

(* Time passes for the calls under way; an interrupt may use the queue.    *)
Time ==
  /\ waited' = [t \in Tasks |->
       IF request[t] # None /\ waited[t] < MaxWait THEN waited[t] + 1 ELSE waited[t]]
  /\ \/ UNCHANGED content
     \/ \E r \in InterruptRequests : Possible(r) /\ Effect(r)
  /\ UNCHANGED <<request, outcome, value>>

(* A call may be told to stop waiting.                                     *)
Abort(t) ==
  /\ request[t] # None
  /\ waited' = [waited EXCEPT ![t] = MaxWait]
  /\ UNCHANGED <<content, request, outcome, value>>

Init ==
  /\ content = <<>>
  /\ request = [t \in Tasks |-> None]
  /\ outcome = [t \in Tasks |-> "pending"]
  /\ value = [t \in Tasks |-> None]
  /\ waited = [t \in Tasks |-> 0]

Next ==
  \/ \E t \in Tasks : \/ \E r \in Requests[t] : Invoke(t, r)
                      \/ Pass(t) \/ Refuse(t) \/ Deliver(t) \/ Abort(t)
  \/ Time

Spec == Init /\ [][Next]_vars
=============================================================================
