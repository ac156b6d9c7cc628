---------------------------- MODULE MemoryQueue ----------------------------
(***************************************************************************)
(* The in-process queue and the threads that share it: the API's requests  *)
(* publish, worker loops receive, process and acknowledge                  *)
(* (queue/memory.py and the loop of worker.py).  Module Intake leaves the  *)
(* order of messages and the waiting of workers out; they are kept here.   *)
(*                                                                         *)
(* Every method holds the Condition's lock, so each is one step; receive   *)
(* is two when it waits, because wait gives the lock up.                   *)
(***************************************************************************)
EXTENDS Integers, Sequences, FiniteSets

CONSTANTS
    Message,      \* the messages that get published, each of them once
    Poison,       \* the ones whose processing always raises
    Consumers,    \* worker loops
    MaxMessages   \* batch_size of a worker loop

ASSUME PoisonAssumption == Poison \subseteq Message
ASSUME ConsumersAssumption == IsFiniteSet(Consumers)
ASSUME MaxMessagesAssumption == MaxMessages \in Nat \ {0}

VARIABLES
    published,    \* messages published so far
    ready,        \* _ready
    inflight,     \* _inflight
    acked,        \* messages acknowledged
    pc,           \* where each worker loop is
    deliveries    \* what its last receive returned and it has not handled

vars == <<published, ready, inflight, acked, pc, deliveries>>

-----------------------------------------------------------------------------

(* Condition.notify: one thread that waits is woken, if there is one.      *)
Waiting(p) == {c \in Consumers : p[c] = "waiting"}
Silent(p) == {p}     \* slip: no notify
Notified(p) ==
    IF Waiting(p) = {} THEN {p}
    ELSE {[p EXCEPT ![c] = "woken"] : c \in Waiting(p)}

Publish(m) ==
    /\ m \notin published
    /\ published' = published \cup {m}
    /\ ready' = Append(ready, m)
    /\ pc' \in Notified(pc)
    /\ UNCHANGED <<inflight, acked, deliveries>>

-----------------------------------------------------------------------------
(* receive                                                                 *)

(* Nothing is ready: the thread waits, for poll_timeout_seconds at most.   *)
Wait(c) ==
    /\ pc[c] = "start"
    /\ ready = <<>>
    /\ pc' = [pc EXCEPT ![c] = "waiting"]
    /\ UNCHANGED <<published, ready, inflight, acked, deliveries>>

TimeOut(c) ==
    /\ pc[c] = "waiting"
    /\ pc' = [pc EXCEPT ![c] = "woken"]
    /\ UNCHANGED <<published, ready, inflight, acked, deliveries>>

(* How many messages a receive takes.                                      *)
Taken == IF Len(ready) < MaxMessages THEN Len(ready) ELSE MaxMessages

(* The rest of receive.  A thread that was woken looks again, once: others *)
(* may have been faster, and then it returns nothing.                      *)
Take(c) ==
    /\ pc[c] = "woken" \/ (pc[c] = "start" /\ ready # <<>>)
    /\ ready' = SubSeq(ready, Taken + 1, Len(ready))
    /\ deliveries' = [deliveries EXCEPT ![c] = SubSeq(ready, 1, Taken)]
    /\ inflight' = inflight \cup {ready[i] : i \in 1..Taken}
    /\ pc' = [pc EXCEPT ![c] = IF ready = <<>> THEN "start" ELSE "working"]
    /\ UNCHANGED <<published, acked>>

-----------------------------------------------------------------------------
(* handle_delivery, for each delivery in turn                              *)

(* _inflight.pop                                                           *)
LeftInFlight(m) == inflight    \* slip: the entry is read and not removed
Popped(m) == inflight \ {m}

(* The delivery is done with, and the loop goes on to the next one.        *)
Handled(c) == deliveries' = [deliveries EXCEPT ![c] = Tail(@)]
AfterHandling(c) ==
    [pc EXCEPT ![c] = IF Len(deliveries[c]) = 1 THEN "start" ELSE "working"]

(* The transaction commits and the message is acknowledged.                *)
Ack(c) ==
    /\ pc[c] = "working"
    /\ Head(deliveries[c]) \notin Poison
    /\ inflight' = Popped(Head(deliveries[c]))
    /\ acked' = acked \cup {Head(deliveries[c])}
    /\ Handled(c)
    /\ pc' = AfterHandling(c)
    /\ UNCHANGED <<published, ready>>

(* Where a message goes back to.                                           *)
ToTheFront(m) == <<m>> \o ready               \* slip: the front of the queue
WholeEntry(m) == Append(ready, <<m, "attempt">>)  \* slip: entry not unpacked
Requeued(m) == Append(ready, m)

(* Processing raises: the message goes back, and a waiting thread is told. *)
Nack(c) ==
    /\ pc[c] = "working"
    /\ IF Head(deliveries[c]) \in inflight
       THEN /\ inflight' = Popped(Head(deliveries[c]))
            /\ ready' = Requeued(Head(deliveries[c]))
            /\ pc' \in Notified(AfterHandling(c))
       ELSE /\ pc' = AfterHandling(c)
            /\ UNCHANGED <<inflight, ready>>
    /\ Handled(c)
    /\ UNCHANGED <<published, acked>>

(* The stop event, looked at between two receives.                         *)
Stop(c) ==
    /\ pc[c] = "start"
    /\ pc' = [pc EXCEPT ![c] = "stopped"]
    /\ UNCHANGED <<published, ready, inflight, acked, deliveries>>

-----------------------------------------------------------------------------

Init ==
    /\ published = {}
    /\ ready = <<>>
    /\ inflight = {}
    /\ acked = {}
    /\ pc = [c \in Consumers |-> "start"]
    /\ deliveries = [c \in Consumers |-> <<>>]

Next ==
    \/ \E m \in Message : Publish(m)
    \/ \E c \in Consumers :
        Wait(c) \/ TimeOut(c) \/ Take(c) \/ Ack(c) \/ Nack(c) \/ Stop(c)

Spec == Init /\ [][Next]_vars

Handles(c, m) == pc[c] = "working" /\ Head(deliveries[c]) = m /\ Ack(c)

(* A thread that can run does; that it is woken is left to notify and not  *)
(* to the timeout.  A message that is not poison is processed in the end   *)
(* if it is tried again and again.                                         *)
Fairness ==
    /\ \A c \in Consumers : WF_vars(Take(c)) /\ WF_vars(Ack(c) \/ Nack(c))
    /\ \A m \in Message \ Poison : SF_vars(\E c \in Consumers : Handles(c, m))

FairSpec == Spec /\ Fairness

-----------------------------------------------------------------------------
(* Properties                                                              *)

Places == {"start", "waiting", "woken", "working", "stopped"}

(* Every variable has its type.                                            *)
TypeOK ==
    /\ published \in SUBSET Message
    /\ ready \in Seq(Message)
    /\ inflight \in SUBSET Message
    /\ acked \in SUBSET Message
    /\ pc \in [Consumers -> Places]
    /\ deliveries \in [Consumers -> Seq(Message)]

(* No missed wake-up: while a thread sleeps in receive, every ready        *)
(* message has a woken thread of its own on its way to it.  receive looks  *)
(* only once after a wait, and publish and nack each wake a single thread. *)
NoMissedWakeUp ==
    Waiting(pc) # {} => Len(ready) <= Cardinality({c \in Consumers : pc[c] = "woken"})

(* A message that was published and not acknowledged is in one place: once *)
(* in the queue, or once in the hands of one worker that has yet to handle *)
(* it.  Nothing is lost and nothing is processed by two at a time.         *)
Held(c) == {deliveries[c][i] : i \in DOMAIN deliveries[c]}
Queued == {ready[i] : i \in DOMAIN ready}

NoRepeats(s) == \A i, j \in DOMAIN s : s[i] = s[j] => i = j

EachMessageOnce ==
    /\ NoRepeats(ready)
    /\ \A c \in Consumers : NoRepeats(deliveries[c])
    /\ \A c, d \in Consumers : c # d => Held(c) \cap Held(d) = {}
    /\ inflight = UNION {Held(c) : c \in Consumers}
    /\ Queued \cap inflight = {}
    /\ Queued \cup inflight = published \ acked

(* "A poison message does not starve everything behind it" (memory.py,     *)
(* nack): whatever can be processed is, as long as a worker runs.          *)
NotStarved ==
    \A m \in Message \ Poison :
        m \in published ~> (m \in acked \/ \A c \in Consumers : pc[c] = "stopped")
=============================================================================
