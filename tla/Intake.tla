------------------------------- MODULE Intake -------------------------------
(***************************************************************************)
(* Everything around the queue: the ingest API, the queue, the workers and *)
(* the operator's two commands that publish again, reconcile and dlq       *)
(* replay (api/routes.py, queue/, worker.py, processor.py, ledger.py,      *)
(* cli.py, dlq/store.py).  An uploader is reduced to the rows it claims,   *)
(* reads and writes back; module Uploader details it.                      *)
(*                                                                         *)
(* No transaction here locks the row it reads, so a read and the commit    *)
(* that depends on it are two steps.                                       *)
(***************************************************************************)
EXTENDS EventLifecycle, Consent, Naturals

CONSTANTS
    Event,       \* the event ids the CRM sends
    Leads,       \* what a valid webhook can carry
    Workers,     \* worker processes
    Operators,   \* operators running dlq replay
    Uploaders,   \* uploader processes
    MaxReplays   \* bound: replays of one event

IdKinds == {"good", "bad", "keyless", "none"}
LeadType == [consent : Consents, click : BOOLEAN, ids : IdKinds]

ASSUME LeadsAssumption == Leads \subseteq LeadType
ASSUME MaxReplaysAssumption == MaxReplays \in Nat

VARIABLES
    status,        \* events.status, or "ABSENT" while there is no row
    lead,          \* what the row was created from
    hashed,        \* events.hashed_identifiers
    dead_letters,  \* dead letters the event has had so far
    open_dlq,      \* the ones of them not replayed yet, by number
    outbox,        \* events committed by a request that has not published yet
    queue,         \* messages not yet acknowledged for good
    lost,          \* events whose first message never reached the queue
    told,          \* the last answer the CRM got for the event
    stuck,         \* rows a running reconcile has listed and will republish
    worker,        \* what each worker is doing
    operator,      \* what each operator's replay is doing
    loaded         \* rows each uploader's transaction has read as UPLOADING

ledger == <<status, lead, hashed, dead_letters, open_dlq>>
vars == <<ledger, outbox, queue, lost, told, stuck, worker, operator, loaded>>

-----------------------------------------------------------------------------

(* A rejected request's row has its id and no other column of the lead.    *)
Blank(ids) ==
    [consent |-> [ad_user_data |-> "MISSING", ad_personalization |-> "MISSING"],
     click |-> FALSE, ids |-> ids]
Garbage == Blank("invalid")
NoLead == Blank("no row")

HashedKinds == {"null", "digests", "blank"}

Messages == [event : Event, ids : IdKinds]
NullMessage(e) == [event |-> e, ids |-> "null"]    \* slip: identifiers=None
EmptyMessage(e) == [event |-> e, ids |-> "none"]

Resting == [step |-> "idle"]
Idle(p) == p.step = "idle"

-----------------------------------------------------------------------------
(* The ingest API                                                          *)

(* ON CONFLICT DO NOTHING: only an id that has no row is inserted.         *)
Upserted(e) == TRUE      \* slip: ON CONFLICT DO UPDATE
Inserted(e) == status[e] = "ABSENT"

(* record_validated on a new id: the row is inserted and walked to QUEUED  *)
(* in one transaction; the publish comes after the commit.                 *)
IngestNew(e) ==
    /\ Inserted(e)
    /\ CanMove("RECEIVED", "VALIDATED") /\ CanMove("VALIDATED", "QUEUED")
    /\ status' = [status EXCEPT ![e] = "QUEUED"]
    /\ \E l \in Leads : lead' = [lead EXCEPT ![e] = l]
    /\ outbox' = outbox \cup {e}
    /\ UNCHANGED <<hashed, dead_letters, open_dlq, queue, lost, told, stuck, worker,
                   operator, loaded>>

(* The same id again: ON CONFLICT DO NOTHING, 200 and no publish.          *)
IngestDuplicate(e) ==
    /\ status[e] # "ABSENT"
    /\ told' = [told EXCEPT ![e] = "200"]
    /\ UNCHANGED <<ledger, outbox, queue, lost, stuck, worker, operator, loaded>>

(* A request that authenticated but does not validate: 422, and a REJECTED *)
(* row unless the id is already taken.                                     *)
IngestInvalid(e) ==
    /\ told' = [told EXCEPT ![e] = "422"]
    /\ IF status[e] = "ABSENT"
       THEN /\ CanMove("RECEIVED", "REJECTED")
            /\ status' = [status EXCEPT ![e] = "REJECTED"]
            /\ lead' = [lead EXCEPT ![e] = Garbage]
       ELSE UNCHANGED <<status, lead>>
    /\ UNCHANGED <<hashed, dead_letters, open_dlq, outbox, queue, lost, stuck, worker,
                   operator, loaded>>

(* Whatever publish reports, the message reached the queue or it did not:  *)
(* a publish that timed out may still have been received.                  *)
Send(e) ==
    /\ outbox' = outbox \ {e}
    /\ \/ /\ queue' = queue \cup {[event |-> e, ids |-> lead[e].ids]}
          /\ UNCHANGED lost
       \/ /\ lost' = lost \cup {e}
          /\ UNCHANGED queue

(* The publish after the commit; a failure is only logged and the CRM is   *)
(* told 202 all the same.                                                  *)
Publish(e) ==
    /\ e \in outbox
    /\ Send(e)
    /\ told' = [told EXCEPT ![e] = "202"]
    /\ UNCHANGED <<ledger, stuck, worker, operator, loaded>>

(* The API dies after the commit, before or after the publish.             *)
ApiCrash(e) ==
    /\ e \in outbox
    /\ Send(e)
    /\ UNCHANGED <<ledger, told, stuck, worker, operator, loaded>>

-----------------------------------------------------------------------------
(* The workers                                                             *)

(* receive a message and read its row.  The message stays in the queue     *)
(* until it is acknowledged, so it can be delivered again meanwhile.       *)
Receive(w, m) ==
    /\ Idle(worker[w])
    /\ m \in queue
    /\ worker' = [worker EXCEPT ![w] =
            [step |-> "read", message |-> m, status |-> status[m.event],
             hashed |-> hashed[m.event]]]
    /\ UNCHANGED <<ledger, outbox, queue, lost, told, stuck, operator, loaded>>

(* build_user_identifiers finds a fault no click id excuses, or no match   *)
(* key where there is no click id either.                                  *)
BadOnly(ids, l) == ids = "bad"      \* slip: NO_MATCH_KEY is never a rejection
Rejects(ids, l) == ids = "bad" \/ (ids \in {"none", "keyless"} /\ ~l.click)

(* Nothing on the message, digests on the row: reuse them.                 *)
NeverReuses(job) == FALSE      \* slip: normalise the empty message instead
Reuses(job) == job.message.ids = "none" /\ job.hashed # "null"

(* The status process_message moves the row to.                            *)
Verdict(job, l) ==
    IF ~Permitted(l.consent) THEN "SUPPRESSED"
    ELSE IF Reuses(job) THEN "PROCESSED"
    ELSE IF Rejects(job.message.ids, l) THEN "REJECTED"
    ELSE "PROCESSED"

(* What record_processed writes into hashed_identifiers.                   *)
Digests(job) ==
    IF Reuses(job) THEN job.hashed
    ELSE IF job.message.ids = "good" THEN "digests" ELSE "blank"

(* process_message on a row read as QUEUED: checked against the row as it  *)
(* was read, written over the row as it is.                                *)
Process(w) ==
    LET job == worker[w]
        e == job.message.event
    IN
    /\ job.step = "read"
    /\ job.status = "QUEUED"
    /\ CanMove(job.status, Verdict(job, lead[e]))
    /\ status' = [status EXCEPT ![e] = Verdict(job, lead[e])]
    /\ hashed' = IF Verdict(job, lead[e]) = "PROCESSED"
                 THEN [hashed EXCEPT ![e] = Digests(job)] ELSE hashed
    /\ worker' = [worker EXCEPT ![w] = [step |-> "ack", message |-> job.message]]
    /\ UNCHANGED <<lead, dead_letters, open_dlq, outbox, queue, lost, told, stuck,
                   operator, loaded>>

(* The row is not QUEUED (or not there): nothing to do.                    *)
Skip(w) ==
    /\ worker[w].step = "read"
    /\ worker[w].status # "QUEUED"
    /\ worker' = [worker EXCEPT ![w] = [step |-> "ack", message |-> worker[w].message]]
    /\ UNCHANGED <<ledger, outbox, queue, lost, told, stuck, operator, loaded>>

(* ack after the commit.                                                   *)
Ack(w) ==
    /\ worker[w].step = "ack"
    /\ queue' = queue \ {worker[w].message}
    /\ worker' = [worker EXCEPT ![w] = Resting]
    /\ UNCHANGED <<ledger, outbox, lost, told, stuck, operator, loaded>>

(* The worker crashes, its transaction fails and it nacks, or its ack      *)
(* comes after the deadline: the message is delivered again.               *)
AckAnyway(w) ==                \* slip: ack in a finally clause
    /\ ~Idle(worker[w])
    /\ worker' = [worker EXCEPT ![w] = Resting]
    /\ queue' = queue \ {worker[w].message}
    /\ UNCHANGED <<ledger, outbox, lost, told, stuck, operator, loaded>>

Redeliver(w) ==
    /\ ~Idle(worker[w])
    /\ worker' = [worker EXCEPT ![w] = Resting]
    /\ UNCHANGED <<ledger, outbox, queue, lost, told, stuck, operator, loaded>>

-----------------------------------------------------------------------------
(* The uploaders, reduced to the rows they claim, read and write back      *)

(* Every dead letter of an event is open under the next number.            *)
DeadLettered(dead) ==
    /\ dead_letters' = [e \in Event |->
            IF e \in dead THEN dead_letters[e] + 1 ELSE dead_letters[e]]
    /\ open_dlq' = [e \in Event |->
            IF e \in dead THEN open_dlq[e] \cup {dead_letters[e] + 1} ELSE open_dlq[e]]

(* One transaction writes the rows in the domain of moves, whatever they   *)
(* are now.                                                                *)
Writes(moves) ==
    /\ status' = [e \in Event |-> IF e \in DOMAIN moves THEN moves[e] ELSE status[e]]
    /\ DeadLettered({e \in DOMAIN moves : moves[e] = "DEAD_LETTERED"})
    /\ UNCHANGED <<lead, hashed, outbox, queue, lost, told, stuck, worker, operator>>

(* A row in the pool, or one with an uploader that may be dead.  UPLOADING *)
(* stands for FAILED_RETRYABLE too: in the pool again, but not undecided.  *)
Claimable(e) == status[e] \in {"PROCESSED", "UPLOADING"}

(* A claim locks its rows; it buries those that were tried too often.      *)
Claim(u) ==
    /\ loaded[u] = {}
    /\ \E S \in SUBSET Event :
        /\ S # {}
        /\ \A e \in S : Claimable(e)
        /\ \E moves \in [S -> {"UPLOADING", "DEAD_LETTERED"}] : Writes(moves)
    /\ UNCHANGED loaded

(* The transaction that writes the outcome reads its rows, unlocked.       *)
Load(u) ==
    /\ loaded[u] = {}
    /\ \E S \in SUBSET {e \in Event : status[e] = "UPLOADING"} :
        loaded' = [loaded EXCEPT ![u] = S]
    /\ UNCHANGED <<ledger, outbox, queue, lost, told, stuck, worker, operator>>

(* Its commit: each row read is uploaded, buried or back in the pool.      *)
Settle(u) ==
    /\ loaded[u] # {}
    /\ \E moves \in [loaded[u] -> {"UPLOADED", "UPLOADING", "DEAD_LETTERED"}] :
        Writes(moves)
    /\ loaded' = [loaded EXCEPT ![u] = {}]

(* The transaction ends without an outcome: a retry of the batch, a        *)
(* transition the ledger refuses, a crash.                                 *)
Drop(u) ==
    /\ loaded[u] # {}
    /\ loaded' = [loaded EXCEPT ![u] = {}]
    /\ UNCHANGED <<ledger, outbox, queue, lost, told, stuck, worker, operator>>

-----------------------------------------------------------------------------
(* The operator                                                            *)

(* A row the ledger can rebuild a message for.                             *)
AllRecoverable(e) == TRUE           \* slip: republish every stuck row
HashedOnly(e) == hashed[e] # "null" \* slip: click-id rows forgotten
Recoverable(e) == lead[e].click \/ hashed[e] # "null"

(* reconcile --republish lists what was received long ago and is QUEUED    *)
(* now, whether or not a message is still on its way; it publishes after   *)
(* the session is closed.                                                  *)
ReconcileRead(e) ==
    /\ status[e] = "QUEUED"
    /\ Recoverable(e)
    /\ stuck' = stuck \cup {e}
    /\ UNCHANGED <<ledger, outbox, queue, lost, told, worker, operator, loaded>>

ReconcilePublish(e) ==
    /\ e \in stuck
    /\ stuck' = stuck \ {e}
    /\ queue' = queue \cup {EmptyMessage(e)}
    /\ UNCHANGED <<ledger, outbox, lost, told, worker, operator, loaded>>

(* A publish raises, or the command is interrupted.                        *)
ReconcileAbort ==
    /\ stuck # {}
    /\ stuck' = {}
    /\ UNCHANGED <<ledger, outbox, queue, lost, told, worker, operator, loaded>>

(* dlq replay: the dead letter and the row are read and found replayable.  *)
ReplayRead(o) ==
    /\ Idle(operator[o])
    /\ \E e \in Event : \E d \in open_dlq[e] :
        /\ status[e] = "DEAD_LETTERED"
        /\ dead_letters[e] <= MaxReplays
        /\ operator' = [operator EXCEPT ![o] =
               [step |-> "read", event |-> e, row |-> d]]
    /\ UNCHANGED <<ledger, outbox, queue, lost, told, stuck, worker, loaded>>

(* The publish is inside the transaction, before its commit.               *)
ReplayPublish(o) ==
    /\ operator[o].step = "read"
    /\ queue' = queue \cup {EmptyMessage(operator[o].event)}
    /\ operator' = [operator EXCEPT ![o].step = "published"]
    /\ UNCHANGED <<ledger, outbox, lost, told, stuck, worker, loaded>>

ReplayCommit(o) ==
    LET e == operator[o].event IN
    /\ operator[o].step = "published"
    /\ CanMove("DEAD_LETTERED", "QUEUED")
    /\ status' = [status EXCEPT ![e] = "QUEUED"]
    /\ open_dlq' = [open_dlq EXCEPT ![e] = @ \ {operator[o].row}]
    /\ operator' = [operator EXCEPT ![o] = Resting]
    /\ UNCHANGED <<lead, hashed, dead_letters, outbox, queue, lost, told, stuck, worker,
                   loaded>>

(* The publish raises, the commit fails or the command is interrupted: the *)
(* ledger rolls back, a message already published stays.                   *)
ReplayAbort(o) ==
    /\ ~Idle(operator[o])
    /\ operator' = [operator EXCEPT ![o] = Resting]
    /\ UNCHANGED <<ledger, outbox, queue, lost, told, stuck, worker, loaded>>

-----------------------------------------------------------------------------

Init ==
    /\ status = [e \in Event |-> "ABSENT"]
    /\ lead = [e \in Event |-> NoLead]
    /\ hashed = [e \in Event |-> "null"]
    /\ dead_letters = [e \in Event |-> 0]
    /\ open_dlq = [e \in Event |-> {}]
    /\ outbox = {}
    /\ queue = {}
    /\ lost = {}
    /\ told = [e \in Event |-> "nothing"]
    /\ stuck = {}
    /\ worker = [w \in Workers |-> Resting]
    /\ operator = [o \in Operators |-> Resting]
    /\ loaded = [u \in Uploaders |-> {}]

Ingest(e) ==
    \/ IngestNew(e) \/ IngestDuplicate(e) \/ IngestInvalid(e)
    \/ Publish(e) \/ ApiCrash(e)
Work(w) ==
    \/ \E m \in queue : Receive(w, m)
    \/ Process(w) \/ Skip(w) \/ Ack(w) \/ Redeliver(w)
Reconcile ==
    \/ \E e \in Event : ReconcileRead(e) \/ ReconcilePublish(e)
    \/ ReconcileAbort
Upload(u) == Claim(u) \/ Load(u) \/ Settle(u) \/ Drop(u)
Replay(o) == ReplayRead(o) \/ ReplayPublish(o) \/ ReplayCommit(o) \/ ReplayAbort(o)

Next ==
    \/ \E e \in Event : Ingest(e)
    \/ \E u \in Uploaders : Upload(u)
    \/ \E w \in Workers : Work(w)
    \/ Reconcile
    \/ \E o \in Operators : Replay(o)

Spec == Init /\ [][Next]_vars

(* Taking a message of e in hand, and handling one to its commit.          *)
Takes(e) == \E w \in Workers : \E m \in queue : m.event = e /\ Receive(w, m)
Handles(e) == \E w \in Workers :
    worker[w].step = "read" /\ worker[w].message.event = e /\ Process(w)

(* Requests end, worker steps end, a message that is available again and   *)
(* again is delivered and does not fail for ever, and the operator acts on *)
(* the stuck-events alert by running reconcile --republish until it gets   *)
(* through.  Crashes, redeliveries and lost publishes stay unlimited.      *)
Fairness ==
    /\ \A e \in Event : /\ WF_vars(Publish(e) \/ ApiCrash(e))
                         /\ SF_vars(Takes(e))
                         /\ SF_vars(Handles(e))
                         /\ WF_vars(ReconcileRead(e))
                         /\ SF_vars(ReconcilePublish(e))
    /\ \A w \in Workers : WF_vars(Process(w) \/ Skip(w) \/ Ack(w) \/ Redeliver(w))

FairSpec == Spec /\ Fairness

(* The CRM resends what the operator asks it to.                           *)
ResendSpec == FairSpec /\ \A e \in Event : WF_vars(IngestDuplicate(e))

-----------------------------------------------------------------------------
(* Properties                                                              *)

Jobs ==
    {Resting}
        \cup [step : {"read"}, message : Messages,
              status : Statuses \cup {"ABSENT"}, hashed : HashedKinds]
        \cup [step : {"ack"}, message : Messages]
Replays == {Resting} \cup [step : {"read", "published"}, event : Event, row : Nat]

(* Every variable has its type.                                            *)
TypeOK ==
    /\ status \in [Event -> Statuses \cup {"ABSENT"}]
    /\ lead \in [Event -> Leads \cup {NoLead, Garbage}]
    /\ hashed \in [Event -> HashedKinds]
    /\ dead_letters \in [Event -> Nat]
    /\ open_dlq \in [Event -> SUBSET Nat]
    /\ outbox \subseteq Event
    /\ queue \subseteq Messages
    /\ lost \subseteq Event
    /\ told \in [Event -> {"nothing", "200", "202", "422"}]
    /\ stuck \subseteq Event
    /\ worker \in [Workers -> Jobs]
    /\ operator \in [Operators -> Replays]
    /\ loaded \in [Uploaders -> SUBSET Event]

(* Past the processor, on the way to the platform or back from it.         *)
PastGate == {"PROCESSED", "UPLOADING", "UPLOADED", "DEAD_LETTERED"}

(* No event gets past the processor without both consent signals GRANTED,  *)
(* whatever is delivered twice, republished or replayed, and however many  *)
(* workers race (processor.process_message).                               *)
ConsentGate ==
    \A e \in Event : status[e] \in PastGate =>
        /\ lead[e] \in Leads
        /\ lead[e].consent.ad_user_data = "GRANTED"
        /\ lead[e].consent.ad_personalization = "GRANTED"

(* Nothing reaches the uploader that the platform could not match: a click *)
(* id on the row or digests in it.  A republished message with nothing on  *)
(* it must not wipe or stand in for them (processor.process_message).      *)
MatchKeyPresent ==
    \A e \in Event : status[e] \in PastGate =>
        lead[e].click \/ hashed[e] = "digests"

(* An event is only REJECTED for a fault of its own, never because it was  *)
(* republished or replayed without its identifiers (cli.reconcile,         *)
(* dlq.replay, processor.process_message).                                 *)
RejectedForCause ==
    \A e \in Event : status[e] = "REJECTED" =>
        \/ lead[e] = Garbage
        \/ lead[e].ids = "bad"
        \/ lead[e].ids \in {"keyless", "none"} /\ ~lead[e].click

(* A QUEUED row that was never dead-lettered, and whose publish is neither *)
(* pending nor failed, has a message on its way to a worker: however many  *)
(* workers race, acknowledgements never outrun commits                     *)
(* (worker.handle_delivery).                                               *)
QueuedHasMessage ==
    \A e \in Event :
        status[e] = "QUEUED" /\ dead_letters[e] = 0 /\ e \notin outbox \cup lost =>
            \E m \in queue : m.event = e

(* What documents say and the code does not do *)

(* dlq.replay's comment: "publish after the ledger write, same ordering as *)
(* ingest"; a replayed row then has its message from the moment it is      *)
(* QUEUED (dlq/store.py).                                                  *)
ReplayedHasMessage ==
    \A e \in Event : status[e] = "QUEUED" /\ dead_letters[e] > 0 =>
        \E m \in queue : m.event = e

(* RUNBOOK section 2.4: an event stuck because its publish was lost is     *)
(* recovered by reconcile or by the client sending it again.               *)
StuckEventsRecover ==
    \A e \in Event : status[e] = "QUEUED" ~> status[e] # "QUEUED"

=============================================================================
