------------------------------- MODULE Gateway ------------------------------
(***************************************************************************)
(* The whole gateway: the intake stage and the upload stage over one       *)
(* ledger.  Module Intake reduces an uploader to the rows it claims, reads *)
(* and writes; here module Uploader takes its place, so that republished   *)
(* and replayed messages meet requests under way, and every replay meets   *)
(* the counters and dead letters of the attempts before it.                *)
(***************************************************************************)
EXTENDS EventLifecycle, Consent, Integers, FiniteSets, Sequences

CONSTANTS
    Event, Leads, Workers, Operators, MaxReplays,         \* of Intake
    Uploaders, BatchSize, MaxAttempts, MaxRowAttempts,    \* of Uploader
    Timely

VARIABLES
    status, attempt_count,                                \* events, by both
    letters,     \* failure classes of all dead letters of the event
    replayed,    \* the numbers of those with replayed_at set
    accepted, late, pc, batch, tries, result, why, seen,  \* of Uploader
    lead, hashed, outbox, queue, lost, told, stuck, worker, operator  \* of Intake

Up == INSTANCE Uploader WITH open_dlq <- letters

(* Intake sees of the dead letters how many there are and which are open.  *)
OpenLetters(e) == (DOMAIN letters[e]) \ replayed[e]

(* It knows no FAILED_RETRYABLE rows: they are still with an uploader.     *)
Reduced(s) == IF s = "FAILED_RETRYABLE" THEN "UPLOADING" ELSE s

(* Of a transaction that is open it sees which rows were read as UPLOADING.*)
Loaded(u) == {e \in Event : Reduced(seen[u][e].status) = "UPLOADING"}

In == INSTANCE Intake
    WITH dead_letters <- [e \in Event |-> Len(letters[e])],
         open_dlq <- [e \in Event |-> OpenLetters(e)],
         loaded <- [u \in Uploaders |-> Loaded(u)]

ASSUME EventAssumption == IsFiniteSet(Event)
ASSUME LeadsAssumption == Leads \subseteq In!LeadType
ASSUME MaxReplaysAssumption == MaxReplays \in Nat
ASSUME BatchSizeAssumption == BatchSize \in Nat \ {0}
ASSUME MaxAttemptsAssumption == MaxAttempts \in Nat \ {0}
ASSUME MaxRowAttemptsAssumption == MaxRowAttempts \in Nat \ {0}
ASSUME TimelyAssumption == Timely \in BOOLEAN

upload == <<accepted, late, pc, batch, tries, result, why, seen>>
intake == <<lead, hashed, outbox, queue, lost, told, stuck, worker, operator>>
vars == <<status, attempt_count, letters, replayed, upload, intake>>

-----------------------------------------------------------------------------
(* The steps of one stage leave the variables of the other alone           *)

Uploads(A) == UNCHANGED <<replayed, intake>> /\ A

Intakes(A) == UNCHANGED <<attempt_count, letters, replayed, upload>> /\ A

(* dlq.replay marks the dead letter and gives the row back its attempts.   *)
AttemptsKept(e) == attempt_count    \* slip: the old attempts still count
AttemptsReset(e) == [attempt_count EXCEPT ![e] = 0]

ReplayCommit(o) ==
    LET e == operator[o].event IN
    /\ operator[o].step = "published"
    /\ replayed' = [replayed EXCEPT ![e] = @ \cup {operator[o].row}]
    /\ attempt_count' = AttemptsReset(e)
    /\ UNCHANGED <<letters, upload>>
    /\ In!ReplayCommit(o)

-----------------------------------------------------------------------------

Init ==
    /\ status = [e \in Event |-> "ABSENT"]
    /\ attempt_count = [e \in Event |-> 0]
    /\ letters = [e \in Event |-> <<>>]
    /\ replayed = [e \in Event |-> {}]
    /\ accepted = {} /\ late = {}
    /\ pc = [u \in Uploaders |-> "idle"]
    /\ batch = [u \in Uploaders |-> <<>>]
    /\ tries = [u \in Uploaders |-> 0]
    /\ result = [u \in Uploaders |-> <<>>]
    /\ why = [u \in Uploaders |-> "none"]
    /\ seen = [u \in Uploaders |-> Up!NothingRead]
    /\ lead = [e \in Event |-> In!NoLead]
    /\ hashed = [e \in Event |-> "null"]
    /\ outbox = {} /\ queue = {} /\ lost = {} /\ stuck = {}
    /\ told = [e \in Event |-> "nothing"]
    /\ worker = [w \in Workers |-> In!Resting]
    /\ operator = [o \in Operators |-> In!Resting]

Next ==
    \/ \E e \in Event : Intakes(In!Ingest(e))
    \/ \E w \in Workers : Intakes(In!Work(w))
    \/ Intakes(In!Reconcile)
    \/ \E o \in Operators :
        \/ Intakes(In!ReplayRead(o) \/ In!ReplayPublish(o) \/ In!ReplayAbort(o))
        \/ ReplayCommit(o)
    \/ \E u \in Uploaders : Uploads(Up!Claim(u) \/ Up!Progress(u) \/ Up!Crash(u) \/ Up!Restart(u))
    \/ \E e \in Event : Uploads(Up!LateAccept(e))

Spec == Init /\ [][Next]_vars

(* The two races the code leaves open.  process_message and dlq replay     *)
(* lock no row, so two workers may both have read a row as QUEUED, and two *)
(* operators may both have read a dead letter as replayable; the slower    *)
(* commit then undoes what happened since.                                 *)
AboutToProcess(w) == worker[w].step = "read" /\ worker[w].status = "QUEUED"
Unraced ==
    /\ \A v, w \in Workers :
        v # w /\ AboutToProcess(v) /\ AboutToProcess(w)
            => worker[v].message.event # worker[w].message.event
    /\ \A o, p \in Operators :
        o # p /\ ~In!Idle(operator[o]) /\ ~In!Idle(operator[p])
            => operator[o].event # operator[p].event

(* The behaviours in which neither happens.                                *)
UnracedSpec == Init /\ [][Next /\ Unraced']_vars

(* The fairness of both stages, for the reasons given there.               *)
Fairness ==
    /\ \A e \in Event : /\ WF_vars(Intakes(In!Publish(e) \/ In!ApiCrash(e)))
                         /\ SF_vars(Intakes(In!Takes(e)))
                         /\ SF_vars(Intakes(In!Handles(e)))
                         /\ WF_vars(Intakes(In!ReconcileRead(e)))
                         /\ SF_vars(Intakes(In!ReconcilePublish(e)))
                         /\ SF_vars(Uploads(Up!ClaimsRow(e)))
    /\ \A w \in Workers :
        WF_vars(Intakes(In!Process(w) \/ In!Skip(w) \/ In!Ack(w) \/ In!Redeliver(w)))
    /\ \A u \in Uploaders :
        WF_vars(Uploads(Up!Progress(u))) /\ WF_vars(Uploads(Up!Restart(u)))

FairSpec == Spec /\ Fairness

-----------------------------------------------------------------------------
(* Properties                                                              *)

(* Every event in the hands of the platform, of an uploader or of a        *)
(* request nobody waits for any more has both consents and something to    *)
(* match it by: what the processor decided is still so when the row is     *)
(* sent, however often it was republished and replayed in between          *)
(* (processor.process_message, Uploader.upload_batch).                     *)
OnlyPermittedIsSent ==
    \A e \in accepted \cup late \cup UNION {Up!RowsOf(u) : u \in Uploaders} :
        /\ lead[e].consent.ad_user_data = "GRANTED"
        /\ lead[e].consent.ad_personalization = "GRANTED"
        /\ lead[e].click \/ hashed[e] = "digests"

(* An event that waits for its first attempt, or its first after a replay, *)
(* has its whole budget of attempts; with less, the claim would bury it    *)
(* unsent (dlq.replay resets attempt_count).                               *)
FullBudget ==
    \A e \in Event : status[e] \in {"QUEUED", "PROCESSED"} => attempt_count[e] = 0

(* Through replays and new failures an event has one dead letter open for  *)
(* replay while it is DEAD_LETTERED and none otherwise (dlq.dead_letter,   *)
(* dlq.replay).                                                            *)
OneLetterOpen ==
    \A e \in Event :
        Cardinality(OpenLetters(e)) = IF status[e] = "DEAD_LETTERED" THEN 1 ELSE 0

(* The whole gateway keeps what EventHistory promises.                     *)
Fate(e) ==
    CASE status[e] = "ABSENT" -> "unknown"
      [] status[e] = "SUPPRESSED" -> "suppressed"
      [] status[e] = "REJECTED" -> "rejected"
      [] status[e] = "UPLOADED" -> "uploaded"
      [] status[e] = "DEAD_LETTERED" -> "dead"
      [] status[e] \in {"PROCESSED", "UPLOADING", "FAILED_RETRYABLE"} -> "released"
      [] OTHER -> "undecided"

History == INSTANCE EventHistory
    WITH fate <- [e \in Event |-> Fate(e)],
         passed <- {e \in Event : hashed[e] # "null"},
         recorded <- accepted

(* Both stages over one ledger implement EventHistory: accepted once, let  *)
(* through only by the gate, settled once, reopened by an operator alone   *)
(* (worker.py, uploader.py and cli.py).                                    *)
ImplementsHistory == History!Spec

ReducedJob(job) ==
    IF job.step = "read" THEN [job EXCEPT !.status = Reduced(@)] ELSE job

Stage == INSTANCE Intake
    WITH status <- [e \in Event |-> Reduced(status[e])],
         worker <- [w \in Workers |-> ReducedJob(worker[w])],
         dead_letters <- [e \in Event |-> Len(letters[e])],
         open_dlq <- [e \in Event |-> OpenLetters(e)],
         loaded <- [u \in Uploaders |-> Loaded(u)]

(* Whatever its batches, retries, crashes and late answers, the upload     *)
(* stage does to the ledger only what Intake takes for granted of it, so   *)
(* what holds of Intake holds of the gateway: it takes rows in the pool,   *)
(* and writes back, once, the rows a transaction read as its own, over     *)
(* whatever another process has made of them since (Uploader.claim,        *)
(* Uploader.apply_result).                                                 *)
ImplementsIntake == Stage!Spec

(* Digests once written are never replaced by nothing, in whatever order   *)
(* the original, a republished and a replayed message arrive               *)
(* (processor.process_message).                                            *)
DigestsSurvive ==
    [][\A e \in Event : hashed[e] = "digests" => hashed'[e] = "digests"]_vars

(* The status column only moves along ALLOWED_TRANSITIONS                  *)
(* (models/status.py; ledger.transition checks the status it read).        *)
LegalMoves ==
    [][\A e \in Event :
        status[e] # "ABSENT" /\ status'[e] # status[e]
            => CanMove(status[e], status'[e])]_vars

(* From the webhook to the platform: an event the ledger can rebuild does  *)
(* not stay open, whatever is lost, crashes, fails or is replayed on the   *)
(* way (cli.reconcile, the claim's retry and stale clauses, the row        *)
(* ceiling).                                                               *)
RecoverableSettles ==
    \A e \in Event :
        Fate(e) \in {"undecided", "released"} /\ (lead[e].click \/ hashed[e] # "null")
            ~> Fate(e) \notin {"undecided", "released"}

=============================================================================
