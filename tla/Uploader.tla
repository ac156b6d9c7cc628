------------------------------ MODULE Uploader ------------------------------
(***************************************************************************)
(* The upload stage: uploader processes that claim PROCESSED rows from the *)
(* ledger, batch them, send a batch to the ad platform with retries, and   *)
(* write each row's outcome back (gateway/upload/uploader.py together with *)
(* ledger.claim_for_upload, backoff, batcher, client and dlq.dead_letter). *)
(*                                                                         *)
(* One step is one database transaction, one read of the rows a            *)
(* transaction works on (the ledger reads without a row lock, so the read  *)
(* and the commit are two steps), or one request to the platform.          *)
(***************************************************************************)
EXTENDS EventLifecycle, Integers, FiniteSets, SequencesExt

CONSTANTS
    Event,           \* the ledger rows, keyed by event_id
    Uploaders,       \* the uploader processes
    BatchSize,       \* upload_batch_size
    MaxAttempts,     \* upload_max_attempts: requests per batch
    MaxRowAttempts,  \* max_row_attempts: claims and requests per row
    Timely           \* no uploader outlives stale_after while it holds rows

ASSUME EventAssumption == IsFiniteSet(Event)
ASSUME BatchSizeAssumption == BatchSize \in Nat \ {0}
ASSUME MaxAttemptsAssumption == MaxAttempts \in Nat \ {0}
ASSUME MaxRowAttemptsAssumption == MaxRowAttempts \in Nat \ {0}
ASSUME TimelyAssumption == Timely \in BOOLEAN

VARIABLES
    status,         \* events.status
    attempt_count,  \* events.attempt_count
    open_dlq,       \* failure classes of the row's dead_letters not replayed
    accepted,       \* events the platform has recorded a conversion for
    late,           \* events of requests whose answer never came back
    pc,             \* where each uploader is in run_once
    batch,          \* its batcher while idle, the batch in flight afterwards
    tries,          \* failed requests of the batch in flight
    result,         \* per-row results of the last response, by index
    why,            \* failure class of a batch given up
    seen            \* rows read by the transaction that is open

ledger == <<status, attempt_count, open_dlq>>
platform == <<accepted, late>>
process == <<pc, batch, tries, result, why, seen>>
vars == <<ledger, platform, process>>

-----------------------------------------------------------------------------

RowResults == {"ok", "retryable", "rejected"}
FailureClasses == {"poison", "permanent", "partial"}

(* The status apply_result moves a row to for each kind of row result.     *)
DeadLetterKeptInPool ==    \* slip: the row is recorded but stays claimable
    [ok |-> "UPLOADED", retryable |-> "FAILED_RETRYABLE", rejected |-> "FAILED_RETRYABLE"]

RetryableBuried ==         \* slip: TOO_RECENT_CONVERSION classified as final
    [ok |-> "UPLOADED", retryable |-> "DEAD_LETTERED", rejected |-> "DEAD_LETTERED"]

Outcome == [ ok |-> "UPLOADED",
             retryable |-> "FAILED_RETRYABLE",
             rejected |-> "DEAD_LETTERED" ]

Unread == [status |-> "", attempts |-> -1]
NothingRead == [e \in Event |-> Unread]
Snapshots == [status : Statuses, attempts : Nat]

RowsOf(u) == {batch[u][i] : i \in DOMAIN batch[u]}
Held(e) == \E u \in Uploaders : e \in RowsOf(u)
Positions(u, e) == {i \in DOMAIN batch[u] : batch[u][i] = e}
InTransaction(u) == seen[u] # NothingRead

-----------------------------------------------------------------------------
(* Claiming                                                                *)

(* An UPLOADING row whose last attempt is older than stale_after.  Nothing *)
(* tells the ledger whether its uploader is dead; under Timely it is.      *)
AnyUploading(e) == status[e] = "UPLOADING"    \* slip: no stale_after test
NeverStale(e) == FALSE                        \* slip: no stale clause

Stale(e) ==
    /\ status[e] = "UPLOADING"
    /\ Timely => ~Held(e)

(* The rows claim_for_upload selects.  How long a FAILED_RETRYABLE row has *)
(* waited is abstracted: it may be due at any time.                        *)
Ready(e) == status[e] \in {"PROCESSED", "FAILED_RETRYABLE"} \/ Stale(e)

(* One more attempt on the row, and whether that is one too many.          *)
CountedDown(n) == n - 1      \* slip: wrong sign
Attempted(n) == n + 1

OneMoreAllowed(n) == n > MaxRowAttempts + 1    \* slip: off by one
OverCeiling(n) == n > MaxRowAttempts

(* Uploader.claim on the rows of S: they become UPLOADING with one more    *)
(* attempt, and those over the ceiling are dead-lettered in the same       *)
(* transaction.  SKIP LOCKED can leave out any ready row.                  *)
ClaimRows(u, S) ==
    LET poison == {e \in S : OverCeiling(Attempted(attempt_count[e]))} IN
    /\ pc[u] = "idle"
    /\ S # {}
    /\ Cardinality(S) <= BatchSize - Len(batch[u])
    /\ \A e \in S : Ready(e) /\ (Stale(e) \/ CanMove(status[e], "UPLOADING"))
    /\ attempt_count' = [e \in Event |->
            IF e \in S THEN Attempted(attempt_count[e]) ELSE attempt_count[e]]
    /\ status' = [e \in Event |->
            IF e \in poison THEN "DEAD_LETTERED"
            ELSE IF e \in S THEN "UPLOADING" ELSE status[e]]
    /\ open_dlq' = [e \in Event |->
            IF e \in poison THEN Append(open_dlq[e], "poison")
            ELSE open_dlq[e]]
    /\ \E q \in SetToSeqs(S \ poison) :
        /\ batch' = [batch EXCEPT ![u] = @ \o q]
        /\ pc' = [pc EXCEPT ![u] =
                IF Len(batch[u]) + Len(q) >= BatchSize THEN "send" ELSE "idle"]
    /\ UNCHANGED <<platform, tries, result, why, seen>>

Claim(u) == \E S \in SUBSET Event : ClaimRows(u, S)

(* Batcher.flush_if_due: the oldest row has waited batch_wait_seconds.     *)
FlushIfDue(u) ==
    /\ pc[u] = "idle"
    /\ batch[u] # <<>>
    /\ pc' = [pc EXCEPT ![u] = "send"]
    /\ UNCHANGED <<ledger, platform, batch, tries, result, why, seen>>

-----------------------------------------------------------------------------
(* One request to the platform                                             *)

(* A 200 answer with one result per row.                                   *)
Respond(u) ==
    /\ pc[u] = "send"
    /\ \E r \in [DOMAIN batch[u] -> RowResults] :
        /\ result' = [result EXCEPT ![u] = r]
        /\ accepted' = accepted \cup
                {batch[u][i] : i \in {j \in DOMAIN batch[u] : r[j] = "ok"}}
    /\ pc' = [pc EXCEPT ![u] = "apply"]
    /\ UNCHANGED <<ledger, late, batch, tries, why, seen>>

(* What call_with_retry does with a transient failure: record the attempt  *)
(* and try again, or give the batch up once the attempts or the wall-clock *)
(* ceiling are used up.                                                    *)
RetryOrGiveUp(u) ==
    /\ tries' = [tries EXCEPT ![u] = @ + 1]
    /\ \/ /\ tries[u] + 1 < MaxAttempts
          /\ pc' = [pc EXCEPT ![u] = "retry"]
          /\ UNCHANGED why
       \/ /\ pc' = [pc EXCEPT ![u] = "dead"]
          /\ why' = [why EXCEPT ![u] = "poison"]

(* 408, 429 or 5xx: the platform took nothing.                             *)
Unavailable(u) ==
    /\ pc[u] = "send"
    /\ RetryOrGiveUp(u)
    /\ UNCHANGED <<ledger, platform, batch, result, seen>>

(* A timeout, a broken connection or a malformed answer: the platform may  *)
(* have accepted any of the rows, or may still do so.                      *)
NoAnswer(u) ==
    /\ pc[u] = "send"
    /\ late' = late \cup RowsOf(u)
    /\ RetryOrGiveUp(u)
    /\ UNCHANGED <<ledger, accepted, batch, result, seen>>

(* Any other 4xx: PermanentUploadError, never retried.                     *)
Refuse(u) ==
    /\ pc[u] = "send"
    /\ pc' = [pc EXCEPT ![u] = "dead"]
    /\ why' = [why EXCEPT ![u] = "permanent"]
    /\ UNCHANGED <<ledger, platform, batch, tries, result, seen>>

(* The platform completes a request whose sender stopped waiting.          *)
LateAccept(e) ==
    /\ e \in late
    /\ accepted' = accepted \cup {e}
    /\ late' = late \ {e}
    /\ UNCHANGED <<ledger, process>>

-----------------------------------------------------------------------------
(* Writing the outcome                                                     *)

(* _load: the transaction reads its rows, without locking them.            *)
Load(u) ==
    /\ pc[u] \in {"retry", "apply", "dead"}
    /\ ~InTransaction(u)
    /\ seen' = [seen EXCEPT ![u] = [e \in Event |->
            IF e \in RowsOf(u)
            THEN [status |-> status[e], attempts |-> attempt_count[e]]
            ELSE Unread]]
    /\ UNCHANGED <<ledger, platform, pc, batch, tries, result, why>>

(* record_retry_attempt for every row: UPLOADING -> FAILED_RETRYABLE ->    *)
(* UPLOADING.  The status ends where it started, so the flush writes only  *)
(* the attempt count, computed from the row as it was read.                *)
RetryAllowed(u) ==
    \A e \in RowsOf(u) : /\ CanMove(seen[u][e].status, "FAILED_RETRYABLE")
                         /\ CanMove("FAILED_RETRYABLE", "UPLOADING")

CommitRetry(u) ==
    /\ pc[u] = "retry"
    /\ InTransaction(u)
    /\ RetryAllowed(u)
    /\ attempt_count' = [e \in Event |->
            IF e \in RowsOf(u)
            THEN seen[u][e].attempts + Cardinality(Positions(u, e))
            ELSE attempt_count[e]]
    /\ pc' = [pc EXCEPT ![u] = "send"]
    /\ seen' = [seen EXCEPT ![u] = NothingRead]
    /\ UNCHANGED <<status, open_dlq, platform, batch, tries, result, why>>

(* The platform's result for position i, and the last position of a row,   *)
(* whose result is the one that stays.                                     *)
NextResult(u, i) == result[u][IF i = Len(batch[u]) THEN 1 ELSE i + 1]  \* slip: off by one
ResultAt(u, i) == result[u][i]

LastPositions(u) ==
    {last \in [RowsOf(u) -> DOMAIN batch[u]] :
        \A e \in RowsOf(u) : /\ last[e] \in Positions(u, e)
                             /\ \A k \in Positions(u, e) : k <= last[e]}

(* The status position i's transition starts from: what the transaction    *)
(* read, or what it wrote for an earlier position holding the same row.    *)
StatusBefore(u, i) ==
    LET earlier == {j \in Positions(u, batch[u][i]) : j < i} IN
    IF earlier = {} THEN seen[u][batch[u][i]].status
    ELSE Outcome[ResultAt(u, CHOOSE j \in earlier : \A k \in earlier : k <= j)]

ApplyAllowed(u) ==
    \A i \in DOMAIN batch[u] : CanMove(StatusBefore(u, i), Outcome[ResultAt(u, i)])

(* The batch is done with: back to an empty batcher.                       *)
Finish(u, where) ==
    /\ pc' = [pc EXCEPT ![u] = where]
    /\ batch' = [batch EXCEPT ![u] = <<>>]
    /\ tries' = [tries EXCEPT ![u] = 0]
    /\ result' = [result EXCEPT ![u] = <<>>]
    /\ why' = [why EXCEPT ![u] = "none"]
    /\ seen' = [seen EXCEPT ![u] = NothingRead]

(* apply_result: every row gets its own outcome, in one transaction.       *)
CommitApply(u) ==
    /\ pc[u] = "apply"
    /\ InTransaction(u)
    /\ ApplyAllowed(u)
    /\ \E last \in LastPositions(u) :
        /\ status' = [e \in Event |->
                IF e \in RowsOf(u) THEN Outcome[ResultAt(u, last[e])]
                ELSE status[e]]
        /\ open_dlq' = [e \in Event |->
                IF e \in RowsOf(u) /\ ResultAt(u, last[e]) = "rejected"
                THEN Append(open_dlq[e], "partial") ELSE open_dlq[e]]
    /\ Finish(u, "idle")
    /\ UNCHANGED <<attempt_count, platform>>

(* _dead_letter_all: the whole batch, once per row.                        *)
DeadLetterAllowed(u) ==
    \A e \in RowsOf(u) : CanMove(seen[u][e].status, "DEAD_LETTERED")

CommitDead(u) ==
    /\ pc[u] = "dead"
    /\ InTransaction(u)
    /\ DeadLetterAllowed(u)
    /\ status' = [e \in Event |->
            IF e \in RowsOf(u) THEN "DEAD_LETTERED" ELSE status[e]]
    /\ open_dlq' = [e \in Event |->
            IF e \in RowsOf(u) THEN Append(open_dlq[e], why[u])
            ELSE open_dlq[e]]
    /\ Finish(u, "idle")
    /\ UNCHANGED <<attempt_count, platform>>

(* ledger.transition raises IllegalTransition: the transaction rolls back  *)
(* and run does not catch it, so the process ends.                         *)
Illegal(u) ==
    /\ InTransaction(u)
    /\ \/ pc[u] = "retry" /\ ~RetryAllowed(u)
       \/ pc[u] = "apply" /\ ~ApplyAllowed(u)
       \/ pc[u] = "dead" /\ ~DeadLetterAllowed(u)
    /\ Finish(u, "failed")
    /\ UNCHANGED <<ledger, platform>>

-----------------------------------------------------------------------------
(* Process lifetime                                                        *)

(* The process stops: a crash anywhere, or SIGTERM between two cycles,     *)
(* which also drops the rows still in the batcher.  A request on the wire  *)
(* may be completed by the platform all the same.                          *)
Crash(u) ==
    /\ pc[u] \notin {"down", "failed"}
    /\ late' = IF pc[u] = "send" THEN late \cup RowsOf(u) ELSE late
    /\ Finish(u, "down")
    /\ UNCHANGED <<ledger, accepted>>

Restart(u) ==
    /\ pc[u] \in {"down", "failed"}
    /\ pc' = [pc EXCEPT ![u] = "idle"]
    /\ UNCHANGED <<ledger, platform, batch, tries, result, why, seen>>

-----------------------------------------------------------------------------

Init ==
    /\ status = [e \in Event |-> "PROCESSED"]
    /\ attempt_count = [e \in Event |-> 0]
    /\ open_dlq = [e \in Event |-> <<>>]
    /\ accepted = {}
    /\ late = {}
    /\ pc = [u \in Uploaders |-> "idle"]
    /\ batch = [u \in Uploaders |-> <<>>]
    /\ tries = [u \in Uploaders |-> 0]
    /\ result = [u \in Uploaders |-> <<>>]
    /\ why = [u \in Uploaders |-> "none"]
    /\ seen = [u \in Uploaders |-> NothingRead]

Request(u) == Respond(u) \/ Unavailable(u) \/ NoAnswer(u) \/ Refuse(u)
Commit(u) == CommitRetry(u) \/ CommitApply(u) \/ CommitDead(u) \/ Illegal(u)

(* What a running uploader does on its own once it holds a batch.          *)
Progress(u) == FlushIfDue(u) \/ Request(u) \/ Load(u) \/ Commit(u)

Next ==
    \/ \E u \in Uploaders :
        Claim(u) \/ Progress(u) \/ Crash(u) \/ Restart(u)
    \/ \E e \in Event : LateAccept(e)

Spec == Init /\ [][Next]_vars

(* A claim takes the oldest ready rows first and every row is settled      *)
(* after boundedly many claims, so each ready row gets its turn.           *)
ClaimsRow(e) == \E u \in Uploaders, S \in SUBSET Event : e \in S /\ ClaimRows(u, S)

(* A running process keeps going, a stopped one is eventually restarted,   *)
(* and a row that is ready again and again is eventually claimed.          *)
Fairness ==
    /\ \A u \in Uploaders : WF_vars(Progress(u)) /\ WF_vars(Restart(u))
    /\ \A e \in Event : SF_vars(ClaimsRow(e))

FairSpec == Spec /\ Fairness

-----------------------------------------------------------------------------
(* Properties                                                              *)

(* Every variable has its type.                                            *)
TypeOK ==
    /\ status \in [Event -> Statuses]
    /\ attempt_count \in [Event -> Nat]
    /\ open_dlq \in [Event -> Seq(FailureClasses)]
    /\ accepted \subseteq Event
    /\ late \subseteq Event
    /\ pc \in [Uploaders -> {"idle", "send", "retry", "apply", "dead",
                             "down", "failed"}]
    /\ batch \in [Uploaders -> Seq(Event)]
    /\ tries \in [Uploaders -> Nat]
    /\ result \in [Uploaders -> Seq(RowResults)]
    /\ why \in [Uploaders -> FailureClasses \cup {"none"}]
    /\ seen \in [Uploaders -> [Event -> Snapshots \cup {Unread}]]

(* A row is UPLOADED only if the platform accepted it: results are applied *)
(* to the row they belong to, whatever is retried, reclaimed or crashes    *)
(* (Uploader.apply_result).                                                *)
UploadedWasAccepted ==
    \A e \in Event : status[e] = "UPLOADED" => e \in accepted

(* Two uploaders never hold the same row (claim_for_upload's SKIP LOCKED;  *)
(* RUNBOOK section 5 scales the uploader on the strength of it).           *)
ExclusiveClaims ==
    \A u, v \in Uploaders : u # v => RowsOf(u) \cap RowsOf(v) = {}

(* A row in some uploader's hands is UPLOADING, in one batch and there     *)
(* once, from the claim until its outcome commits (claim_for_upload).      *)
OwnedWhileUploading ==
    /\ \A u \in Uploaders : \A i, j \in DOMAIN batch[u] :
            batch[u][i] = batch[u][j] => i = j
    /\ ExclusiveClaims
    /\ \A e \in Event : Held(e) => status[e] = "UPLOADING"

(* The uploader never attempts a transition the ledger refuses, which      *)
(* would roll back a whole batch of outcomes and end the process           *)
(* (ledger.transition, Uploader.apply_result).                             *)
NoIllegalTransition == \A u \in Uploaders : pc[u] # "failed"

(* Retries inside a batch and claims of the row draw on one counter, which *)
(* crashes and retries together never take past both ceilings              *)
(* (Uploader.claim, ledger.record_retry_attempt).                          *)
AttemptsBounded ==
    \A e \in Event : attempt_count[e] <= MaxRowAttempts + MaxAttempts

(* The ledger status and the dead-letter store agree: a row has an open    *)
(* dead letter, and only one, exactly while it is DEAD_LETTERED            *)
(* (dlq.dead_letter).                                                      *)
OneOpenDeadLetter ==
    \A e \in Event :
        Len(open_dlq[e]) = IF status[e] = "DEAD_LETTERED" THEN 1 ELSE 0

(* Whatever uploaders overlap, no row is DEAD_LETTERED without a dead      *)
(* letter an operator can find: status and record commit together          *)
(* (dlq.dead_letter).                                                      *)
DeadLetterRecorded ==
    \A e \in Event : status[e] = "DEAD_LETTERED" => open_dlq[e] # <<>>

(* A batch given up as poison was never accepted, as the design's appendix *)
(* says of Poison (RetryPolicy, Uploader._dead_letter_all).                *)
PoisonNeverAccepted ==
    \A e \in Event : \A i \in DOMAIN open_dlq[e] :
        open_dlq[e][i] = "poison" => e \notin accepted

(* The status column only ever moves along ALLOWED_TRANSITIONS, although   *)
(* transition checks the status a transaction read and not the one it      *)
(* overwrites (ledger.transition).                                         *)
LegalStep ==
    \A e \in Event : status'[e] # status[e] => CanMove(status[e], status'[e])

LegalMoves == [][LegalStep]_vars

(* What the row says of the event, and the abstract history it implements. *)
Fate(e) ==
    CASE status[e] = "UPLOADED" -> "uploaded"
      [] status[e] = "DEAD_LETTERED" -> "dead"
      [] OTHER -> "released"

History == INSTANCE EventHistory
    WITH fate <- [e \in Event |-> Fate(e)], passed <- Event, recorded <- accepted

(* The upload stage implements its part of EventHistory: whatever is       *)
(* claimed, retried, reclaimed, answered late or crashed upon, an event is *)
(* settled once, for good, and as uploaded only if the platform has it     *)
(* (the whole of upload/uploader.py).                                      *)
ImplementsHistory == History!UploadSpec

(* However often uploaders crash and requests fail, every row ends up      *)
(* UPLOADED or DEAD_LETTERED and stays there (the row attempt ceiling).    *)
EveryRowSettles ==
    \A e \in Event : <>[](status[e] \in {"UPLOADED", "DEAD_LETTERED"})

=============================================================================
