---------------------------- MODULE UploadTiming ----------------------------
(***************************************************************************)
(* The clocks of the upload stage: last_attempt_at and the two ages the    *)
(* claim compares it with, the batcher's wait, the back-off and the two    *)
(* ceilings of the retry policy (ledger.claim_for_upload, batcher.py,      *)
(* backoff.py and the loop of uploader.py).  Module Uploader leaves time   *)
(* out and takes Timely for granted; this module says for which settings   *)
(* it may.                                                                 *)
(*                                                                         *)
(* Time is counted in units of any size.  Instead of a clock that grows    *)
(* for ever each timestamp is kept as its age, which Tick advances.        *)
(***************************************************************************)
EXTENDS Integers, FiniteSets

CONSTANTS
    Event, Uploaders,
    BatchSize,      \* upload_batch_size
    BatchWait,      \* upload_batch_wait_seconds
    MaxAttempts,    \* upload_max_attempts
    MaxElapsed,     \* upload_max_elapsed_seconds
    BackoffBase,    \* upload_backoff_base_seconds
    BackoffMax,     \* upload_backoff_max_seconds
    RowRetryAfter,  \* upload_row_retry_after_seconds
    StaleAfter,     \* upload_stale_after_seconds
    CycleTime,      \* longest time between two cycles of an idle uploader:
                    \* upload_poll_interval_seconds and the claim itself
    RequestTime,    \* longest request, until its outcome is committed
    Horizon         \* bound: ages beyond it are not told apart

ASSUME EventAssumption == IsFiniteSet(Event)
ASSUME SettingsAssumption ==
    /\ BatchSize \in Nat \ {0} /\ BatchWait \in Nat
    /\ MaxAttempts \in Nat \ {0} /\ MaxElapsed \in Nat \ {0}
    /\ BackoffBase \in Nat /\ BackoffMax \in Nat
    /\ RowRetryAfter \in Nat /\ StaleAfter \in Nat \ {0}
    /\ CycleTime \in Nat \ {0} /\ RequestTime \in Nat
ASSUME HorizonAssumption ==
    Horizon \in Nat /\ Horizon >= StaleAfter /\ Horizon >= RowRetryAfter

VARIABLES
    status,     \* events.status, with one value for settled rows
    age,        \* time since events.last_attempt_at
    pc,         \* where each uploader is
    holds,      \* the rows in its batcher or in its batch
    waited,     \* time since the batcher's _oldest_at
    timer,      \* time in the present place
    pause,      \* the back-off it sleeps for
    tries,      \* failed requests of the batch
    elapsed     \* time since the batch's first request

vars == <<status, age, pc, holds, waited, timer, pause, tries, elapsed>>

-----------------------------------------------------------------------------
(* The claim                                                               *)

Stale(e) == status[e] = "UPLOADING" /\ age[e] >= StaleAfter

Due(e) ==
    \/ status[e] = "PROCESSED"
    \/ status[e] = "FAILED_RETRYABLE" /\ age[e] >= RowRetryAfter
    \/ Stale(e)

(* Batcher.add and flush_if_due, at the time of the cycle.                 *)
WaitExceeded(rows, wait) == Cardinality(rows) >= BatchSize \/ wait > BatchWait  \* slip: > for >=
Flushes(rows, wait) == Cardinality(rows) >= BatchSize \/ wait >= BatchWait

(* One cycle of run_once: claim, add to the batcher, send if it is full or *)
(* its oldest row has waited long enough.  SKIP LOCKED may leave rows out, *)
(* and rows over the ceiling are dead-lettered and not held.               *)
Cycle(u) ==
    /\ pc[u] = "idle"
    /\ \E S \in SUBSET {e \in Event : Due(e)} :
        LET rows == holds[u] \cup S
            wait == IF holds[u] = {} THEN 0 ELSE waited[u]
            send == rows # {} /\ Flushes(rows, wait)
        IN
        /\ Cardinality(S) <= BatchSize - Cardinality(holds[u])
        /\ status' = [e \in Event |-> IF e \in S THEN "UPLOADING" ELSE status[e]]
        /\ age' = [e \in Event |-> IF e \in S THEN 0 ELSE age[e]]
        /\ holds' = [holds EXCEPT ![u] = rows]
        /\ waited' = [waited EXCEPT ![u] = IF send THEN 0 ELSE wait]
        /\ pc' = [pc EXCEPT ![u] = IF send THEN "request" ELSE "idle"]
    /\ timer' = [timer EXCEPT ![u] = 0]
    /\ UNCHANGED <<pause, tries, elapsed>>

-----------------------------------------------------------------------------
(* The request and its retries                                             *)

(* The batch is done with, each of its rows moved to one of the outcomes.  *)
Finish(u, outcomes) ==
    /\ \E outcome \in [holds[u] -> outcomes] :
        status' = [e \in Event |-> IF e \in holds[u] THEN outcome[e] ELSE status[e]]
    /\ holds' = [holds EXCEPT ![u] = {}]
    /\ pc' = [pc EXCEPT ![u] = "idle"]
    /\ timer' = [timer EXCEPT ![u] = 0]
    /\ pause' = [pause EXCEPT ![u] = 0]
    /\ tries' = [tries EXCEPT ![u] = 0]
    /\ elapsed' = [elapsed EXCEPT ![u] = 0]
    /\ UNCHANGED <<age, waited>>

(* An answer that ends the call: per-row results, or a permanent refusal.  *)
Answer(u) == pc[u] = "request" /\ Finish(u, {"FAILED_RETRYABLE", "SETTLED"})

(* stop_after_attempt | stop_after_delay, asked when a request has failed. *)
OnlyAttempts(u) == tries[u] + 1 >= MaxAttempts    \* slip: no wall-clock ceiling
Stops(u) == tries[u] + 1 >= MaxAttempts \/ elapsed[u] >= MaxElapsed

(* wait_random_exponential after attempt n = tries + 1.                    *)
Uncapped(u) == 0..(BackoffBase * 2 ^ tries[u])    \* slip: no max
Pauses(u) == {d \in 0..BackoffMax : d <= BackoffBase * 2 ^ tries[u]}

(* on_retry: record_retry_attempt writes last_attempt_at before the sleep. *)
ClaimTimeKept(u) == age    \* slip: only the claim writes last_attempt_at
Refreshed(u) == [e \in Event |-> IF e \in holds[u] THEN 0 ELSE age[e]]

Retry(u) ==
    /\ pc[u] = "request"
    /\ ~Stops(u)
    /\ age' = Refreshed(u)
    /\ \E d \in Pauses(u) : pause' = [pause EXCEPT ![u] = d]
    /\ tries' = [tries EXCEPT ![u] = @ + 1]
    /\ pc' = [pc EXCEPT ![u] = "sleep"]
    /\ timer' = [timer EXCEPT ![u] = 0]
    /\ UNCHANGED <<status, holds, waited, elapsed>>

(* Retrying has stopped: the whole batch is dead-lettered as poison.       *)
GiveUp(u) == pc[u] = "request" /\ Stops(u) /\ Finish(u, {"SETTLED"})

Wake(u) ==
    /\ pc[u] = "sleep"
    /\ timer[u] = pause[u]
    /\ pc' = [pc EXCEPT ![u] = "request"]
    /\ timer' = [timer EXCEPT ![u] = 0]
    /\ UNCHANGED <<status, age, holds, waited, pause, tries, elapsed>>

-----------------------------------------------------------------------------
(* Process lifetime and time                                               *)

(* A crash, or a stop with rows in the batcher: they stay UPLOADING.       *)
Crash(u) ==
    /\ pc[u] # "down"
    /\ pc' = [pc EXCEPT ![u] = "down"]
    /\ holds' = [holds EXCEPT ![u] = {}]
    /\ waited' = [waited EXCEPT ![u] = 0]
    /\ timer' = [timer EXCEPT ![u] = 0]
    /\ pause' = [pause EXCEPT ![u] = 0]
    /\ tries' = [tries EXCEPT ![u] = 0]
    /\ elapsed' = [elapsed EXCEPT ![u] = 0]
    /\ UNCHANGED <<status, age>>

Restart(u) ==
    /\ pc[u] = "down"
    /\ pc' = [pc EXCEPT ![u] = "idle"]
    /\ UNCHANGED <<status, age, holds, waited, timer, pause, tries, elapsed>>

(* How long an uploader may stay where it is.                              *)
MayStay(u) ==
    \/ pc[u] = "idle" /\ timer[u] < CycleTime
    \/ pc[u] = "request" /\ timer[u] < RequestTime
    \/ pc[u] = "sleep" /\ timer[u] < pause[u]
    \/ pc[u] = "down"

Tick ==
    /\ \A u \in Uploaders : MayStay(u)
    /\ age' = [e \in Event |-> IF age[e] < Horizon THEN age[e] + 1 ELSE age[e]]
    /\ timer' = [u \in Uploaders |-> IF pc[u] = "down" THEN 0 ELSE timer[u] + 1]
    /\ waited' = [u \in Uploaders |->
            IF pc[u] = "idle" /\ holds[u] # {} THEN waited[u] + 1 ELSE waited[u]]
    /\ elapsed' = [u \in Uploaders |->
            IF pc[u] \in {"request", "sleep"} THEN elapsed[u] + 1 ELSE elapsed[u]]
    /\ UNCHANGED <<status, pc, holds, pause, tries>>

-----------------------------------------------------------------------------

Init ==
    /\ status = [e \in Event |-> "PROCESSED"]
    /\ age = [e \in Event |-> 0]
    /\ pc = [u \in Uploaders |-> "idle"]
    /\ holds = [u \in Uploaders |-> {}]
    /\ waited = [u \in Uploaders |-> 0]
    /\ timer = [u \in Uploaders |-> 0]
    /\ pause = [u \in Uploaders |-> 0]
    /\ tries = [u \in Uploaders |-> 0]
    /\ elapsed = [u \in Uploaders |-> 0]

Next ==
    \/ \E u \in Uploaders :
        \/ Cycle(u) \/ Answer(u) \/ Retry(u) \/ GiveUp(u) \/ Wake(u)
        \/ Crash(u) \/ Restart(u)
    \/ Tick

Spec == Init /\ [][Next]_vars

-----------------------------------------------------------------------------
(* Properties                                                              *)

RowStatuses == {"PROCESSED", "UPLOADING", "FAILED_RETRYABLE", "SETTLED"}

(* Every variable has its type.                                            *)
TypeOK ==
    /\ status \in [Event -> RowStatuses]
    /\ age \in [Event -> Nat]
    /\ pc \in [Uploaders -> {"idle", "request", "sleep", "down"}]
    /\ holds \in [Uploaders -> SUBSET Event]
    /\ waited \in [Uploaders -> Nat]
    /\ timer \in [Uploaders -> Nat]
    /\ pause \in [Uploaders -> 0..BackoffMax]
    /\ tries \in [Uploaders -> Nat]
    /\ elapsed \in [Uploaders -> Nat]

(* The settings under which stale_after is long enough: longer than the    *)
(* first request may come after the claim, and than a retry may come after *)
(* the last one.  How often and for how long in all a batch is retried     *)
(* does not matter, because each retry writes last_attempt_at.             *)
SettingsFit ==
    /\ BatchWait + CycleTime + RequestTime <= StaleAfter
    /\ BackoffMax + RequestTime < StaleAfter

(* A row the claim takes for stale is in no living uploader's hands:       *)
(* "claimed longer than stale_after ago by an uploader that must have died *)
(* mid-batch" (ledger.claim_for_upload).  This is what Uploader assumes    *)
(* under the name of Timely.                                               *)
StaleIsOrphaned ==
    \A e \in Event : Stale(e) => \A u \in Uploaders : e \notin holds[u]

(* Then no row is ever in the hands of two (RUNBOOK section 5 scales the   *)
(* uploader on the strength of it).                                        *)
ExclusiveClaims ==
    \A u, v \in Uploaders : u # v => holds[u] \cap holds[v] = {}

(* max_elapsed_seconds stops retries and not the retry that is under way:  *)
(* a batch occupies its uploader for at most one back-off and one request  *)
(* longer (RetryPolicy.retrying).                                          *)
RetryingEnds ==
    \A u \in Uploaders : elapsed[u] < MaxElapsed + BackoffMax + RequestTime

=============================================================================
