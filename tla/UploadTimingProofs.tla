------------------------- MODULE UploadTimingProofs -------------------------
(***************************************************************************)
(* Proofs about the clocks of the upload stage, for every value of the     *)
(* settings: retrying ends, and settings that fit make the stale claim     *)
(* safe.                                                                   *)
(***************************************************************************)
EXTENDS UploadTiming, TLAPS

(* The assumptions on the constants, under one name.                       *)
LEMMA Constants ==
    /\ BatchSize \in Nat \ {0} /\ BatchWait \in Nat
    /\ MaxAttempts \in Nat \ {0} /\ MaxElapsed \in Nat \ {0}
    /\ BackoffBase \in Nat /\ BackoffMax \in Nat
    /\ RowRetryAfter \in Nat /\ StaleAfter \in Nat \ {0}
    /\ CycleTime \in Nat \ {0} /\ RequestTime \in Nat
    /\ Horizon \in Nat
BY SettingsAssumption, HorizonAssumption

(* A back-off never exceeds backoff_max_seconds.                           *)
LEMMA PauseCapped == ASSUME NEW u PROVE Pauses(u) \subseteq 0..BackoffMax
BY Zenon DEF Pauses

-----------------------------------------------------------------------------
(* Types                                                                   *)

LEMMA TypeStep == TypeOK /\ [Next]_vars => TypeOK'
<1> SUFFICES ASSUME TypeOK, [Next]_vars PROVE TypeOK'
    OBVIOUS
<1> USE Constants DEF TypeOK, RowStatuses
<1>1. ASSUME NEW u \in Uploaders, Cycle(u) PROVE TypeOK'
    <2>1. PICK S \in SUBSET {e \in Event : Due(e)} :
            LET rows == holds[u] \cup S
                wait == IF holds[u] = {} THEN 0 ELSE waited[u]
                send == rows # {} /\ Flushes(rows, wait)
            IN  /\ status' = [e \in Event |-> IF e \in S THEN "UPLOADING" ELSE status[e]]
                /\ age' = [e \in Event |-> IF e \in S THEN 0 ELSE age[e]]
                /\ holds' = [holds EXCEPT ![u] = rows]
                /\ waited' = [waited EXCEPT ![u] = IF send THEN 0 ELSE wait]
                /\ pc' = [pc EXCEPT ![u] = IF send THEN "request" ELSE "idle"]
        BY <1>1 DEF Cycle
    <2>2. timer' = [timer EXCEPT ![u] = 0] /\ UNCHANGED <<pause, tries, elapsed>>
        BY <1>1 DEF Cycle
    <2> QED BY <2>1, <2>2
<1>2. ASSUME NEW u \in Uploaders, NEW outcomes \in SUBSET {"FAILED_RETRYABLE", "SETTLED"},
             Finish(u, outcomes)
      PROVE TypeOK'
    <2>1. PICK outcome \in [holds[u] -> outcomes] :
            status' = [e \in Event |-> IF e \in holds[u] THEN outcome[e] ELSE status[e]]
        BY <1>2 DEF Finish
    <2>2. status' \in [Event -> RowStatuses]
        BY <2>1
    <2> QED BY <2>2, <1>2 DEF Finish
<1>3. ASSUME NEW u \in Uploaders, Retry(u) PROVE TypeOK'
    BY <1>3, PauseCapped DEF Retry, Refreshed
<1>4. ASSUME NEW u \in Uploaders, Wake(u) PROVE TypeOK'
    BY <1>4 DEF Wake
<1>5. ASSUME NEW u \in Uploaders, Crash(u) \/ Restart(u) PROVE TypeOK'
    BY <1>5 DEF Crash, Restart
<1>6. CASE Tick
    BY <1>6 DEF Tick
<1>7. CASE UNCHANGED vars
    BY <1>7 DEF vars
<1> QED
    BY <1>1, <1>2, <1>3, <1>4, <1>5, <1>6, <1>7 DEF Next, Answer, GiveUp

(* Every variable keeps its type; above all no back-off leaves its cap.    *)
THEOREM TypeCorrect == Spec => []TypeOK
<1>1. Init => TypeOK
    BY Constants DEF Init, TypeOK, RowStatuses
<1> QED BY <1>1, TypeStep, PTL DEF Spec

-----------------------------------------------------------------------------
(* The clocks                                                              *)

(* In each place, how long the uploader has been there and how old the     *)
(* last attempt of its rows is at most.                                    *)
IdleClock(u) ==
    /\ timer[u] <= CycleTime
    /\ holds[u] # {} => waited[u] < BatchWait + timer[u]
    /\ \A e \in holds[u] : age[e] <= waited[u]

RequestClock(u) ==
    /\ timer[u] <= RequestTime
    /\ \A e \in holds[u] : \/ age[e] < BatchWait + CycleTime + timer[u]
                           \/ age[e] <= BackoffMax + timer[u]

SleepClock(u) ==
    /\ timer[u] <= pause[u]
    /\ \A e \in holds[u] : age[e] <= timer[u]

(* In each place, how long the batch has been retried at most.             *)
RetryClock(u) ==
    /\ pc[u] = "idle" => elapsed[u] = 0
    /\ pc[u] = "request" => elapsed[u] < MaxElapsed + BackoffMax + timer[u]
    /\ pc[u] = "sleep" => elapsed[u] < MaxElapsed + timer[u]

Clock(u) ==
    /\ pc[u] = "idle" => IdleClock(u)
    /\ pc[u] = "request" => RequestClock(u)
    /\ pc[u] = "sleep" => SleepClock(u)
    /\ pc[u] = "down" => holds[u] = {} /\ timer[u] = 0 /\ elapsed[u] = 0
    /\ RetryClock(u)

Clocks == \A u \in Uploaders : Clock(u)

(* An uploader that takes no part in a step keeps its clocks: the step may *)
(* only have made rows younger.                                            *)
LEMMA ClockOfOther ==
    ASSUME TypeOK, TypeOK', NEW w \in Uploaders, Clock(w),
           pc'[w] = pc[w], holds'[w] = holds[w], waited'[w] = waited[w],
           timer'[w] = timer[w], pause'[w] = pause[w], elapsed'[w] = elapsed[w],
           \A e \in Event : age'[e] <= age[e]
    PROVE Clock(w)'
<1> USE Constants DEF TypeOK
<1>1. \A e \in holds[w] : e \in Event /\ age'[e] <= age[e] /\ age[e] \in Nat /\ age'[e] \in Nat
    OBVIOUS
<1>2. timer[w] \in Nat /\ waited[w] \in Nat
    OBVIOUS
<1>3. CASE pc[w] = "idle"
    BY <1>1, <1>2, <1>3 DEF Clock, IdleClock, RetryClock
<1>4. CASE pc[w] = "request"
    BY <1>1, <1>2, <1>4 DEF Clock, RequestClock, RetryClock
<1>5. CASE pc[w] = "sleep"
    BY <1>1, <1>2, <1>5 DEF Clock, SleepClock, RetryClock
<1>6. CASE pc[w] = "down"
    BY <1>1, <1>2, <1>6 DEF Clock, RetryClock
<1> QED BY <1>3, <1>4, <1>5, <1>6

(* A cycle of an idle uploader keeps every clock.                          *)
LEMMA CycleClocks ==
    ASSUME TypeOK, TypeOK', Clocks, NEW u \in Uploaders, Cycle(u)
    PROVE Clocks'
<1> USE Constants DEF TypeOK
<1>1. PICK S \in SUBSET {e \in Event : Due(e)} :
        LET rows == holds[u] \cup S
            wait == IF holds[u] = {} THEN 0 ELSE waited[u]
            send == rows # {} /\ Flushes(rows, wait)
        IN  /\ age' = [e \in Event |-> IF e \in S THEN 0 ELSE age[e]]
            /\ holds' = [holds EXCEPT ![u] = rows]
            /\ waited' = [waited EXCEPT ![u] = IF send THEN 0 ELSE wait]
            /\ pc' = [pc EXCEPT ![u] = IF send THEN "request" ELSE "idle"]
    BY DEF Cycle
<1> DEFINE rows == holds[u] \cup S
           wait == IF holds[u] = {} THEN 0 ELSE waited[u]
           send == rows # {} /\ Flushes(rows, wait)
<1>2. pc[u] = "idle" /\ timer' = [timer EXCEPT ![u] = 0] /\ UNCHANGED <<pause, elapsed>>
    BY DEF Cycle
<1>3. \A e \in Event : age'[e] <= age[e]
    BY <1>1
<1>4. ASSUME NEW w \in Uploaders, w # u PROVE Clock(w)'
    <2>1. Clock(w)
        BY DEF Clocks
    <2>2. /\ pc'[w] = pc[w] /\ holds'[w] = holds[w] /\ waited'[w] = waited[w]
          /\ timer'[w] = timer[w] /\ pause'[w] = pause[w] /\ elapsed'[w] = elapsed[w]
        BY <1>1, <1>2, <1>4
    <2> QED BY <2>1, <2>2, <1>3, ClockOfOther
<1>5. IdleClock(u) /\ elapsed[u] = 0
    BY <1>2 DEF Clocks, Clock, RetryClock
<1>6. /\ holds'[u] = rows /\ timer'[u] = 0 /\ elapsed'[u] = 0
      /\ pc'[u] = IF send THEN "request" ELSE "idle"
      /\ waited'[u] = IF send THEN 0 ELSE wait
    BY <1>1, <1>2, <1>5
<1>7. wait \in Nat /\ wait < BatchWait + CycleTime
    BY <1>5 DEF IdleClock
<1>8. \A e \in rows : age'[e] <= wait
    BY <1>1, <1>5 DEF IdleClock
<1>9. CASE send
    <2>1. RequestClock(u)'
        BY <1>6, <1>7, <1>8, <1>9 DEF RequestClock
    <2> QED BY <2>1, <1>4, <1>6, <1>9 DEF Clocks, Clock, RetryClock
<1>10. CASE ~send
    <2>1. rows # {} => wait < BatchWait
        BY <1>7, <1>10 DEF Flushes
    <2>2. IdleClock(u)'
        <3>1. holds'[u] = rows /\ timer'[u] = 0 /\ waited'[u] = wait
            BY <1>6, <1>10
        <3>2. wait \in Nat
            BY <1>7
        <3> HIDE DEF rows, wait, send
        <3>3. timer'[u] <= CycleTime
            BY <3>1
        <3>4. holds'[u] # {} => waited'[u] < BatchWait + timer'[u]
            BY <2>1, <3>1, <3>2
        <3>5. \A e \in holds'[u] : age'[e] <= waited'[u]
            BY <1>8, <3>1
        <3> QED BY <3>3, <3>4, <3>5 DEF IdleClock
    <2> QED BY <2>2, <1>4, <1>6, <1>10 DEF Clocks, Clock, RetryClock
<1> QED BY <1>9, <1>10

(* The other steps of one uploader.                                        *)
LEMMA ProcessClocks ==
    ASSUME TypeOK, TypeOK', Clocks, NEW u \in Uploaders,
           \/ \E outcomes : Finish(u, outcomes)
           \/ Retry(u)
           \/ Wake(u)
           \/ Crash(u) \/ Restart(u)
    PROVE Clocks'
<1> USE Constants DEF TypeOK
<1>1. ASSUME NEW w \in Uploaders, w # u PROVE Clock(w)'
    <2>1. Clock(w)
        BY DEF Clocks
    <2>2. /\ pc'[w] = pc[w] /\ holds'[w] = holds[w] /\ waited'[w] = waited[w]
          /\ timer'[w] = timer[w] /\ pause'[w] = pause[w] /\ elapsed'[w] = elapsed[w]
        BY <1>1 DEF Finish, Retry, Wake, Crash, Restart
    <2>3. \A e \in Event : age'[e] <= age[e]
        BY DEF Finish, Retry, Wake, Crash, Restart, Refreshed
    <2> QED BY <2>1, <2>2, <2>3, ClockOfOther
<1>2. Clock(u)
    BY DEF Clocks
<1>3. CASE \E outcomes : Finish(u, outcomes)
    <2>1. pc'[u] = "idle" /\ holds'[u] = {} /\ timer'[u] = 0 /\ elapsed'[u] = 0
        BY <1>3 DEF Finish
    <2>2. Clock(u)'
        BY <2>1 DEF Clock, IdleClock, RetryClock
    <2> QED BY <2>2, <1>1 DEF Clocks
<1>4. CASE Retry(u)
    <2>1. /\ pc[u] = "request" /\ pc'[u] = "sleep" /\ timer'[u] = 0
          /\ holds'[u] = holds[u] /\ elapsed'[u] = elapsed[u]
          /\ \A e \in holds[u] : age'[e] = 0
        BY <1>4 DEF Retry, Refreshed
    <2>2. elapsed[u] < MaxElapsed
        BY <1>4 DEF Retry, Stops
    <2>3. pause'[u] \in Nat
        OBVIOUS
    <2>4. SleepClock(u)' /\ RetryClock(u)'
        BY <2>1, <2>2, <2>3 DEF SleepClock, RetryClock
    <2>5. Clock(u)'
        BY <2>1, <2>4 DEF Clock
    <2> QED BY <2>5, <1>1 DEF Clocks
<1>5. CASE Wake(u)
    <2>1. /\ pc[u] = "sleep" /\ pc'[u] = "request" /\ timer'[u] = 0
          /\ timer[u] = pause[u] /\ pause[u] \in 0..BackoffMax
          /\ UNCHANGED <<age, holds, elapsed>>
        BY <1>5 DEF Wake
    <2>2. SleepClock(u) /\ elapsed[u] < MaxElapsed + timer[u]
        BY <1>2, <2>1 DEF Clock, RetryClock
    <2>3. RequestClock(u)'
        BY <2>1, <2>2 DEF SleepClock, RequestClock
    <2>4. RetryClock(u)'
        BY <2>1, <2>2 DEF RetryClock
    <2>5. Clock(u)'
        BY <2>1, <2>3, <2>4 DEF Clock
    <2> QED BY <2>5, <1>1 DEF Clocks
<1>6. CASE Crash(u)
    <2>1. pc'[u] = "down" /\ holds'[u] = {} /\ timer'[u] = 0 /\ elapsed'[u] = 0
        BY <1>6 DEF Crash
    <2>2. Clock(u)'
        BY <2>1 DEF Clock, RetryClock
    <2> QED BY <2>2, <1>1 DEF Clocks
<1>7. CASE Restart(u)
    <2>1. pc[u] = "down" /\ pc'[u] = "idle" /\ UNCHANGED <<age, holds, timer, elapsed>>
        BY <1>7 DEF Restart
    <2>2. holds'[u] = {} /\ timer'[u] = 0 /\ elapsed'[u] = 0
        BY <1>2, <2>1 DEF Clock
    <2>3. Clock(u)'
        BY <2>1, <2>2 DEF Clock, IdleClock, RetryClock
    <2> QED BY <2>3, <1>1 DEF Clocks
<1> QED BY <1>3, <1>4, <1>5, <1>6, <1>7

(* A unit of time passes: no place is stayed in for longer than allowed.   *)
LEMMA TickClocks ==
    ASSUME TypeOK, TypeOK', Clocks, Tick
    PROVE Clocks'
<1> USE Constants DEF TypeOK
<1> SUFFICES ASSUME NEW u \in Uploaders PROVE Clock(u)'
    BY DEF Clocks
<1>1. Clock(u) /\ MayStay(u)
    BY DEF Clocks, Tick
<1>2. pc'[u] = pc[u] /\ holds'[u] = holds[u] /\ pause'[u] = pause[u]
    BY DEF Tick
<1>3. \A e \in Event : age'[e] <= age[e] + 1
    BY DEF Tick
<1>4. timer'[u] = IF pc[u] = "down" THEN 0 ELSE timer[u] + 1
    BY DEF Tick
<1>5. /\ pc[u] = "idle" /\ holds[u] # {} => waited'[u] = waited[u] + 1
      /\ elapsed'[u] = IF pc[u] \in {"request", "sleep"} THEN elapsed[u] + 1 ELSE elapsed[u]
    BY DEF Tick
<1>6. CASE pc[u] = "idle"
    <2>1. IdleClock(u) /\ elapsed[u] = 0 /\ timer[u] < CycleTime
        BY <1>1, <1>6 DEF Clock, RetryClock, MayStay
    <2>2. IdleClock(u)'
        BY <1>2, <1>3, <1>4, <1>5, <1>6, <2>1 DEF IdleClock
    <2> QED BY <1>2, <1>5, <1>6, <2>1, <2>2 DEF Clock, RetryClock
<1>7. CASE pc[u] = "request"
    <2>1. /\ RequestClock(u) /\ timer[u] < RequestTime
          /\ elapsed[u] < MaxElapsed + BackoffMax + timer[u]
        BY <1>1, <1>7 DEF Clock, RetryClock, MayStay
    <2>2. RequestClock(u)'
        BY <1>2, <1>3, <1>4, <1>7, <2>1 DEF RequestClock
    <2> QED BY <1>2, <1>4, <1>5, <1>7, <2>1, <2>2 DEF Clock, RetryClock
<1>8. CASE pc[u] = "sleep"
    <2>1. SleepClock(u) /\ timer[u] < pause[u] /\ elapsed[u] < MaxElapsed + timer[u]
        BY <1>1, <1>8 DEF Clock, RetryClock, MayStay
    <2>2. SleepClock(u)'
        BY <1>2, <1>3, <1>4, <1>8, <2>1 DEF SleepClock
    <2> QED BY <1>2, <1>4, <1>5, <1>8, <2>1, <2>2 DEF Clock, RetryClock
<1>9. CASE pc[u] = "down"
    BY <1>1, <1>2, <1>4, <1>5, <1>9 DEF Clock, RetryClock
<1> QED BY <1>6, <1>7, <1>8, <1>9

LEMMA ClocksStep == TypeOK /\ TypeOK' /\ Clocks /\ [Next]_vars => Clocks'
<1> SUFFICES ASSUME TypeOK, TypeOK', Clocks, [Next]_vars PROVE Clocks'
    OBVIOUS
<1>1. CASE \E u \in Uploaders : Cycle(u)
    BY <1>1, CycleClocks
<1>2. CASE \E u \in Uploaders :
            Answer(u) \/ Retry(u) \/ GiveUp(u) \/ Wake(u) \/ Crash(u) \/ Restart(u)
    BY <1>2, ProcessClocks DEF Answer, GiveUp
<1>3. CASE Tick
    BY <1>3, TickClocks
<1>4. CASE UNCHANGED vars
    BY <1>4 DEF vars, Clocks, Clock, IdleClock, RequestClock, SleepClock, RetryClock
<1> QED BY <1>1, <1>2, <1>3, <1>4 DEF Next

THEOREM ClocksHold == Spec => []Clocks
<1>1. Init => Clocks
    BY Constants DEF Init, Clocks, Clock, IdleClock, RetryClock
<1> QED BY <1>1, TypeCorrect, ClocksStep, PTL DEF Spec

-----------------------------------------------------------------------------
(* What the clocks give                                                    *)

LEMMA ClocksEndRetrying == TypeOK /\ Clocks => RetryingEnds
<1> SUFFICES ASSUME TypeOK, Clocks, NEW u \in Uploaders
             PROVE elapsed[u] < MaxElapsed + BackoffMax + RequestTime
    BY DEF RetryingEnds
<1> USE Constants DEF TypeOK
<1>1. Clock(u)
    BY DEF Clocks
<1>2. CASE pc[u] = "request"
    BY <1>1, <1>2 DEF Clock, RetryClock, RequestClock
<1>3. CASE pc[u] = "sleep"
    BY <1>1, <1>3 DEF Clock, RetryClock, SleepClock
<1>4. CASE pc[u] \in {"idle", "down"}
    BY <1>1, <1>4 DEF Clock, RetryClock
<1> QED BY <1>2, <1>3, <1>4

(* No batch keeps its uploader busy for longer than max_elapsed_seconds,   *)
(* one back-off and one request, whatever the settings and the failures.   *)
THEOREM RetriesBounded == Spec => []RetryingEnds
BY TypeCorrect, ClocksHold, ClocksEndRetrying, PTL

LEMMA ClocksOrphanStale ==
    ASSUME SettingsFit, TypeOK, Clocks
    PROVE StaleIsOrphaned
<1> SUFFICES ASSUME NEW e \in Event, Stale(e), NEW u \in Uploaders, e \in holds[u]
             PROVE FALSE
    BY DEF StaleIsOrphaned
<1> USE Constants DEF TypeOK
<1>1. Clock(u) /\ age[e] >= StaleAfter
    BY DEF Clocks, Stale
<1>2. CASE pc[u] = "idle"
    BY <1>1, <1>2 DEF Clock, IdleClock, SettingsFit
<1>3. CASE pc[u] = "request"
    BY <1>1, <1>3 DEF Clock, RequestClock, SettingsFit
<1>4. CASE pc[u] = "sleep"
    BY <1>1, <1>4 DEF Clock, SleepClock, SettingsFit
<1>5. CASE pc[u] = "down"
    BY <1>1, <1>5 DEF Clock
<1> QED BY <1>2, <1>3, <1>4, <1>5

(* Under settings that fit, whatever the claim takes for stale belongs to  *)
(* no living uploader: what module Uploader assumes with Timely.           *)
THEOREM StaleRowsAreOrphans ==
    ASSUME SettingsFit
    PROVE Spec => []StaleIsOrphaned
BY TypeCorrect, ClocksHold, ClocksOrphanStale, PTL

-----------------------------------------------------------------------------
(* Exclusive claims                                                        *)

HeldUploading == \A u \in Uploaders : \A e \in holds[u] : status[e] = "UPLOADING"

(* What is claimed was in nobody's hands: a row that is due and not stale  *)
(* is not UPLOADING, one that is stale is orphaned.                        *)
LEMMA DueIsFree ==
    ASSUME HeldUploading, StaleIsOrphaned, NEW e \in Event, Due(e), NEW u \in Uploaders
    PROVE e \notin holds[u]
BY DEF HeldUploading, StaleIsOrphaned, Due

LEMMA ExclusiveStep ==
    TypeOK /\ HeldUploading /\ ExclusiveClaims /\ StaleIsOrphaned /\ [Next]_vars
        => HeldUploading' /\ ExclusiveClaims'
<1> SUFFICES ASSUME TypeOK, HeldUploading, ExclusiveClaims, StaleIsOrphaned, [Next]_vars
             PROVE HeldUploading' /\ ExclusiveClaims'
    OBVIOUS
<1> USE DEF TypeOK, HeldUploading, ExclusiveClaims
<1>1. ASSUME NEW u \in Uploaders, Cycle(u)
      PROVE HeldUploading' /\ ExclusiveClaims'
    <2>1. PICK S \in SUBSET {e \in Event : Due(e)} :
            /\ status' = [e \in Event |-> IF e \in S THEN "UPLOADING" ELSE status[e]]
            /\ holds' = [holds EXCEPT ![u] = holds[u] \cup S]
        BY <1>1 DEF Cycle
    <2>2. \A e \in S, v \in Uploaders : e \notin holds[v]
        BY DueIsFree
    <2>3. HeldUploading'
        BY <2>1
    <2>4. ExclusiveClaims'
        BY <2>1, <2>2
    <2> QED BY <2>3, <2>4
<1>2. ASSUME NEW u \in Uploaders, NEW outcomes, Finish(u, outcomes)
      PROVE HeldUploading' /\ ExclusiveClaims'
    <2>1. PICK outcome \in [holds[u] -> outcomes] :
            status' = [e \in Event |-> IF e \in holds[u] THEN outcome[e] ELSE status[e]]
        BY <1>2 DEF Finish
    <2>2. holds' = [holds EXCEPT ![u] = {}]
        BY <1>2 DEF Finish
    <2>3. ASSUME NEW v \in Uploaders, NEW e \in holds'[v] PROVE status'[e] = "UPLOADING"
        <3>1. v # u /\ e \in holds[v] /\ e \notin holds[u]
            BY <2>2, <2>3
        <3> QED BY <2>1, <3>1
    <2>4. ExclusiveClaims'
        BY <2>2
    <2> QED BY <2>3, <2>4
<1>3. ASSUME NEW u \in Uploaders, Retry(u) \/ Wake(u) \/ Restart(u)
      PROVE HeldUploading' /\ ExclusiveClaims'
    BY <1>3 DEF Retry, Wake, Restart
<1>4. ASSUME NEW u \in Uploaders, Crash(u)
      PROVE HeldUploading' /\ ExclusiveClaims'
    BY <1>4 DEF Crash
<1>5. CASE Tick
    BY <1>5 DEF Tick
<1>6. CASE UNCHANGED vars
    BY <1>6 DEF vars
<1> QED
    BY <1>1, <1>2, <1>3, <1>4, <1>5, <1>6 DEF Next, Answer, GiveUp

(* Under settings that fit, no row is in the hands of two uploaders.       *)
THEOREM ClaimsAreExclusive ==
    ASSUME SettingsFit
    PROVE Spec => []ExclusiveClaims
<1>1. Init => HeldUploading /\ ExclusiveClaims
    BY DEF Init, HeldUploading, ExclusiveClaims
<1> QED
    BY <1>1, TypeCorrect, StaleRowsAreOrphans, ExclusiveStep, PTL DEF Spec
=============================================================================
