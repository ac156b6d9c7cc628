------------------------ MODULE GatewayLedgerProofs -------------------------
(***************************************************************************)
(* Proofs about the ledger of the whole gateway, for any number of events, *)
(* workers, operators and uploaders, while no uploader outlives            *)
(* stale_after and the two races of Unraced do not happen: attempts, dead  *)
(* letters, statuses and digests, and that the gateway keeps what          *)
(* EventHistory promises.  Where a race does happen the statuses do not    *)
(* hold: see run two_workers.                                              *)
(***************************************************************************)
EXTENDS GatewayStageProofs

-----------------------------------------------------------------------------
(* Steps of the intake stage are steps of module Intake                    *)

(* Gateway takes its actions from Intake itself, the lemmas used of them   *)
(* are in the module that extends it.                                      *)
LEMMA IngestAsIntake ==
    ASSUME NEW e \in Event, In!Ingest(e)
    PROVE  Itk!Ingest(e)
<1>2. CASE In!IngestNew(e)
    BY <1>2 DEF In!IngestNew, Itk!IngestNew, Itk!Ingest, In!Inserted, Itk!Inserted,
        In!CanMove, Itk!CanMove, In!AllowedTransitions, Itk!AllowedTransitions
<1>3. CASE In!IngestDuplicate(e)
    BY <1>3 DEF In!IngestDuplicate, Itk!IngestDuplicate, Itk!Ingest, In!ledger, Itk!ledger
<1>4. CASE In!IngestInvalid(e)
    BY <1>4 DEF In!IngestInvalid, Itk!IngestInvalid, Itk!Ingest, In!Garbage, Itk!Garbage,
        In!Blank, Itk!Blank, In!CanMove, Itk!CanMove, In!AllowedTransitions, Itk!AllowedTransitions
<1>5. CASE In!Publish(e)
    BY <1>5 DEF In!Publish, Itk!Publish, Itk!Ingest, In!Send, Itk!Send, In!ledger, Itk!ledger
<1>6. CASE In!ApiCrash(e)
    BY <1>6 DEF In!ApiCrash, Itk!ApiCrash, Itk!Ingest, In!Send, Itk!Send, In!ledger, Itk!ledger
<1> QED BY <1>2, <1>3, <1>4, <1>5, <1>6 DEF In!Ingest

LEMMA WorkAsIntake ==
    ASSUME NEW w \in Workers, In!Work(w)
    PROVE  Itk!Work(w)
<1>1. ASSUME NEW m \in queue, In!Receive(w, m) PROVE Itk!Work(w)
    BY <1>1 DEF In!Receive, Itk!Receive, Itk!Work, In!Idle, Itk!Idle, In!ledger, Itk!ledger
<1>2. CASE In!Process(w)
    <2>1. In!Verdict(worker[w], lead[worker[w].message.event])
            = Itk!Verdict(worker[w], lead[worker[w].message.event])
        BY DEF In!Verdict, Itk!Verdict, In!Permitted, Itk!Permitted, In!Decision, Itk!Decision,
            In!Blocks, Itk!Blocks, In!Reuses, Itk!Reuses, In!Rejects, Itk!Rejects
    <2>2. In!Digests(worker[w]) = Itk!Digests(worker[w])
        BY DEF In!Digests, Itk!Digests, In!Reuses, Itk!Reuses
    <2>3. \A s, t : In!CanMove(s, t) <=> Itk!CanMove(s, t)
        BY DEF In!CanMove, Itk!CanMove, In!AllowedTransitions, Itk!AllowedTransitions
    <2> QED BY <1>2, <2>1, <2>2, <2>3 DEF In!Process, Itk!Process, Itk!Work
<1>3. CASE In!Skip(w) \/ In!Ack(w) \/ In!Redeliver(w)
    BY <1>3 DEF In!Skip, Itk!Skip, In!Ack, Itk!Ack, In!Redeliver, Itk!Redeliver, Itk!Work,
        In!Resting, Itk!Resting, In!Idle, Itk!Idle, In!ledger, Itk!ledger
<1> QED BY <1>1, <1>2, <1>3 DEF In!Work

LEMMA OperatorAsIntake ==
    /\ In!Reconcile => Itk!Reconcile
    /\ \A o \in Operators :
        In!ReplayRead(o) \/ In!ReplayPublish(o) \/ In!ReplayAbort(o) \/ In!ReplayCommit(o)
            => Itk!Replay(o)
<1>1. ASSUME In!Reconcile PROVE Itk!Reconcile
    BY <1>1 DEF In!Reconcile, Itk!Reconcile, In!ReconcileRead, Itk!ReconcileRead,
        In!ReconcilePublish, Itk!ReconcilePublish, In!ReconcileAbort, Itk!ReconcileAbort,
        In!Recoverable, Itk!Recoverable, In!EmptyMessage, Itk!EmptyMessage, In!ledger, Itk!ledger
<1>2. ASSUME NEW o \in Operators, In!ReplayRead(o) PROVE Itk!Replay(o)
    BY <1>2 DEF In!ReplayRead, Itk!ReplayRead, Itk!Replay, In!Idle, Itk!Idle, In!ledger, Itk!ledger
<1>3. ASSUME NEW o \in Operators, In!ReplayPublish(o) \/ In!ReplayAbort(o) PROVE Itk!Replay(o)
    BY <1>3 DEF In!ReplayPublish, Itk!ReplayPublish, In!ReplayAbort, Itk!ReplayAbort, Itk!Replay,
        In!EmptyMessage, Itk!EmptyMessage, In!Resting, Itk!Resting, In!Idle, Itk!Idle,
        In!ledger, Itk!ledger
<1>4. ASSUME NEW o \in Operators, In!ReplayCommit(o) PROVE Itk!Replay(o)
    BY <1>4 DEF In!ReplayCommit, Itk!ReplayCommit, Itk!Replay, In!Resting, Itk!Resting,
        In!CanMove, Itk!CanMove, In!AllowedTransitions, Itk!AllowedTransitions
<1> QED BY <1>1, <1>2, <1>3, <1>4

LEMMA IntakeStepAsIntake ==
    ASSUME IntakeStep
    PROVE  Itk!Next
BY IngestAsIntake, WorkAsIntake, OperatorAsIntake
DEF IntakeStep, Intakes, ReplayCommit, Itk!Next

-----------------------------------------------------------------------------
(* Steps of the intake stage keep the invariant                            *)

(* All but a replay leave to the uploaders what is theirs.                 *)
QuietRows ==
    /\ UNCHANGED <<attempt_count, letters, replayed, upload>>
    /\ \A e \in Event :
        status'[e] = status[e] \/ (status[e] \notin Claimed /\ status'[e] \notin Claimed)

LEMMA QuietKeepsStage ==
    ASSUME Timely, Agreed, QuietRows
    PROVE  Stg!TimelySafe' /\ Stg!Unclaimed' /\ LettersAgree'
<1>1. UNCHANGED <<attempt_count, letters, replayed, accepted, late, pc, batch, tries, result,
                  why, seen>>
    BY DEF QuietRows, upload
<1>2. \A e \in Event : ToUploader(status'[e]) = ToUploader(status[e])
    BY DEF QuietRows, ToUploader
<1>3. \A e \in Event : status'[e] = "DEAD_LETTERED" <=> status[e] = "DEAD_LETTERED"
    BY DEF QuietRows, Claimed
<1>4. \A e \in Event : LastLetter(e)' = LastLetter(e)
    BY <1>1, <1>3 DEF LastLetter
<1>5. UNCHANGED Stg!vars
    BY <1>1, <1>2, <1>4 DEF Stg!vars, Stg!ledger, Stg!platform, Stg!process
<1>6. Stg!TimelySafe /\ Stg!Unclaimed /\ LettersAgree
    BY DEF Agreed
<1>7. Stg!TimelySafe'
    BY <1>5, <1>6, Stg!NextTimely, UploaderAssumptions
<1>8. Stg!Unclaimed'
    BY <1>5, <1>6, Stg!UnclaimedStep, UploaderAssumptions
<1>9. LettersAgree'
    BY <1>1, <1>3, <1>6 DEF LettersAgree, OpenLetters
<1> QED BY <1>7, <1>8, <1>9

LEMMA SentUnchanged ==
    ASSUME UNCHANGED upload
    PROVE  Sent' = Sent
BY DEF upload, Sent, Up!RowsOf

(* A row that is inserted has no digests, is in no message and was never   *)
(* sent.                                                                   *)
LEMMA IngestQuiet ==
    ASSUME Agreed, NEW e \in Event, Intakes(In!Ingest(e))
    PROVE  QuietRows /\ ReadsCurrent' /\ DigestsAgree'
<1>1. UNCHANGED <<hashed, worker, operator, attempt_count, letters, replayed, upload>>
    BY DEF Intakes, In!Ingest, In!IngestNew, In!IngestDuplicate, In!IngestInvalid,
        In!Publish, In!ApiCrash, In!ledger
<1>2. DOMAIN status = Event /\ DOMAIN lead = Event
    BY DEF Agreed, Grounded, Inv, Shape
<1>3. \A x \in Event :
        \/ status'[x] = status[x] /\ lead'[x] = lead[x]
        \/ status[x] = "ABSENT" /\ status'[x] \in {"QUEUED", "REJECTED"}
    BY <1>2 DEF Intakes, In!Ingest, In!IngestNew, In!Inserted, In!IngestDuplicate,
        In!IngestInvalid, In!Publish, In!ApiCrash, In!ledger
<1>4. QuietRows
    BY <1>1, <1>3 DEF QuietRows, Claimed
<1>5. ReadsCurrent'
    <2>1. ASSUME NEW w \in Workers PROVE JobCurrent(w)'
        BY <1>1, <1>3, BusyWithEvents DEF Agreed, Itk!Safe, ReadsCurrent, JobCurrent
    <2>2. ASSUME NEW o \in Operators PROVE ReplayCurrent(o)'
        BY <1>1, <1>3, BusyWithEvents DEF Agreed, Itk!Safe, ReadsCurrent, ReplayCurrent
    <2> QED BY <2>1, <2>2 DEF ReadsCurrent
<1>6. DigestsAgree'
    <2>1. \A x \in Event : status[x] = "ABSENT" => hashed[x] = "null" /\ x \notin Sent
        BY DEF Agreed, Grounded, Inv, BlanksHaveClicks, RowOK, ClearedStayFit
    <2>2. \A x \in Event : Handled(x)' => Handled(x) /\ status[x] # "ABSENT"
        BY <1>1, <1>3, <2>1, SentUnchanged DEF Handled, Waits
    <2> QED BY <1>1, <1>3, <2>1, <2>2 DEF Agreed, DigestsAgree
<1> QED BY <1>4, <1>5, <1>6

(* Reading, publishing and acknowledging write no row.                     *)
RowsAlone == UNCHANGED <<status, lead, hashed, attempt_count, letters, replayed, upload>>

LEMMA RowsAloneQuiet ==
    ASSUME DigestsAgree, RowsAlone
    PROVE  QuietRows /\ DigestsAgree'
<1>1. \A e \in Event : Handled(e)' <=> Handled(e)
    BY SentUnchanged DEF RowsAlone, Handled, Waits
<1>2. DigestsAgree'
    BY <1>1 DEF DigestsAgree, RowsAlone
<1> QED BY <1>2 DEF RowsAlone, QuietRows

LEMMA ReceiveQuiet ==
    ASSUME Agreed, NEW w \in Workers, NEW m \in queue, Intakes(In!Receive(w, m))
    PROVE  QuietRows /\ ReadsCurrent' /\ DigestsAgree'
<1>1. RowsAlone /\ operator' = operator
    BY DEF Intakes, In!Receive, In!ledger, RowsAlone
<1>2. worker' = [worker EXCEPT ![w] =
            [step |-> "read", message |-> m, status |-> status[m.event],
             hashed |-> hashed[m.event]]]
    BY DEF Intakes, In!Receive
<1>3. /\ worker'[w] = [step |-> "read", message |-> m, status |-> status[m.event],
                       hashed |-> hashed[m.event]]
      /\ \A v \in Workers : v # w => worker'[v] = worker[v]
    BY <1>2 DEF Agreed, Grounded, Inv, Shape
<1>4. JobCurrent(w)'
    BY <1>1, <1>3 DEF JobCurrent, RowsAlone
<1>5. ReadsCurrent'
    BY <1>1, <1>3, <1>4 DEF Agreed, ReadsCurrent, JobCurrent, ReplayCurrent, RowsAlone
<1> QED BY <1>1, <1>5, RowsAloneQuiet DEF Agreed

LEMMA RestingQuiet ==
    ASSUME Agreed, NEW w \in Workers,
           Intakes(In!Skip(w) \/ In!Ack(w) \/ In!Redeliver(w))
    PROVE  QuietRows /\ ReadsCurrent' /\ DigestsAgree'
<1>1. RowsAlone /\ operator' = operator
    BY DEF Intakes, In!Skip, In!Ack, In!Redeliver, In!ledger, RowsAlone
<1>2. /\ worker'[w].step # "read"
      /\ \A v \in Workers : v # w => worker'[v] = worker[v]
    BY DEF Agreed, Grounded, Inv, Shape, Intakes, In!Skip, In!Ack, In!Redeliver, In!Resting
<1>3. ReadsCurrent'
    BY <1>1, <1>2 DEF Agreed, ReadsCurrent, JobCurrent, ReplayCurrent, RowsAlone
<1> QED BY <1>1, <1>3, RowsAloneQuiet DEF Agreed

LEMMA ReconcileQuiet ==
    ASSUME Agreed, Intakes(In!Reconcile)
    PROVE  QuietRows /\ ReadsCurrent' /\ DigestsAgree'
<1>1. RowsAlone /\ UNCHANGED <<worker, operator>>
    BY DEF Intakes, In!Reconcile, In!ReconcileRead, In!ReconcilePublish, In!ReconcileAbort,
        In!ledger, RowsAlone
<1>2. ReadsCurrent'
    BY <1>1 DEF Agreed, ReadsCurrent, JobCurrent, ReplayCurrent, RowsAlone
<1> QED BY <1>1, <1>2, RowsAloneQuiet DEF Agreed

(* The only open dead letter is the last.                                  *)
LEMMA ReplayStartQuiet ==
    ASSUME Agreed, NEW o \in Operators,
           Intakes(In!ReplayRead(o) \/ In!ReplayPublish(o) \/ In!ReplayAbort(o))
    PROVE  QuietRows /\ ReadsCurrent' /\ DigestsAgree'
<1>1. RowsAlone /\ worker' = worker
    BY DEF Intakes, In!ReplayRead, In!ReplayPublish, In!ReplayAbort, In!ledger, RowsAlone
<1>2. operator \in [Operators -> Itk!Replays]
    BY DEF Agreed, Itk!Safe, Itk!TypeOK
<1>3. ReplayCurrent(o)'
    <2>1. CASE In!ReplayRead(o)
        <3>1. PICK e \in Event :
                /\ status[e] = "DEAD_LETTERED"
                /\ \E d \in OpenLetters(e) :
                    operator' = [operator EXCEPT ![o] = [step |-> "read", event |-> e, row |-> d]]
            BY <2>1 DEF In!ReplayRead
        <3>2. OpenLetters(e) = {Len(letters[e])}
            BY <3>1 DEF Agreed, LettersAgree
        <3>3. operator'[o] = [step |-> "read", event |-> e, row |-> Len(letters[e])]
            BY <1>2, <3>1, <3>2
        <3> QED BY <1>1, <3>1, <3>3 DEF ReplayCurrent, RowsAlone
    <2>2. CASE In!ReplayPublish(o)
        <3>1. operator[o] \in [step : {"read", "published"}, event : Event, row : Nat]
            BY <1>2, <2>2 DEF In!ReplayPublish, Itk!Replays, Itk!Resting
        <3>2. operator' = [operator EXCEPT ![o] = [operator[o] EXCEPT !.step = "published"]]
            BY <2>2 DEF In!ReplayPublish
        <3>3. operator'[o].event = operator[o].event /\ operator'[o].row = operator[o].row
            BY <1>2, <3>1, <3>2
        <3>4. ReplayCurrent(o) /\ operator[o].step # "idle"
            BY <2>2 DEF Agreed, ReadsCurrent, In!ReplayPublish
        <3> QED BY <1>1, <3>3, <3>4 DEF ReplayCurrent, RowsAlone
    <2>3. CASE In!ReplayAbort(o)
        BY <1>2, <2>3 DEF In!ReplayAbort, ReplayCurrent, In!Resting
    <2> QED BY <2>1, <2>2, <2>3 DEF Intakes
<1>4. \A p \in Operators : p # o => operator'[p] = operator[p]
    BY <1>2 DEF Intakes, In!ReplayRead, In!ReplayPublish, In!ReplayAbort
<1>5. ReadsCurrent'
    BY <1>1, <1>3, <1>4 DEF Agreed, ReadsCurrent, JobCurrent, ReplayCurrent, RowsAlone
<1> QED BY <1>1, <1>5, RowsAloneQuiet DEF Agreed

(* The row it decides on is as it was read, and no other worker is about   *)
(* to decide on it.                                                        *)
LEMMA ProcessQuiet ==
    ASSUME Unraced, Agreed, NEW w \in Workers, Intakes(In!Process(w))
    PROVE  QuietRows /\ ReadsCurrent' /\ DigestsAgree'
<1>1. PICK e \in Event : /\ e = worker[w].message.event
                         /\ status[e] = "QUEUED" /\ worker[w].hashed = hashed[e]
    <2>1. worker[w].step = "read" /\ worker[w].status = "QUEUED"
        BY DEF Intakes, In!Process
    <2> QED BY <2>1, BusyWithEvents DEF Agreed, Itk!Safe, ReadsCurrent, JobCurrent
<1> DEFINE v == In!Verdict(worker[w], lead[e])
<1>2. /\ worker[w].step = "read" /\ worker[w].status = "QUEUED"
      /\ status' = [status EXCEPT ![e] = v]
      /\ hashed' = IF v = "PROCESSED"
                   THEN [hashed EXCEPT ![e] = In!Digests(worker[w])] ELSE hashed
      /\ worker' = [worker EXCEPT ![w] = [step |-> "ack", message |-> worker[w].message]]
      /\ UNCHANGED <<lead, operator, attempt_count, letters, replayed, upload>>
    BY <1>1 DEF Intakes, In!Process
<1>3. v \in {"SUPPRESSED", "REJECTED", "PROCESSED"}
    BY DEF In!Verdict
<1>4. DOMAIN status = Event /\ DOMAIN hashed = Event /\ DOMAIN worker = Workers
    BY DEF Agreed, Grounded, Inv, Shape
<1>5. /\ status'[e] = v
      /\ \A x \in Event : x # e => status'[x] = status[x] /\ hashed'[x] = hashed[x]
      /\ hashed'[e] = IF v = "PROCESSED" THEN In!Digests(worker[w]) ELSE hashed[e]
    BY <1>1, <1>2, <1>4
<1>6. v = "PROCESSED" => /\ In!Permitted(lead[e].consent)
                         /\ In!Digests(worker[w]) \in {"digests", "blank"}
    <2>1. HAVE v = "PROCESSED"
    <2>2. In!Digests(worker[w]) \in {"digests", "blank"}
        BY <1>1, <1>2, <2>1, OnlyFitIsPassed DEF Agreed, Grounded
    <2> QED BY <2>1, <2>2 DEF In!Verdict
<1>7. In!Digests(worker[w]) = "digests" => lead[e].ids = "good"
    <2>1. worker[w].message.ids \in {lead[e].ids, "none"}
        BY <1>1, <1>2 DEF Agreed, Itk!Safe, Itk!Sound, Itk!JobSound, Itk!MessageSound
    <2>2. hashed[e] = "digests" => lead[e].ids = "good"
        BY <1>1 DEF Agreed, DigestsAgree
    <2> QED BY <1>1, <2>1, <2>2 DEF In!Digests
<1> HIDE DEF v
<1>8. QuietRows
    BY <1>1, <1>2, <1>3, <1>5 DEF QuietRows, Claimed
<1>9. ReadsCurrent'
    <2>1. ASSUME NEW x \in Workers PROVE JobCurrent(x)'
        <3>1. CASE x = w
            BY <1>2, <1>4, <3>1 DEF JobCurrent
        <3>2. CASE x # w
            <4>1. worker'[x] = worker[x]
                BY <1>2, <3>2
            <4>2. AboutToProcess(x) =>
                    worker[x].message.event \in Event /\ worker[x].message.event # e
                BY <1>1, <1>2, <3>2, BusyWithEvents
                DEF Unraced, AboutToProcess, Agreed, Itk!Safe
            <4>3. JobCurrent(x)
                BY DEF Agreed, ReadsCurrent
            <4> QED BY <1>5, <4>1, <4>2, <4>3 DEF JobCurrent, AboutToProcess
        <3> QED BY <3>1, <3>2
    <2>2. ASSUME NEW o \in Operators PROVE ReplayCurrent(o)'
        <3>1. operator[o].step # "idle" =>
                operator[o].event \in Event /\ operator[o].event # e
            BY <1>1, BusyWithEvents DEF Agreed, Itk!Safe, ReadsCurrent, ReplayCurrent
        <3> QED BY <1>2, <1>5, <3>1 DEF Agreed, ReadsCurrent, ReplayCurrent
    <2> QED BY <2>1, <2>2 DEF ReadsCurrent
<1>10. DigestsAgree'
    <2>1. Sent' = Sent
        BY <1>2, SentUnchanged
    <2>2. ASSUME NEW x \in Event, x # e
          PROVE  /\ hashed'[x] = "digests" => lead'[x].ids = "good"
                 /\ hashed'[x] # "null" => In!Permitted(lead'[x].consent)
                 /\ Handled(x)' => hashed'[x] # "null"
        BY <1>2, <1>5, <2>1, <2>2 DEF Agreed, DigestsAgree, Handled, Waits
    <2>3. /\ hashed'[e] = "digests" => lead'[e].ids = "good"
          /\ hashed'[e] # "null" => In!Permitted(lead'[e].consent)
        BY <1>1, <1>2, <1>5, <1>6, <1>7 DEF Agreed, DigestsAgree
    <2>4. Handled(e)' => hashed'[e] # "null"
        BY <1>1, <1>3, <1>5, <1>6, <2>1 DEF Agreed, DigestsAgree, Handled, Waits
    <2> QED BY <2>2, <2>3, <2>4 DEF DigestsAgree
<1> QED BY <1>8, <1>9, <1>10

(* A replay closes the one open dead letter; to the uploaders the row      *)
(* starts afresh.                                                          *)
LEMMA ReplayCommitMoves ==
    ASSUME Agreed, NEW o \in Operators, ReplayCommit(o)
    PROVE  \E e \in Event :
            /\ e = operator[o].event
            /\ status[e] = "DEAD_LETTERED" /\ OpenLetters(e) = {operator[o].row}
            /\ status' = [status EXCEPT ![e] = "QUEUED"]
            /\ replayed' = [replayed EXCEPT ![e] = @ \cup {operator[o].row}]
            /\ attempt_count' = [attempt_count EXCEPT ![e] = 0]
            /\ UNCHANGED <<letters, lead, hashed, worker, upload>>
            /\ operator' = [operator EXCEPT ![o] = In!Resting]
<1> DEFINE e == operator[o].event
<1>1. /\ operator[o].step = "published"
      /\ status' = [status EXCEPT ![e] = "QUEUED"]
      /\ replayed' = [replayed EXCEPT ![e] = @ \cup {operator[o].row}]
      /\ attempt_count' = [attempt_count EXCEPT ![e] = 0]
      /\ UNCHANGED <<letters, lead, hashed, worker, upload>>
      /\ operator' = [operator EXCEPT ![o] = In!Resting]
    BY DEF ReplayCommit, In!ReplayCommit, AttemptsReset
<1>2. e \in Event /\ status[e] = "DEAD_LETTERED" /\ operator[o].row = Len(letters[e])
    BY <1>1, BusyWithEvents DEF Agreed, Itk!Safe, ReadsCurrent, ReplayCurrent
<1>3. OpenLetters(e) = {operator[o].row}
    BY <1>2 DEF Agreed, LettersAgree
<1> QED BY <1>1, <1>2, <1>3

LEMMA ReplayCommitAgrees ==
    ASSUME Unraced, Agreed, NEW o \in Operators, ReplayCommit(o)
    PROVE  /\ Stg!TimelySafe' /\ Stg!Unclaimed'
           /\ LettersAgree' /\ ReadsCurrent' /\ DigestsAgree'
<1>1. PICK e \in Event :
        /\ e = operator[o].event
        /\ status[e] = "DEAD_LETTERED" /\ OpenLetters(e) = {operator[o].row}
        /\ status' = [status EXCEPT ![e] = "QUEUED"]
        /\ replayed' = [replayed EXCEPT ![e] = @ \cup {operator[o].row}]
        /\ attempt_count' = [attempt_count EXCEPT ![e] = 0]
        /\ UNCHANGED <<letters, lead, hashed, worker, upload>>
        /\ operator' = [operator EXCEPT ![o] = In!Resting]
    BY ReplayCommitMoves
<1>0. operator[o].step # "idle"
    BY DEF ReplayCommit
<1>2. DOMAIN status = Event /\ DOMAIN operator = Operators /\ DOMAIN replayed = Event
    BY DEF Agreed, Grounded, Inv, Shape, Itk!Safe, Itk!TypeOK, LettersAgree
<1>3. status'[e] = "QUEUED" /\ \A x \in Event : x # e => status'[x] = status[x]
    BY <1>1, <1>2
<1>4. LettersAgree'
    <2>1. /\ letters[e] \in Seq(Up!FailureClasses) /\ DOMAIN letters[e] = 1..Len(letters[e])
          /\ replayed[e] \subseteq 1..Len(letters[e])
          /\ (DOMAIN letters[e]) \ replayed[e] = {operator[o].row}
        BY <1>1 DEF Agreed, LettersAgree, OpenLetters
    <2>2. replayed'[e] = replayed[e] \cup {operator[o].row}
        BY <1>1, <1>2
    <2>3. replayed'[e] \subseteq 1..Len(letters[e]) /\ (DOMAIN letters[e]) \ replayed'[e] = {}
        BY <2>1, <2>2
    <2>4. replayed' \in [Event -> SUBSET Nat]
        BY <1>1, <2>1 DEF Agreed, LettersAgree
    <2>5. \A x \in Event : x # e => replayed'[x] = replayed[x]
        BY <1>1, <1>2
    <2> QED
        BY <1>1, <1>3, <2>3, <2>4, <2>5 DEF Agreed, LettersAgree, OpenLetters
<1>5. Stg!Reopens(e)
    <2>1. \A x \in Event : ToUploader(status'[x]) =
            IF x = e THEN "PROCESSED" ELSE ToUploader(status[x])
        BY <1>3 DEF ToUploader, Claimed
    <2>2. \A x \in Event : LastLetter(x)' = IF x = e THEN <<>> ELSE LastLetter(x)
        BY <1>1, <1>3 DEF LastLetter
    <2>3. [x \in Event |-> ToUploader(status[x])]' =
            [[x \in Event |-> ToUploader(status[x])] EXCEPT ![e] = "PROCESSED"]
        BY <2>1
    <2>4. [x \in Event |-> LastLetter(x)]' =
            [[x \in Event |-> LastLetter(x)] EXCEPT ![e] = <<>>]
        BY <2>2
    <2>5. [x \in Event |-> ToUploader(status[x])][e] = "DEAD_LETTERED"
        BY <1>1 DEF ToUploader, Claimed
    <2>6. UNCHANGED <<Stg!platform, Stg!process>>
        BY <1>1 DEF upload, Stg!platform, Stg!process
    <2> QED BY <1>1, <2>3, <2>4, <2>5, <2>6, Zenon DEF Stg!Reopens
<1>6. Stg!TimelySafe' /\ Stg!Unclaimed'
    BY <1>5, Stg!ReopeningTimely, UploaderAssumptions DEF Agreed
<1>7. ReadsCurrent'
    <2>1. ASSUME NEW w \in Workers PROVE JobCurrent(w)'
        <3>1. worker[w].step = "read" => worker[w].message.event \in Event
            BY BusyWithEvents DEF Agreed, Itk!Safe
        <3> QED BY <1>1, <1>3, <3>1 DEF Agreed, ReadsCurrent, JobCurrent
    <2>2. ASSUME NEW p \in Operators PROVE ReplayCurrent(p)'
        <3>1. CASE p = o
            BY <1>1, <1>2, <3>1 DEF ReplayCurrent, In!Resting
        <3>2. CASE p # o
            <4>1. operator'[p] = operator[p]
                BY <1>1, <1>2, <3>2
            <4>2. operator[p].step # "idle" =>
                    operator[p].event \in Event /\ operator[p].event # e
                BY <1>0, <1>1, <3>2, BusyWithEvents DEF Unraced, In!Idle, Agreed, Itk!Safe
            <4>3. ReplayCurrent(p)
                BY DEF Agreed, ReadsCurrent
            <4> QED BY <1>1, <1>3, <4>1, <4>2, <4>3 DEF ReplayCurrent
        <3> QED BY <3>1, <3>2
    <2> QED BY <2>1, <2>2 DEF ReadsCurrent
<1>8. DigestsAgree'
    <2>1. \A x \in Event : Handled(x)' => Handled(x)
        BY <1>1, <1>3, SentUnchanged DEF Handled, Waits
    <2> QED BY <1>1, <2>1 DEF Agreed, DigestsAgree
<1> QED BY <1>4, <1>6, <1>7, <1>8

(* What a step of the intake stage leaves of the invariant, but for what   *)
(* modules GatewayProofs and IntakeProofs have shown of it.                *)
LEMMA IntakeStepAgrees ==
    ASSUME Timely, Unraced, Agreed, IntakeStep
    PROVE  /\ Stg!TimelySafe' /\ Stg!Unclaimed'
           /\ LettersAgree' /\ ReadsCurrent' /\ DigestsAgree'
<1>1. ASSUME QuietRows /\ ReadsCurrent' /\ DigestsAgree'
      PROVE  /\ Stg!TimelySafe' /\ Stg!Unclaimed'
             /\ LettersAgree' /\ ReadsCurrent' /\ DigestsAgree'
    BY <1>1, QuietKeepsStage
<1>2. ASSUME NEW w \in Workers, Intakes(In!Work(w))
      PROVE  QuietRows /\ ReadsCurrent' /\ DigestsAgree'
    <2>1. ASSUME NEW m \in queue, In!Receive(w, m)
          PROVE  QuietRows /\ ReadsCurrent' /\ DigestsAgree'
        BY <1>2, <2>1, ReceiveQuiet DEF Intakes
    <2>2. CASE In!Process(w)
        BY <1>2, <2>2, ProcessQuiet DEF Intakes
    <2>3. CASE In!Skip(w) \/ In!Ack(w) \/ In!Redeliver(w)
        BY <1>2, <2>3, RestingQuiet DEF Intakes
    <2> QED BY <1>2, <2>1, <2>2, <2>3 DEF Intakes, In!Work
<1> QED
    BY <1>1, <1>2, IngestQuiet, ReconcileQuiet, ReplayStartQuiet, ReplayCommitAgrees
    DEF IntakeStep

LEMMA IntakeKeepsAgreed ==
    ASSUME Timely, Unraced, Agreed, IntakeStep
    PROVE  Agreed'
<1>1. Grounded'
    BY IntakeKeepsGround DEF Agreed
<1>2. Itk!Safe'
    BY IntakeStepAsIntake, Itk!StepSafe, IntakeAssumptions DEF Agreed
<1> QED BY <1>1, <1>2, IntakeStepAgrees DEF Agreed

-----------------------------------------------------------------------------
(* The invariant                                                           *)

LEMMA InitAgreed == Init => Agreed
<1> SUFFICES ASSUME Init PROVE Agreed
    OBVIOUS
<1>1. /\ status = [e \in Event |-> "ABSENT"] /\ letters = [e \in Event |-> <<>>]
      /\ replayed = [e \in Event |-> {}]
    BY DEF Init
<1>2. \A e \in Event :
        /\ ToUploader(status[e]) = "PROCESSED" /\ LastLetter(e) = <<>>
        /\ Len(letters[e]) = 0 /\ OpenLetters(e) = {}
    BY <1>1 DEF ToUploader, Claimed, LastLetter, OpenLetters
<1>3. Stg!TimelySafe /\ Stg!Unclaimed
    <2>1. Stg!Init
        BY <1>2 DEF Init, Stg!Init, Stg!NothingRead, Up!NothingRead, Stg!Unread, Up!Unread
    <2>2. Stg!Unclaimed
        BY <2>1 DEF Stg!Init, Stg!Unclaimed
    <2> QED BY <2>1, <2>2, Stg!InitTimely, UploaderAssumptions
<1>4. Itk!Safe
    <2>1. \A u \in Uploaders : Loaded(u) = {}
        BY InitGround, LoadedFacts DEF Init
    <2>2. Itk!Init
        BY <1>2, <2>1 DEF Init, Itk!Init, In!NoLead, Itk!NoLead, In!Blank, Itk!Blank,
            In!Resting, Itk!Resting
    <2> QED BY <2>2, Itk!InitSafe, IntakeAssumptions
<1>5. LettersAgree
    BY <1>1, <1>2 DEF LettersAgree
<1>6. ReadsCurrent
    BY DEF Init, ReadsCurrent, JobCurrent, ReplayCurrent, In!Resting
<1>7. DigestsAgree
    BY DEF Init, DigestsAgree, Handled, Waits, Sent, Up!RowsOf
<1> QED BY <1>3, <1>4, <1>5, <1>6, <1>7, InitGround DEF Agreed

LEMMA StutterKeepsAgreed ==
    ASSUME Timely, Agreed, UNCHANGED vars
    PROVE  Agreed'
<1>1. /\ RowsAlone
      /\ UNCHANGED <<outbox, queue, lost, told, stuck, worker, operator>>
    BY DEF vars, intake, RowsAlone
<1>2. QuietRows /\ DigestsAgree'
    BY <1>1, RowsAloneQuiet DEF Agreed
<1>3. ReadsCurrent'
    BY <1>1 DEF Agreed, ReadsCurrent, JobCurrent, ReplayCurrent, RowsAlone
<1>4. UNCHANGED Itk!vars
    BY <1>1 DEF RowsAlone, upload, OpenLetters, Loaded, Itk!vars, Itk!ledger
<1>5. Itk!Safe'
    BY <1>4, Itk!StepSafe, IntakeAssumptions DEF Agreed
<1>6. Grounded'
    BY NextGround DEF Agreed
<1> QED BY <1>2, <1>3, <1>5, <1>6, QuietKeepsStage DEF Agreed

(* Steps that lead to no race, of a behaviour that starts with none.       *)
UnracedStep == [Next /\ Unraced']_vars

LEMMA InitUnraced == Init => Agreed /\ Unraced
<1>1. Init => Unraced
    BY DEF Init, Unraced, AboutToProcess, In!Idle, In!Resting
<1> QED BY <1>1, InitAgreed

LEMMA NextUnraced ==
    ASSUME Timely
    PROVE  Agreed /\ Unraced /\ UnracedStep => Agreed' /\ Unraced'
<1> SUFFICES ASSUME Agreed, Unraced, UnracedStep PROVE Agreed' /\ Unraced'
    OBVIOUS
<1>1. CASE Next /\ Unraced'
    BY <1>1, NextIsStep, IntakeKeepsAgreed, UploadKeepsAgreed
<1>2. CASE UNCHANGED vars
    BY <1>2, StutterKeepsAgreed DEF vars, intake, Unraced, AboutToProcess, In!Idle
<1> QED BY <1>1, <1>2 DEF UnracedStep

(* An event that waits for its first attempt, or its first after a replay, *)
(* has its whole budget of attempts left: no retry, crash or claim of an   *)
(* earlier round is counted against it (dlq.replay, Uploader.claim).       *)
(* Assumed: no uploader outlives stale_after, and no two workers are about *)
(* to process, no two operators to replay, one event.                      *)
THEOREM WaitingHaveFullBudget ==
    ASSUME Timely
    PROVE  UnracedSpec => []FullBudget
<1>1. Agreed => FullBudget
    BY DEF Agreed, Stg!Unclaimed, FullBudget, ToUploader, Claimed
<1> QED BY InitUnraced, NextUnraced, <1>1, PTL DEF UnracedSpec, UnracedStep

(* Through any number of replays and new failures an event has one dead    *)
(* letter open for replay while it is DEAD_LETTERED and none otherwise, so *)
(* no failure is without its record and none can be replayed twice         *)
(* (dlq.dead_letter, dlq.replay).  Assumed: no uploader outlives           *)
(* stale_after, and no two workers are about to process, no two operators  *)
(* to replay, one event.                                                   *)
THEOREM OneLetterStaysOpen ==
    ASSUME Timely
    PROVE  UnracedSpec => []OneLetterOpen
<1>1. Agreed => OneLetterOpen
    BY FS_EmptySet, FS_Singleton DEF Agreed, LettersAgree, OneLetterOpen
<1> QED BY InitUnraced, NextUnraced, <1>1, PTL DEF UnracedSpec, UnracedStep

-----------------------------------------------------------------------------
(* What a step does to the rows                                            *)

(* A request inserts a row, the processor decides on one, a replay puts    *)
(* one back.  No decision takes digests away.                              *)
Arrives(e) ==
    /\ status[e] = "ABSENT"
    /\ \E s \in {"QUEUED", "REJECTED"} : status' = [status EXCEPT ![e] = s]
    /\ hashed' = hashed

Decides(e) ==
    /\ status[e] = "QUEUED"
    /\ \/ /\ status' = [status EXCEPT ![e] = "PROCESSED"]
          /\ hashed'[e] \in {"digests", "blank"}
          /\ hashed[e] = "digests" => hashed'[e] = "digests"
          /\ \A x \in Event \ {e} : hashed'[x] = hashed[x]
       \/ /\ status' = [status EXCEPT ![e] = "REJECTED"]
          /\ hashed' = hashed
       \/ /\ status' = [status EXCEPT ![e] = "SUPPRESSED"]
          /\ hashed' = hashed

PutBack(e) ==
    /\ status[e] = "DEAD_LETTERED"
    /\ status' = [status EXCEPT ![e] = "QUEUED"]
    /\ hashed' = hashed

LEMMA ProcessDecides ==
    ASSUME Agreed, NEW w \in Workers, Intakes(In!Process(w))
    PROVE  \E e \in Event : Decides(e)
<1>1. PICK e \in Event : /\ e = worker[w].message.event
                         /\ status[e] = "QUEUED" /\ worker[w].hashed = hashed[e]
    <2>1. worker[w].step = "read" /\ worker[w].status = "QUEUED"
        BY DEF Intakes, In!Process
    <2> QED BY <2>1, BusyWithEvents DEF Agreed, Itk!Safe, ReadsCurrent, JobCurrent
<1> DEFINE v == In!Verdict(worker[w], lead[e])
           d == In!Digests(worker[w])
<1>2. /\ worker[w].step = "read"
      /\ status' = [status EXCEPT ![e] = v]
      /\ hashed' = IF v = "PROCESSED" THEN [hashed EXCEPT ![e] = d] ELSE hashed
    BY <1>1 DEF Intakes, In!Process
<1>3. DOMAIN hashed = Event
    BY DEF Agreed, Grounded, Inv, Shape
<1>4. CASE v = "PROCESSED"
    <2>1. d \in {"digests", "blank"}
        BY <1>1, <1>2, <1>4, OnlyFitIsPassed DEF Agreed, Grounded
    <2>2. hashed[e] = "digests" => d = "digests"
        <3>1. HAVE hashed[e] = "digests"
        <3>2. lead[e].ids = "good" /\ worker[w].message.ids \in {"good", "none"}
            BY <1>1, <1>2, <3>1
            DEF Agreed, DigestsAgree, Itk!Safe, Itk!Sound, Itk!JobSound, Itk!MessageSound
        <3> QED BY <1>1, <3>1, <3>2 DEF In!Digests, In!Reuses
    <2>3. hashed' = [hashed EXCEPT ![e] = d] /\ status' = [status EXCEPT ![e] = "PROCESSED"]
        BY <1>2, <1>4
    <2> HIDE DEF d
    <2>4. Decides(e)
        BY <1>1, <1>3, <2>1, <2>2, <2>3 DEF Decides
    <2> QED BY <2>4
<1>5. CASE v # "PROCESSED"
    <2>1. v \in {"REJECTED", "SUPPRESSED"}
        BY <1>5 DEF In!Verdict
    <2> HIDE DEF v
    <2>2. Decides(e)
        BY <1>1, <1>2, <1>5, <2>1 DEF Decides
    <2> QED BY <2>2
<1> QED BY <1>4, <1>5

LEMMA IntakeMovesRows ==
    ASSUME Agreed, IntakeStep
    PROVE  /\ accepted' = accepted
           /\ \/ UNCHANGED <<status, hashed>>
              \/ \E e \in Event : Arrives(e) \/ Decides(e) \/ PutBack(e)
<1>1. accepted' = accepted
    BY DEF IntakeStep, Intakes, ReplayCommit, upload
<1>2. ASSUME NEW e \in Event, Intakes(In!Ingest(e))
      PROVE  UNCHANGED <<status, hashed>> \/ Arrives(e)
    BY <1>2 DEF Intakes, In!Ingest, In!IngestNew, In!Inserted, In!IngestDuplicate,
        In!IngestInvalid, In!Publish, In!ApiCrash, In!ledger, Arrives
<1>3. ASSUME NEW w \in Workers, Intakes(In!Work(w))
      PROVE  UNCHANGED <<status, hashed>> \/ \E e \in Event : Decides(e)
    <2>1. CASE In!Process(w)
        BY <1>3, <2>1, ProcessDecides DEF Intakes
    <2>2. CASE ~In!Process(w)
        BY <1>3, <2>2
        DEF Intakes, In!Work, In!Receive, In!Skip, In!Ack, In!Redeliver, In!ledger
    <2> QED BY <2>1, <2>2
<1>4. Intakes(In!Reconcile) => UNCHANGED <<status, hashed>>
    BY DEF Intakes, In!Reconcile, In!ReconcileRead, In!ReconcilePublish, In!ReconcileAbort,
        In!ledger
<1>5. ASSUME NEW o \in Operators,
             Intakes(In!ReplayRead(o) \/ In!ReplayPublish(o) \/ In!ReplayAbort(o))
      PROVE  UNCHANGED <<status, hashed>>
    BY <1>5 DEF Intakes, In!ReplayRead, In!ReplayPublish, In!ReplayAbort, In!ledger
<1>6. ASSUME NEW o \in Operators, ReplayCommit(o)
      PROVE  \E e \in Event : PutBack(e)
    BY <1>6, ReplayCommitMoves DEF PutBack
<1> QED BY <1>1, <1>2, <1>3, <1>4, <1>5, <1>6 DEF IntakeStep

(* What the two action properties say of one step.                         *)
LegalStep ==
    \A e \in Event :
        status[e] # "ABSENT" /\ status'[e] # status[e] => CanMove(status[e], status'[e])

DigestsKept == \A e \in Event : hashed[e] = "digests" => hashed'[e] = "digests"

LEMMA StepIsLegal ==
    ASSUME Agreed, [Next]_vars
    PROVE  LegalStep /\ DigestsKept
<1>1. CASE UploadStep
    <2>1. LedgerMoves /\ hashed' = hashed
        BY <1>1, UploadStepAsUploader DEF UploadStep, Uploads, intake
    <2>2. LegalStep
        BY <2>1 DEF LedgerMoves, RowMoves, LegalStep, CanMove, AllowedTransitions
    <2> QED BY <2>1, <2>2 DEF DigestsKept
<1>2. CASE IntakeStep
    <2>1. DOMAIN status = Event
        BY DEF Agreed, Grounded, Inv, Shape
    <2>2. CASE UNCHANGED <<status, hashed>>
        BY <2>2 DEF LegalStep, DigestsKept
    <2>3. ASSUME NEW e \in Event, Arrives(e) \/ Decides(e) \/ PutBack(e)
          PROVE  LegalStep /\ DigestsKept
        <3>1. LegalStep
            BY <2>1, <2>3
            DEF Arrives, Decides, PutBack, LegalStep, CanMove, AllowedTransitions
        <3>2. DigestsKept
            BY <2>3 DEF Arrives, Decides, PutBack, DigestsKept
        <3> QED BY <3>1, <3>2
    <2> QED BY <1>2, <2>2, <2>3, IntakeMovesRows
<1>3. CASE UNCHANGED vars
    BY <1>3 DEF vars, intake, LegalStep, DigestsKept
<1> QED BY <1>1, <1>2, <1>3, NextIsStep

(* Every change of a row's status is one ALLOWED_TRANSITIONS lists, though *)
(* transition checks the status a transaction read and not the one it      *)
(* overwrites (ledger.transition).  Nothing in the code keeps two workers  *)
(* from reading one row as QUEUED, or two operators from replaying one     *)
(* dead letter: it is assumed that they do not, and run two_workers shows  *)
(* the conclusion fail where they do.  Assumed as well: no uploader        *)
(* outlives stale_after.                                                   *)
THEOREM GatewayMovesLegally ==
    ASSUME Timely
    PROVE  UnracedSpec => LegalMoves
<1>1. Agreed /\ [Next]_vars => [LegalStep]_vars
    BY StepIsLegal
<1>2. UnracedStep => [Next]_vars
    BY DEF UnracedStep
<1> QED
    BY InitUnraced, NextUnraced, <1>1, <1>2, PTL
    DEF UnracedSpec, UnracedStep, LegalMoves, LegalStep

(* Digests once written are not replaced by nothing when the original, a   *)
(* republished and a replayed message of the event are handled one after   *)
(* the other, in any order and by any workers (processor.process_message). *)
(* Assumed: no two workers are about to process one event, for two that    *)
(* are can lose digests beside a click id, no two operators replay one     *)
(* event, and no uploader outlives stale_after.                            *)
THEOREM DigestsAlwaysSurvive ==
    ASSUME Timely
    PROVE  UnracedSpec => DigestsSurvive
<1>1. Agreed /\ [Next]_vars => [DigestsKept]_vars
    BY StepIsLegal
<1>2. UnracedStep => [Next]_vars
    BY DEF UnracedStep
<1> QED
    BY InitUnraced, NextUnraced, <1>1, <1>2, PTL
    DEF UnracedSpec, UnracedStep, DigestsSurvive, DigestsKept

-----------------------------------------------------------------------------
(* The abstract history                                                    *)

(* Of its state a step of the gateway changes the fate of one event, lets  *)
(* one through, settles some or adds to what the platform has.             *)
LEMMA FateChanges ==
    ASSUME NEW e \in Event, DOMAIN status = Event, accepted' = accepted,
           Arrives(e) \/ Decides(e) \/ PutBack(e)
    PROVE  History!Next
<1> DEFINE fate == [x \in Event |-> Fate(x)]
           passed == {x \in Event : hashed[x] # "null"}
<1>1. ASSUME NEW s, status' = [status EXCEPT ![e] = s]
      PROVE  \A x \in Event : x # e => Fate(x)' = Fate(x)
    BY <1>1 DEF Fate
<1>2. ASSUME NEW s, NEW f, status' = [status EXCEPT ![e] = s], Fate(e)' = f
      PROVE  fate' = [fate EXCEPT ![e] = f]
    BY <1>1, <1>2
<1>3. CASE Arrives(e)
    <2>1. fate[e] = "unknown" /\ UNCHANGED <<passed, accepted>>
        BY <1>3 DEF Arrives, Fate
    <2>2. CASE status' = [status EXCEPT ![e] = "QUEUED"]
        <3>1. fate' = [fate EXCEPT ![e] = "undecided"]
            BY <1>2, <2>2 DEF Fate
        <3>2. History!Accept(e)
            BY <2>1, <3>1 DEF History!Accept, History!Becomes
        <3> QED BY <3>2 DEF History!Next
    <2>3. CASE status' = [status EXCEPT ![e] = "REJECTED"]
        <3>1. fate' = [fate EXCEPT ![e] = "rejected"]
            BY <1>2, <2>3 DEF Fate
        <3>2. History!Refuse(e)
            BY <2>1, <3>1 DEF History!Refuse, History!Becomes
        <3> QED BY <3>2 DEF History!Next
    <2> QED BY <1>3, <2>2, <2>3 DEF Arrives
<1>4. CASE Decides(e)
    <2>1. fate[e] = "undecided"
        BY <1>4 DEF Decides, Fate
    <2>2. CASE status' = [status EXCEPT ![e] = "PROCESSED"]
        <3>1. fate' = [fate EXCEPT ![e] = "released"]
            BY <1>2, <2>2 DEF Fate
        <3>2. passed' = passed \cup {e}
            BY <1>4, <2>2 DEF Decides
        <3>3. History!Release(e)
            BY <2>1, <3>1, <3>2 DEF History!Release, History!Becomes
        <3> QED BY <3>3 DEF History!Next
    <2>3. CASE status' = [status EXCEPT ![e] = "REJECTED"] /\ hashed' = hashed
        <3>1. fate' = [fate EXCEPT ![e] = "rejected"]
            BY <1>2, <2>3 DEF Fate
        <3>2. History!Reject(e)
            BY <2>1, <2>3, <3>1 DEF History!Reject, History!Becomes
        <3> QED BY <3>2 DEF History!Next
    <2>4. CASE status' = [status EXCEPT ![e] = "SUPPRESSED"] /\ hashed' = hashed
        <3>1. fate' = [fate EXCEPT ![e] = "suppressed"]
            BY <1>2, <2>4 DEF Fate
        <3>2. History!Suppress(e)
            BY <2>1, <2>4, <3>1 DEF History!Suppress, History!Becomes
        <3> QED BY <3>2 DEF History!Next
    <2> QED BY <1>4, <2>2, <2>3, <2>4 DEF Decides
<1>5. CASE PutBack(e)
    <2>1. fate[e] = "dead" /\ UNCHANGED <<passed, accepted>>
        BY <1>5 DEF PutBack, Fate
    <2>2. fate' = [fate EXCEPT ![e] = "undecided"]
        BY <1>2, <1>5 DEF PutBack, Fate
    <2>3. History!Reopen(e)
        BY <2>1, <2>2 DEF History!Reopen, History!Becomes
    <2> QED BY <2>3 DEF History!Next
<1> QED BY <1>3, <1>4, <1>5

LEMMA UploadIsHistory ==
    ASSUME Timely, Agreed, Agreed', UploadStep
    PROVE  History!Next
<1>1. LedgerMoves /\ Stg!Next /\ UNCHANGED hashed
    BY UploadStepAsUploader DEF UploadStep, Uploads, intake
<1>2. CASE accepted' = accepted
    <2>1. \A e \in Event : status'[e] = "UPLOADED" => e \in accepted
        BY <1>2 DEF Agreed, Stg!TimelySafe, Stg!Safe, Stg!UploadedWasAccepted,
            ToUploader, Claimed
    <2>2. ASSUME NEW e \in Event
          PROVE  Fate(e)' = Fate(e) \/
                    (/\ Fate(e) = "released"
                     /\ \/ Fate(e)' = "uploaded" /\ e \in accepted
                        \/ Fate(e)' = "dead")
        BY <1>1, <2>1 DEF LedgerMoves, RowMoves, Fate
    <2>3. [e \in Event |-> Fate(e)]' \in [Event -> History!Fates]
        BY DEF Fate, History!Fates
    <2>4. History!Settle
        BY <1>1, <1>2, <2>2, <2>3 DEF History!Settle, History!Settles
    <2> QED BY <2>4 DEF History!Next
<1>3. CASE /\ UNCHANGED [e \in Event |-> ToUploader(status[e])]
           /\ accepted \subseteq accepted' /\ accepted' \subseteq Event
    <2>1. \A e \in Event : status'[e] = status[e]
        <3>1. \A e \in Event : ToUploader(status'[e]) = ToUploader(status[e])
            BY <1>3
        <3> QED BY <1>1, <3>1 DEF LedgerMoves, RowMoves, ToUploader, Claimed
    <2>2. UNCHANGED [e \in Event |-> Fate(e)]
        BY <2>1 DEF Fate
    <2>3. \A e \in accepted' : hashed[e] # "null"
        BY <1>1, <1>3 DEF Agreed, DigestsAgree, Handled, Sent
    <2>4. History!Record
        BY <1>1, <1>3, <2>2, <2>3 DEF History!Record
    <2> QED BY <2>4 DEF History!Next
<1>4. \/ accepted' = accepted
      \/ /\ UNCHANGED [e \in Event |-> ToUploader(status[e])]
         /\ accepted \subseteq accepted' /\ accepted' \subseteq Event
    BY <1>1, Stg!StatusOrPlatform, UploaderAssumptions DEF Agreed
<1> QED BY <1>2, <1>3, <1>4

LEMMA HistoryKept ==
    ASSUME UNCHANGED <<status, hashed, accepted>>
    PROVE  UNCHANGED History!history
BY DEF History!history, Fate

LEMMA HistoryStep ==
    ASSUME Timely, Agreed, Agreed', [Next]_vars
    PROVE  [History!Next]_(History!history)
<1>1. CASE IntakeStep
    <2>1. DOMAIN status = Event
        BY DEF Agreed, Grounded, Inv, Shape
    <2> QED BY <1>1, <2>1, IntakeMovesRows, FateChanges, HistoryKept
<1>2. CASE UploadStep
    BY <1>2, UploadIsHistory
<1>3. CASE UNCHANGED vars
    BY <1>3, HistoryKept DEF vars, upload, intake
<1> QED BY <1>1, <1>2, <1>3, NextIsStep

(* The gateway from the webhook to the platform implements EventHistory,   *)
(* for any events, leads, processes, ceilings and batches: an id is        *)
(* answered for once, only the gate lets an event through, an event is     *)
(* settled once for each time it was let through, and uploaded only if the *)
(* platform has it (worker.py, uploader.py and cli.py over one ledger).    *)
(* Assumed: no uploader outlives stale_after, and no two workers are about *)
(* to process, no two operators to replay, one event; by the race that run *)
(* two_workers shows, an uploaded event can become a released one again.   *)
THEOREM GatewayImplementsHistory ==
    ASSUME Timely
    PROVE  UnracedSpec => ImplementsHistory
<1>1. Init => History!Init
    BY DEF Init, History!Init, Fate
<1>2. Agreed /\ Agreed' /\ [Next]_vars => [History!Next]_(History!history)
    BY HistoryStep
<1>3. UnracedStep => [Next]_vars
    BY DEF UnracedStep
<1> QED
    BY InitUnraced, NextUnraced, <1>1, <1>2, <1>3, PTL
    DEF UnracedSpec, UnracedStep, ImplementsHistory, History!Spec

=============================================================================
