--------------------------- MODULE UploaderProofs ---------------------------
(***************************************************************************)
(* Proofs about the upload stage for any number of rows, uploaders and     *)
(* ceilings.                                                               *)
(***************************************************************************)
EXTENDS Uploader, FiniteSetTheorems, SequenceTheorems, TLAPS

-----------------------------------------------------------------------------
(* Sequences and batches                                                   *)

(* An order given to a finite set is a sequence of its elements that names *)
(* none of them twice (the rows of one claim, ORDER BY received_at).       *)
LEMMA SetToSeqsIsSeq ==
    ASSUME NEW S, IsFiniteSet(S), NEW q \in SetToSeqs(S)
    PROVE  /\ q \in Seq(S)
           /\ Len(q) \in Nat
           /\ DOMAIN q = 1..Len(q)
           /\ \A i, j \in DOMAIN q : q[i] = q[j] => i = j
<1>1. Cardinality(S) \in Nat
  BY FS_CardinalityType
<1>2. q \in [1..Cardinality(S) -> S]
  BY DEF SetToSeqs
<1>3. q \in Seq(S)
  BY <1>1, <1>2
<1> QED
  BY <1>1, <1>2, <1>3 DEF SetToSeqs

(* Every claimed set of rows is finite.                                    *)
LEMMA RowSetsFinite ==
    ASSUME NEW S \in SUBSET Event
    PROVE  IsFiniteSet(S)
BY EventAssumption, FS_Subset

-----------------------------------------------------------------------------
(* What holds however uploaders overlap                                    *)

(* The bookkeeping of one batch: results line up with the rows they were   *)
(* returned for, a batch given up has a failure class, and a transaction   *)
(* that has read anything has read all its rows.                           *)
BookkeepingOf(u) ==
    /\ pc[u] = "apply" =>
        /\ DOMAIN result[u] = DOMAIN batch[u]
        /\ \A i \in DOMAIN batch[u] :
                result[u][i] = "ok" => batch[u][i] \in accepted
    /\ pc[u] = "dead" => why[u] \in FailureClasses
    /\ pc[u] \in {"idle", "send", "down", "failed"} => ~InTransaction(u)
    /\ InTransaction(u) => \A e \in RowsOf(u) : seen[u][e] \in Snapshots

Bookkeeping == \A u \in Uploaders : BookkeepingOf(u)

Safe == TypeOK /\ Bookkeeping /\ UploadedWasAccepted

(* A batch holds rows of the ledger.                                       *)
LEMMA RowsAreEvents ==
    ASSUME TypeOK, NEW u \in Uploaders
    PROVE  RowsOf(u) \subseteq Event
BY DEF TypeOK, RowsOf

(* An uploader that takes no part in a step keeps its bookkeeping.         *)
LEMMA BystanderKeepsBooks ==
    ASSUME NEW v \in Uploaders, BookkeepingOf(v),
           pc'[v] = pc[v], batch'[v] = batch[v], result'[v] = result[v],
           why'[v] = why[v], seen'[v] = seen[v], accepted \subseteq accepted'
    PROVE  BookkeepingOf(v)'
BY DEF BookkeepingOf, InTransaction, RowsOf

(* The ledger starts with rows nobody holds.                               *)
LEMMA InitSafe == Init => Safe
BY DEF Init, Safe, TypeOK, Bookkeeping, BookkeepingOf, UploadedWasAccepted, Statuses,
       RowsOf, InTransaction, NothingRead, FailureClasses

(* A claim hands out rows no result has been recorded for.                 *)
LEMMA ClaimSafe ==
    ASSUME Safe, NEW u \in Uploaders, NEW S \in SUBSET Event, ClaimRows(u, S)
    PROVE  Safe'
<1> DEFINE poison == {e \in S : OverCeiling(Attempted(attempt_count[e]))}
<1>1. PICK q \in SetToSeqs(S \ poison) :
            /\ batch' = [batch EXCEPT ![u] = @ \o q]
            /\ pc' = [pc EXCEPT ![u] =
                    IF Len(batch[u]) + Len(q) >= BatchSize THEN "send" ELSE "idle"]
  BY DEF ClaimRows
<1>2. q \in Seq(Event)
  <2>1. IsFiniteSet(S \ poison)
    BY RowSetsFinite
  <2>2. q \in Seq(S \ poison)
    BY <2>1, SetToSeqsIsSeq
  <2> QED
    BY <2>2
<1>3. TypeOK'
  <2>1. /\ status' \in [Event -> Statuses]
        /\ attempt_count' \in [Event -> Nat]
    BY DEF Safe, TypeOK, ClaimRows, Statuses, Attempted
  <2>2. open_dlq' \in [Event -> Seq(FailureClasses)]
    BY DEF Safe, TypeOK, ClaimRows, FailureClasses
  <2>3. batch' \in [Uploaders -> Seq(Event)]
    BY <1>1, <1>2 DEF Safe, TypeOK
  <2> QED
    BY <2>1, <2>2, <2>3, <1>1 DEF Safe, TypeOK, ClaimRows, platform
<1>4. Bookkeeping'
  <2>1. \A v \in Uploaders : v # u => batch'[v] = batch[v] /\ pc'[v] = pc[v]
    BY <1>1 DEF Safe, TypeOK
  <2>2. pc[u] = "idle" /\ pc'[u] \in {"idle", "send"}
    BY <1>1 DEF Safe, TypeOK, ClaimRows
  <2> QED
    BY <2>1, <2>2 DEF Safe, Bookkeeping, BookkeepingOf, ClaimRows, platform, InTransaction, RowsOf
<1>5. UploadedWasAccepted'
  BY DEF Safe, UploadedWasAccepted, TypeOK, ClaimRows, platform
<1> QED
  BY <1>3, <1>4, <1>5 DEF Safe

(* Only a row the platform answered "ok" for counts as accepted.           *)
LEMMA RequestSafe ==
    ASSUME Safe, NEW u \in Uploaders, Request(u)
    PROVE  Safe'
<1>1. CASE Respond(u)
  <2>1. PICK r \in [DOMAIN batch[u] -> RowResults] :
            /\ result' = [result EXCEPT ![u] = r]
            /\ accepted' = accepted \cup
                    {batch[u][i] : i \in {j \in DOMAIN batch[u] : r[j] = "ok"}}
    BY <1>1 DEF Respond
  <2>2. r \in Seq(RowResults)
    BY DEF Safe, TypeOK
  <2>3. TypeOK'
    BY <1>1, <2>1, <2>2 DEF Safe, TypeOK, Respond, ledger
  <2>4. Bookkeeping'
    BY <1>1, <2>1 DEF Safe, TypeOK, Bookkeeping, BookkeepingOf, Respond, InTransaction, RowsOf
  <2>5. UploadedWasAccepted'
    BY <1>1, <2>1 DEF Safe, UploadedWasAccepted, Respond, ledger
  <2> QED
    BY <2>3, <2>4, <2>5 DEF Safe
<1>2. CASE Unavailable(u) \/ NoAnswer(u) \/ Refuse(u)
  <2>1. TypeOK'
    <3>1. RowsOf(u) \subseteq Event
      BY RowsAreEvents DEF Safe
    <3>2. CASE Unavailable(u) \/ NoAnswer(u)
      <4>1. /\ pc' \in [Uploaders -> {"idle", "send", "retry", "apply", "dead",
                                      "down", "failed"}]
            /\ tries' \in [Uploaders -> Nat]
            /\ why' \in [Uploaders -> FailureClasses \cup {"none"}]
        <5>1. RetryOrGiveUp(u)
          BY <3>2 DEF Unavailable, NoAnswer
        <5>2. tries' \in [Uploaders -> Nat]
          BY <5>1 DEF Safe, TypeOK, RetryOrGiveUp
        <5>3. CASE pc' = [pc EXCEPT ![u] = "retry"] /\ UNCHANGED why
          BY <5>2, <5>3 DEF Safe, TypeOK
        <5>4. CASE /\ pc' = [pc EXCEPT ![u] = "dead"]
                   /\ why' = [why EXCEPT ![u] = "poison"]
          BY <5>2, <5>4 DEF Safe, TypeOK, FailureClasses
        <5> QED
          BY <5>1, <5>3, <5>4 DEF RetryOrGiveUp
      <4>2. /\ UNCHANGED <<ledger, accepted, batch, result, seen>>
            /\ late' \subseteq late \cup RowsOf(u)
        BY <3>2 DEF Unavailable, NoAnswer, platform
      <4> QED
        BY <3>1, <4>1, <4>2 DEF Safe, TypeOK, ledger
    <3>3. CASE Refuse(u)
      BY <3>3 DEF Safe, TypeOK, Refuse, ledger, platform, FailureClasses
    <3> QED
      BY <1>2, <3>2, <3>3
  <2>2. Bookkeeping'
    <3>1. /\ pc[u] = "send" /\ seen' = seen
          /\ UNCHANGED <<ledger, accepted, batch, result>>
      BY <1>2 DEF Unavailable, NoAnswer, Refuse, platform
    <3>2. /\ pc'[u] = "retry" \/ (pc'[u] = "dead" /\ why'[u] \in FailureClasses)
          /\ \A v \in Uploaders : v # u => pc'[v] = pc[v] /\ why'[v] = why[v]
      BY <1>2 DEF Safe, TypeOK, Unavailable, NoAnswer, Refuse, RetryOrGiveUp,
                  FailureClasses
    <3>3. \A v \in Uploaders : v # u => BookkeepingOf(v)'
      BY <3>1, <3>2, BystanderKeepsBooks DEF Safe, Bookkeeping
    <3>4. BookkeepingOf(u)'
      BY <3>1, <3>2 DEF Safe, Bookkeeping, BookkeepingOf, InTransaction
    <3> QED
      BY <3>3, <3>4 DEF Bookkeeping
  <2>3. UploadedWasAccepted'
    BY <1>2 DEF Safe, UploadedWasAccepted, Unavailable, NoAnswer, Refuse,
                ledger, platform
  <2> QED
    BY <2>1, <2>2, <2>3 DEF Safe
<1> QED
  BY <1>1, <1>2 DEF Request

(* A transaction reads every row of its batch at once.                     *)
LEMMA LoadSafe ==
    ASSUME Safe, NEW u \in Uploaders, Load(u)
    PROVE  Safe'
<1>1. TypeOK'
  <2>1. \A e \in Event :
            [status |-> status[e], attempts |-> attempt_count[e]] \in Snapshots
    BY DEF Safe, TypeOK, Snapshots
  <2>2. [e \in Event |->
            IF e \in RowsOf(u)
            THEN [status |-> status[e], attempts |-> attempt_count[e]]
            ELSE Unread] \in [Event -> Snapshots \cup {Unread}]
    BY <2>1
  <2>3. seen' \in [Uploaders -> [Event -> Snapshots \cup {Unread}]]
    BY <2>2 DEF Safe, TypeOK, Load
  <2> QED
    BY <2>3 DEF Safe, TypeOK, Load, ledger, platform
<1>2. Bookkeeping'
  <2>1. \A v \in Uploaders : v # u => BookkeepingOf(v)'
    BY BystanderKeepsBooks DEF Safe, TypeOK, Bookkeeping, Load, platform
  <2>2. BookkeepingOf(u)'
    <3>1. \A e \in RowsOf(u) : seen'[u][e] \in Snapshots
      BY RowsAreEvents DEF Safe, TypeOK, Load, Snapshots
    <3>2. /\ pc[u] \in {"retry", "apply", "dead"} /\ pc' = pc /\ batch' = batch
          /\ result' = result /\ why' = why /\ accepted' = accepted
      BY DEF Load, platform
    <3> QED
      BY <3>1, <3>2 DEF Safe, Bookkeeping, BookkeepingOf, InTransaction, RowsOf
  <2> QED
    BY <2>1, <2>2 DEF Bookkeeping
<1>3. UploadedWasAccepted'
  BY DEF Safe, UploadedWasAccepted, Load, ledger, platform
<1> QED
  BY <1>1, <1>2, <1>3 DEF Safe

(* Finishing a batch leaves the bookkeeping of the others as it was.       *)
LEMMA FinishSafe ==
    ASSUME Safe, NEW u \in Uploaders, NEW where \in {"idle", "down", "failed"},
           Finish(u, where), accepted' = accepted
    PROVE  /\ Bookkeeping'
           /\ pc' \in [Uploaders -> {"idle", "send", "retry", "apply", "dead",
                                     "down", "failed"}]
           /\ batch' \in [Uploaders -> Seq(Event)]
           /\ tries' \in [Uploaders -> Nat]
           /\ result' \in [Uploaders -> Seq(RowResults)]
           /\ why' \in [Uploaders -> FailureClasses \cup {"none"}]
           /\ seen' \in [Uploaders -> [Event -> Snapshots \cup {Unread}]]
<1>1. \A v \in Uploaders : v # u =>
        /\ pc'[v] = pc[v] /\ batch'[v] = batch[v] /\ result'[v] = result[v]
        /\ why'[v] = why[v] /\ seen'[v] = seen[v]
  BY DEF Safe, TypeOK, Finish
<1>2. pc'[u] = where /\ seen'[u] = NothingRead /\ batch'[u] = <<>>
  BY DEF Safe, TypeOK, Finish
<1>3. Bookkeeping'
  BY <1>1, <1>2 DEF Safe, Bookkeeping, BookkeepingOf, InTransaction, RowsOf, NothingRead
<1> QED
  BY <1>3 DEF Safe, TypeOK, Finish, NothingRead, FailureClasses

(* Recording a retry touches no status.                                    *)
LEMMA CommitRetrySafe ==
    ASSUME Safe, NEW u \in Uploaders, CommitRetry(u)
    PROVE  Safe'
<1>1. attempt_count' \in [Event -> Nat]
  <2>1. \A e \in RowsOf(u) : seen[u][e].attempts \in Nat
    BY DEF Safe, Bookkeeping, BookkeepingOf, CommitRetry, Snapshots
  <2>2. \A e \in Event : Cardinality(Positions(u, e)) \in Nat
    <3> TAKE e \in Event
    <3>1. DOMAIN batch[u] = 1..Len(batch[u]) /\ Len(batch[u]) \in Nat
      BY DEF Safe, TypeOK
    <3>2. IsFiniteSet(DOMAIN batch[u])
      BY <3>1, FS_Interval
    <3>3. IsFiniteSet(Positions(u, e))
      BY <3>2, FS_Subset DEF Positions
    <3> QED
      BY <3>3, FS_CardinalityType
  <2> QED
    BY <2>1, <2>2 DEF Safe, TypeOK, CommitRetry
<1>2. TypeOK'
  BY <1>1 DEF Safe, TypeOK, CommitRetry, platform, NothingRead
<1>3. Bookkeeping'
  <2>1. \A v \in Uploaders : v # u => BookkeepingOf(v)'
    BY BystanderKeepsBooks DEF Safe, TypeOK, Bookkeeping, CommitRetry, platform
  <2>2. pc'[u] = "send" /\ seen'[u] = NothingRead
    BY DEF Safe, TypeOK, CommitRetry
  <2>3. BookkeepingOf(u)'
    BY <2>2 DEF BookkeepingOf, InTransaction, NothingRead
  <2> QED
    BY <2>1, <2>3 DEF Bookkeeping
<1>4. UploadedWasAccepted'
  BY DEF Safe, UploadedWasAccepted, CommitRetry, platform
<1> QED
  BY <1>2, <1>3, <1>4 DEF Safe

(* A row becomes UPLOADED by the result at its own position.               *)
LEMMA CommitApplySafe ==
    ASSUME Safe, NEW u \in Uploaders, CommitApply(u)
    PROVE  Safe'
<1>1. PICK last \in LastPositions(u) :
        /\ status' = [e \in Event |->
                IF e \in RowsOf(u) THEN Outcome[ResultAt(u, last[e])]
                ELSE status[e]]
        /\ open_dlq' = [e \in Event |->
                IF e \in RowsOf(u) /\ ResultAt(u, last[e]) = "rejected"
                THEN Append(open_dlq[e], "partial") ELSE open_dlq[e]]
  BY DEF CommitApply
<1>2. \A e \in RowsOf(u) : /\ last[e] \in DOMAIN batch[u]
                           /\ batch[u][last[e]] = e
  BY DEF LastPositions, Positions
<1>3. \A e \in RowsOf(u) : /\ ResultAt(u, last[e]) \in RowResults
                           /\ ResultAt(u, last[e]) = "ok" => e \in accepted
  <2>1. /\ result[u] \in Seq(RowResults)
        /\ DOMAIN result[u] = DOMAIN batch[u]
        /\ \A i \in DOMAIN batch[u] :
                result[u][i] = "ok" => batch[u][i] \in accepted
    BY DEF Safe, TypeOK, Bookkeeping, BookkeepingOf, CommitApply
  <2> QED
    BY <1>2, <2>1 DEF ResultAt
<1>4. status' \in [Event -> Statuses]
  BY <1>1, <1>3 DEF Safe, TypeOK, Outcome, RowResults, Statuses
<1>5. open_dlq' \in [Event -> Seq(FailureClasses)]
  BY <1>1 DEF Safe, TypeOK, FailureClasses
<1>6. UploadedWasAccepted'
  BY <1>1, <1>3 DEF Safe, UploadedWasAccepted, CommitApply, platform, Outcome,
                    RowResults
<1>7. /\ Finish(u, "idle")
      /\ accepted' = accepted /\ late' = late /\ attempt_count' = attempt_count
  BY DEF CommitApply, platform
<1>8. TypeOK' /\ Bookkeeping'
  BY <1>4, <1>5, <1>7, FinishSafe DEF Safe, TypeOK
<1> QED
  BY <1>6, <1>8 DEF Safe

(* A batch given up makes no row UPLOADED.                                 *)
LEMMA CommitDeadSafe ==
    ASSUME Safe, NEW u \in Uploaders, CommitDead(u)
    PROVE  Safe'
<1>1. why[u] \in FailureClasses
  BY DEF Safe, Bookkeeping, BookkeepingOf, CommitDead
<1>2. status' \in [Event -> Statuses]
  BY DEF Safe, TypeOK, CommitDead, Statuses
<1>3. open_dlq' \in [Event -> Seq(FailureClasses)]
  BY <1>1 DEF Safe, TypeOK, CommitDead
<1>4. UploadedWasAccepted'
  BY DEF Safe, UploadedWasAccepted, CommitDead, platform
<1>5. /\ Finish(u, "idle")
      /\ accepted' = accepted /\ late' = late /\ attempt_count' = attempt_count
  BY DEF CommitDead, platform
<1>6. TypeOK' /\ Bookkeeping'
  BY <1>2, <1>3, <1>5, FinishSafe DEF Safe, TypeOK
<1> QED
  BY <1>4, <1>6 DEF Safe

(* Ending a process, cleanly or not, writes nothing to the ledger.         *)
LEMMA StopSafe ==
    ASSUME Safe, NEW u \in Uploaders, Illegal(u) \/ Crash(u)
    PROVE  Safe'
<1>1. /\ Finish(u, "failed") \/ Finish(u, "down")
      /\ accepted' = accepted /\ ledger' = ledger
      /\ late' \subseteq late \cup RowsOf(u)
  BY DEF Illegal, Crash, platform
<1>2. TypeOK' /\ Bookkeeping'
  BY <1>1, FinishSafe, RowsAreEvents DEF Safe, TypeOK, ledger
<1>3. UploadedWasAccepted'
  BY <1>1 DEF Safe, UploadedWasAccepted, ledger
<1> QED
  BY <1>2, <1>3 DEF Safe

(* Flushing, restarting and late completions write nothing either.         *)
LEMMA QuietSafe ==
    ASSUME Safe,
           \/ \E u \in Uploaders : FlushIfDue(u) \/ Restart(u)
           \/ \E e \in Event : LateAccept(e)
           \/ UNCHANGED vars
    PROVE  Safe'
<1>1. CASE \E u \in Uploaders : FlushIfDue(u) \/ Restart(u)
  <2>1. PICK u \in Uploaders : FlushIfDue(u) \/ Restart(u)
    BY <1>1
  <2>2. /\ pc[u] \in {"idle", "down", "failed"}
        /\ pc' \in [Uploaders -> {"idle", "send", "retry", "apply", "dead",
                                  "down", "failed"}]
        /\ pc'[u] \in {"idle", "send"}
        /\ \A v \in Uploaders : v # u => pc'[v] = pc[v]
        /\ UNCHANGED <<ledger, platform, batch, tries, result, why, seen>>
    BY <2>1 DEF Safe, TypeOK, FlushIfDue, Restart
  <2>3. Bookkeeping'
    BY <2>2 DEF Safe, Bookkeeping, BookkeepingOf, platform, InTransaction, RowsOf,
                NothingRead
  <2> QED
    BY <2>2, <2>3 DEF Safe, TypeOK, UploadedWasAccepted, ledger, platform
<1>2. CASE \E e \in Event : LateAccept(e)
  BY <1>2 DEF Safe, TypeOK, Bookkeeping, BookkeepingOf, UploadedWasAccepted, LateAccept,
              ledger, process, InTransaction, RowsOf
<1>3. CASE UNCHANGED vars
  BY <1>3 DEF Safe, TypeOK, Bookkeeping, BookkeepingOf, UploadedWasAccepted, vars, ledger,
              platform, process, InTransaction, RowsOf
<1> QED
  BY <1>1, <1>2, <1>3

(* Every step preserves what holds however uploaders overlap.              *)
LEMMA NextSafe == Safe /\ [Next]_vars => Safe'
<1> SUFFICES ASSUME Safe, [Next]_vars PROVE Safe'
  OBVIOUS
<1>1. ASSUME NEW u \in Uploaders, Claim(u) PROVE Safe'
  BY <1>1, ClaimSafe DEF Claim
<1>2. ASSUME NEW u \in Uploaders, Progress(u) PROVE Safe'
  BY <1>2, QuietSafe, RequestSafe, LoadSafe, CommitRetrySafe, CommitApplySafe,
     CommitDeadSafe, StopSafe DEF Progress, Commit
<1>3. ASSUME NEW u \in Uploaders, Crash(u) \/ Restart(u) PROVE Safe'
  BY <1>3, QuietSafe, StopSafe
<1> QED
  BY <1>1, <1>2, <1>3, QuietSafe DEF Next

(* Every variable keeps its type, however many uploaders overlap, crash    *)
(* and are restarted (the whole of upload/uploader.py).                    *)
THEOREM TypeCorrect == Spec => []TypeOK
<1>1. Safe => TypeOK
  BY DEF Safe
<1> QED
  BY InitSafe, NextSafe, <1>1, PTL DEF Spec

(* A row the ledger calls UPLOADED was accepted by the platform, even when *)
(* the same row is in two uploaders' batches (Uploader.apply_result).      *)
THEOREM OnlyAcceptedIsUploaded == Spec => []UploadedWasAccepted
<1>1. Safe => UploadedWasAccepted
  BY DEF Safe
<1> QED
  BY InitSafe, NextSafe, <1>1, PTL DEF Spec

(* No step takes a dead letter away, or buries a row without one.          *)
LEMMA RecordedStep ==
    ASSUME Safe, DeadLetterRecorded, [Next]_vars
    PROVE  DeadLetterRecorded'
<1> SUFFICES ASSUME NEW e \in Event, status'[e] = "DEAD_LETTERED"
             PROVE  open_dlq'[e] # <<>>
  BY DEF DeadLetterRecorded
<1>1. open_dlq[e] \in Seq(FailureClasses)
  BY DEF Safe, TypeOK
<1>2. \A class : Append(open_dlq[e], class) # <<>>
  BY <1>1
<1>3. CASE UNCHANGED <<status, open_dlq>>
  BY <1>3 DEF DeadLetterRecorded
<1>4. ASSUME NEW u \in Uploaders, Claim(u) PROVE open_dlq'[e] # <<>>
  <2>1. PICK S \in SUBSET Event : ClaimRows(u, S)
    BY <1>4 DEF Claim
  <2> DEFINE poison == {x \in S : OverCeiling(Attempted(attempt_count[x]))}
  <2>2. /\ status'[e] = IF e \in poison THEN "DEAD_LETTERED"
                        ELSE IF e \in S THEN "UPLOADING" ELSE status[e]
        /\ open_dlq'[e] = IF e \in poison THEN Append(open_dlq[e], "poison")
                          ELSE open_dlq[e]
    BY <2>1 DEF ClaimRows
  <2> HIDE DEF poison
  <2> QED
    BY <1>2, <2>2 DEF DeadLetterRecorded
<1>5. ASSUME NEW u \in Uploaders, CommitApply(u) PROVE open_dlq'[e] # <<>>
  <2>1. PICK last \in LastPositions(u) :
            /\ status' = [x \in Event |->
                    IF x \in RowsOf(u) THEN Outcome[ResultAt(u, last[x])]
                    ELSE status[x]]
            /\ open_dlq' = [x \in Event |->
                    IF x \in RowsOf(u) /\ ResultAt(u, last[x]) = "rejected"
                    THEN Append(open_dlq[x], "partial") ELSE open_dlq[x]]
    BY <1>5 DEF CommitApply
  <2>2. CASE e \notin RowsOf(u)
    BY <2>1, <2>2 DEF DeadLetterRecorded
  <2>3. CASE e \in RowsOf(u)
    <3>1. last[e] \in DOMAIN batch[u]
      BY <2>3 DEF LastPositions
    <3>2. result[u] \in Seq(RowResults) /\ DOMAIN result[u] = DOMAIN batch[u]
      BY <1>5 DEF Safe, TypeOK, Bookkeeping, BookkeepingOf, CommitApply
    <3>3. ResultAt(u, last[e]) \in RowResults
      BY <3>1, <3>2 DEF ResultAt
    <3>4. ResultAt(u, last[e]) = "rejected"
      BY <2>1, <2>3, <3>3 DEF Outcome, RowResults
    <3> QED
      BY <1>2, <2>1, <2>3, <3>4
  <2> QED
    BY <2>2, <2>3
<1>6. ASSUME NEW u \in Uploaders, CommitDead(u) PROVE open_dlq'[e] # <<>>
  BY <1>2, <1>6 DEF CommitDead, DeadLetterRecorded
<1>7. \/ UNCHANGED <<status, open_dlq>>
      \/ \E u \in Uploaders : Claim(u) \/ CommitApply(u) \/ CommitDead(u)
  BY DEF Next, Progress, Commit, CommitRetry, Illegal, FlushIfDue, Request, Respond,
         Unavailable, NoAnswer, Refuse, Load, Crash, Restart, LateAccept, vars, ledger
<1> QED
  BY <1>3, <1>4, <1>5, <1>6, <1>7

(* However uploaders overlap, overwrite each other and crash, a row is     *)
(* never DEAD_LETTERED without a dead letter an operator can find          *)
(* (dlq.dead_letter).                                                      *)
THEOREM DeadLettersFound == Spec => []DeadLetterRecorded
<1>1. Init => DeadLetterRecorded
  BY DEF Init, DeadLetterRecorded
<1> QED
  BY InitSafe, NextSafe, <1>1, RecordedStep, PTL DEF Spec

-----------------------------------------------------------------------------
(* What holds when no uploader outlives stale_after                        *)

(* A row in a batch is its uploader's alone, and an open transaction has   *)
(* read its rows as they still are.                                        *)
SeenIsCurrent ==
    \A u \in Uploaders : InTransaction(u) =>
        \A e \in RowsOf(u) :
            seen[u][e] = [status |-> "UPLOADING", attempts |-> attempt_count[e]]

Owned == OwnedWhileUploading /\ SeenIsCurrent /\ NoIllegalTransition

(* How far the shared attempt counter can be: a claim leaves it within the *)
(* row ceiling, and each failed request of the batch adds at most one.     *)
Budget ==
    /\ \A e \in Event : status[e] # "DEAD_LETTERED" =>
            attempt_count[e] < MaxRowAttempts + MaxAttempts
    /\ \A u \in Uploaders :
        /\ pc[u] \in {"idle", "down", "failed"} => tries[u] = 0
        /\ pc[u] # "dead" => tries[u] < MaxAttempts
        /\ pc[u] # "dead" => \A e \in RowsOf(u) :
                attempt_count[e] + (IF pc[u] = "retry" THEN 1 ELSE 0)
                    <= MaxRowAttempts + tries[u]

TimelySafe == Safe /\ Owned /\ OneOpenDeadLetter /\ AttemptsBounded /\ Budget

(* Nothing is held at first.                                               *)
LEMMA InitTimely == Init => TimelySafe
<1> SUFFICES ASSUME Init PROVE TimelySafe
  OBVIOUS
<1>1. Safe
  BY InitSafe
<1>2. Owned
  BY DEF Init, Owned, OwnedWhileUploading, ExclusiveClaims, SeenIsCurrent,
         NoIllegalTransition, RowsOf, Held, InTransaction
<1>3. OneOpenDeadLetter /\ AttemptsBounded /\ Budget
  BY MaxAttemptsAssumption, MaxRowAttemptsAssumption
     DEF Init, OneOpenDeadLetter, AttemptsBounded, Budget, RowsOf
<1> QED
  BY <1>1, <1>2, <1>3 DEF TimelySafe

(* The rows of a batch that has been added to.                             *)
LEMMA RowsAfterClaim ==
    ASSUME NEW b \in Seq(Event), NEW q \in Seq(Event)
    PROVE  /\ {(b \o q)[i] : i \in DOMAIN (b \o q)} =
                    {b[i] : i \in DOMAIN b} \cup {q[i] : i \in DOMAIN q}
           /\ /\ \A i, j \in DOMAIN b : b[i] = b[j] => i = j
              /\ \A i, j \in DOMAIN q : q[i] = q[j] => i = j
              /\ \A i \in DOMAIN b, j \in DOMAIN q : b[i] # q[j]
              => \A i, j \in DOMAIN (b \o q) : (b \o q)[i] = (b \o q)[j] => i = j
<1> DEFINE m == Len(b)
           n == Len(q)
<1>1. /\ m \in Nat /\ n \in Nat
      /\ DOMAIN b = 1..m /\ DOMAIN q = 1..n
      /\ DOMAIN (b \o q) = 1..(m + n)
      /\ \A i \in 1..m : (b \o q)[i] = b[i]
      /\ \A i \in (m+1)..(m+n) : (b \o q)[i] = q[i - m]
  BY ConcatProperties, LenProperties
<1>2. \A i \in 1..n : i + m \in (m+1)..(m+n) /\ (b \o q)[i + m] = q[i]
  <2> TAKE i \in 1..n
  <2>1. i + m \in (m+1)..(m+n) /\ (i + m) - m = i
    BY <1>1
  <2> QED
    BY <1>1, <2>1
<1>3. {(b \o q)[i] : i \in DOMAIN (b \o q)} =
                    {b[i] : i \in DOMAIN b} \cup {q[i] : i \in DOMAIN q}
  <2>1. \A i \in 1..(m+n) : i \in 1..m \/ (i \in (m+1)..(m+n) /\ i - m \in 1..n)
    BY <1>1
  <2>2. \A i \in 1..m : i \in 1..(m+n)
    BY <1>1
  <2>3. \A i \in 1..n : i + m \in 1..(m+n)
    BY <1>1
  <2>4. ASSUME NEW i \in DOMAIN (b \o q)
        PROVE  (b \o q)[i] \in {b[j] : j \in DOMAIN b} \cup {q[j] : j \in DOMAIN q}
    BY <1>1, <2>1
  <2>5. ASSUME NEW i \in DOMAIN b
        PROVE  b[i] \in {(b \o q)[j] : j \in DOMAIN (b \o q)}
    BY <1>1, <2>2
  <2>6. ASSUME NEW i \in DOMAIN q
        PROVE  q[i] \in {(b \o q)[j] : j \in DOMAIN (b \o q)}
    BY <1>1, <1>2, <2>3
  <2> QED
    BY <2>4, <2>5, <2>6
<1>4. ASSUME \A i, j \in DOMAIN b : b[i] = b[j] => i = j,
             \A i, j \in DOMAIN q : q[i] = q[j] => i = j,
             \A i \in DOMAIN b, j \in DOMAIN q : b[i] # q[j]
      PROVE  \A i, j \in DOMAIN (b \o q) : (b \o q)[i] = (b \o q)[j] => i = j
  <2> TAKE i, j \in DOMAIN (b \o q)
  <2>1. CASE i \in 1..m /\ j \in 1..m
    BY <1>1, <1>4, <2>1
  <2>2. CASE i \in (m+1)..(m+n) /\ j \in (m+1)..(m+n)
    <3>1. i - m \in 1..n /\ j - m \in 1..n
      BY <1>1, <2>2
    <3>2. (b \o q)[i] = (b \o q)[j] => i - m = j - m
      BY <1>1, <1>4, <2>2, <3>1
    <3> QED
      BY <1>1, <2>2, <3>2
  <2>3. CASE i \in 1..m /\ j \in (m+1)..(m+n)
    <3>1. j - m \in 1..n
      BY <1>1, <2>3
    <3> QED
      BY <1>1, <1>4, <2>3, <3>1
  <2>4. CASE i \in (m+1)..(m+n) /\ j \in 1..m
    <3>1. i - m \in 1..n
      BY <1>1, <2>4
    <3> QED
      BY <1>1, <1>4, <2>4, <3>1
  <2>5. \A k \in DOMAIN (b \o q) : k \in 1..m \/ k \in (m+1)..(m+n)
    BY <1>1
  <2> QED
    BY <2>1, <2>2, <2>3, <2>4, <2>5
<1> QED
  BY <1>3, <1>4

(* Under Timely a claim only takes rows that are in nobody's batch.        *)
LEMMA ClaimedWasFree ==
    ASSUME Timely, Owned, NEW u \in Uploaders, NEW S \in SUBSET Event,
           ClaimRows(u, S)
    PROVE  \A e \in S : ~Held(e)
BY DEF ClaimRows, Ready, Stale, Owned, OwnedWhileUploading

(* Under Timely a claim only takes rows nobody holds.                      *)
LEMMA ClaimTimely ==
    ASSUME Timely, TimelySafe, NEW u \in Uploaders, NEW S \in SUBSET Event,
           ClaimRows(u, S)
    PROVE  TimelySafe'
<1> DEFINE poison == {e \in S : OverCeiling(Attempted(attempt_count[e]))}
<1>1. PICK q \in SetToSeqs(S \ poison) :
            /\ batch' = [batch EXCEPT ![u] = @ \o q]
            /\ pc' = [pc EXCEPT ![u] =
                    IF Len(batch[u]) + Len(q) >= BatchSize THEN "send" ELSE "idle"]
  BY DEF ClaimRows
<1>2. /\ q \in Seq(S \ poison) /\ q \in Seq(Event)
      /\ \A i \in DOMAIN q : q[i] \in S \ poison
      /\ \A i, j \in DOMAIN q : q[i] = q[j] => i = j
  <2>1. IsFiniteSet(S \ poison)
    BY RowSetsFinite
  <2>2. q \in Seq(S \ poison) /\ \A i, j \in DOMAIN q : q[i] = q[j] => i = j
    BY <2>1, SetToSeqsIsSeq
  <2> QED
    BY <2>2
<1>3. batch[u] \in Seq(Event) /\ batch'[u] = batch[u] \o q
  BY <1>1 DEF TimelySafe, Safe, TypeOK
<1>4. \A v \in Uploaders : v # u => batch'[v] = batch[v] /\ pc'[v] = pc[v]
  BY <1>1 DEF TimelySafe, Safe, TypeOK
<1>5. /\ RowsOf(u)' = RowsOf(u) \cup {q[i] : i \in DOMAIN q}
      /\ \A v \in Uploaders : v # u => RowsOf(v)' = RowsOf(v)
  <2>1. {(batch[u] \o q)[i] : i \in DOMAIN (batch[u] \o q)} =
            {batch[u][i] : i \in DOMAIN batch[u]} \cup {q[i] : i \in DOMAIN q}
    BY <1>2, <1>3, RowsAfterClaim
  <2>2. RowsOf(u)' = {batch'[u][i] : i \in DOMAIN batch'[u]}
    BY Zenon DEF RowsOf
  <2>3. RowsOf(u) = {batch[u][i] : i \in DOMAIN batch[u]}
    BY Zenon DEF RowsOf
  <2>4. RowsOf(u)' = RowsOf(u) \cup {q[i] : i \in DOMAIN q}
    BY <1>3, <2>1, <2>2, <2>3, Zenon
  <2>5. \A v \in Uploaders : v # u => RowsOf(v)' = RowsOf(v)
    BY <1>4, Zenon DEF RowsOf
  <2> QED
    BY <2>4, <2>5
<1>6. \A e \in S : \A v \in Uploaders : e \notin RowsOf(v)
  BY ClaimedWasFree DEF TimelySafe, Held
<1>7. \A e \in Event \ S : /\ status'[e] = status[e]
                          /\ attempt_count'[e] = attempt_count[e]
                          /\ open_dlq'[e] = open_dlq[e]
  BY DEF TimelySafe, Safe, TypeOK, ClaimRows
<1>8. \A e \in S : /\ status[e] # "DEAD_LETTERED"
                   /\ attempt_count'[e] = attempt_count[e] + 1
                   /\ e \notin poison => /\ status'[e] = "UPLOADING"
                                         /\ open_dlq'[e] = open_dlq[e]
                                         /\ attempt_count'[e] <= MaxRowAttempts
                   /\ e \in poison => /\ status'[e] = "DEAD_LETTERED"
                                      /\ open_dlq'[e] = Append(open_dlq[e], "poison")
  <2> TAKE e \in S
  <2>1. /\ e \in Event /\ attempt_count[e] \in Nat
        /\ attempt_count'[e] = attempt_count[e] + 1
        /\ status[e] # "DEAD_LETTERED"
    BY DEF TimelySafe, Safe, TypeOK, ClaimRows, Ready, Stale, Attempted
  <2>2. /\ e \notin poison => status'[e] = "UPLOADING" /\ open_dlq'[e] = open_dlq[e]
        /\ e \in poison => /\ status'[e] = "DEAD_LETTERED"
                           /\ open_dlq'[e] = Append(open_dlq[e], "poison")
    BY <2>1 DEF TimelySafe, Safe, TypeOK, ClaimRows
  <2>3. e \notin poison => attempt_count'[e] <= MaxRowAttempts
    BY <2>1, MaxRowAttemptsAssumption DEF OverCeiling, Attempted
  <2> QED
    BY <2>1, <2>2, <2>3
<1>9. /\ pc[u] = "idle" /\ pc'[u] \in {"idle", "send"}
      /\ UNCHANGED <<accepted, late, tries, result, why, seen>>
  BY <1>1 DEF TimelySafe, Safe, TypeOK, ClaimRows, platform
<1>10. Safe'
  BY ClaimSafe DEF TimelySafe
<1>11. OwnedWhileUploading'
  <2>1. \A v \in Uploaders : \A i, j \in DOMAIN batch'[v] :
            batch'[v][i] = batch'[v][j] => i = j
    <3>1. \A i, j \in DOMAIN batch[u] : batch[u][i] = batch[u][j] => i = j
      BY DEF TimelySafe, Owned, OwnedWhileUploading
    <3>2. \A i \in DOMAIN batch[u], j \in DOMAIN q : batch[u][i] # q[j]
      BY <1>2, <1>6 DEF RowsOf
    <3>3. \A i, j \in DOMAIN batch'[u] : batch'[u][i] = batch'[u][j] => i = j
      BY <1>2, <1>3, <3>1, <3>2, RowsAfterClaim
    <3> QED
      BY <1>4, <3>3 DEF TimelySafe, Owned, OwnedWhileUploading
  <2>2. ExclusiveClaims'
    BY <1>2, <1>5, <1>6 DEF TimelySafe, Owned, OwnedWhileUploading, ExclusiveClaims
  <2>3. \A e \in Event : Held(e)' => status'[e] = "UPLOADING"
    BY <1>2, <1>5, <1>6, <1>7, <1>8
       DEF TimelySafe, Owned, OwnedWhileUploading, Held
  <2> QED
    BY <2>1, <2>2, <2>3 DEF OwnedWhileUploading
<1>12. Owned'
  <2>1. SeenIsCurrent'
    <3>1. ~InTransaction(u)
      BY <1>9 DEF TimelySafe, Safe, Bookkeeping, BookkeepingOf
    <3>2. \A v \in Uploaders : RowsOf(v) \subseteq Event
      BY RowsAreEvents DEF TimelySafe, Safe
    <3> QED
      BY <1>5, <1>6, <1>7, <1>9, <3>1, <3>2
         DEF TimelySafe, Owned, SeenIsCurrent, InTransaction
  <2>2. NoIllegalTransition'
    BY <1>4, <1>9 DEF TimelySafe, Owned, NoIllegalTransition
  <2> QED
    BY <1>11, <2>1, <2>2 DEF Owned
<1>13. OneOpenDeadLetter'
  <2>1. \A e \in Event : Len(Append(open_dlq[e], "poison")) = Len(open_dlq[e]) + 1
    BY AppendProperties DEF TimelySafe, Safe, TypeOK, FailureClasses
  <2> SUFFICES ASSUME NEW e \in Event
               PROVE  Len(open_dlq'[e]) = IF status'[e] = "DEAD_LETTERED" THEN 1 ELSE 0
    BY DEF OneOpenDeadLetter
  <2>2. Len(open_dlq[e]) = IF status[e] = "DEAD_LETTERED" THEN 1 ELSE 0
    BY DEF TimelySafe, OneOpenDeadLetter
  <2>3. CASE e \in poison
    BY <1>8, <2>1, <2>2, <2>3
  <2>4. CASE e \in S \ poison
    BY <1>8, <2>2, <2>4
  <2>5. CASE e \notin S
    BY <1>7, <2>2, <2>5
  <2> QED
    BY <2>3, <2>4, <2>5
<1>14. AttemptsBounded' /\ Budget'
  <2>8. /\ MaxRowAttempts \in Nat
        /\ MaxAttempts \in Nat \ {0}
        /\ \A e \in Event : attempt_count[e] \in Nat
        /\ \A e \in Event : attempt_count[e] <= MaxRowAttempts + MaxAttempts
        /\ \A e \in Event : status[e] # "DEAD_LETTERED" =>
                attempt_count[e] < MaxRowAttempts + MaxAttempts
    BY MaxAttemptsAssumption, MaxRowAttemptsAssumption
       DEF TimelySafe, Safe, TypeOK, AttemptsBounded, Budget
  <2>1. AttemptsBounded'
    <3>1. \A e \in S : attempt_count'[e] <= MaxRowAttempts + MaxAttempts
      BY <1>8, <2>8
    <3>2. \A e \in Event \ S : attempt_count'[e] <= MaxRowAttempts + MaxAttempts
      BY <1>7, <2>8
    <3> QED
      BY <3>1, <3>2 DEF AttemptsBounded
  <2>2. \A e \in Event : status'[e] # "DEAD_LETTERED" => attempt_count'[e] < MaxRowAttempts + MaxAttempts
    <3> TAKE e \in Event
    <3>1. CASE e \in S \ poison
      <4>1. attempt_count'[e] <= MaxRowAttempts /\ attempt_count'[e] = attempt_count[e] + 1
        BY <1>8, <3>1
      <4> QED
        BY <2>8, <4>1, MaxRowAttemptsAssumption
    <3>2. CASE e \in poison
      BY <1>8, <3>2
    <3>3. CASE e \notin S
      BY <1>7, <2>8, <3>3
    <3> QED
      BY <3>1, <3>2, <3>3
  <2>3. ASSUME NEW v \in Uploaders, v # u, pc'[v] # "dead", NEW e \in RowsOf(v)'
        PROVE  attempt_count'[e] + (IF pc'[v] = "retry" THEN 1 ELSE 0)
                    <= MaxRowAttempts + tries'[v]
    BY <1>4, <1>5, <1>6, <1>7, <1>9, <2>3, RowsAreEvents
       DEF TimelySafe, Safe, Budget
  <2>4. ASSUME NEW e \in RowsOf(u)'
        PROVE  attempt_count'[e] <= MaxRowAttempts + tries'[u]
    <3>1. tries'[u] = 0
      BY <1>9 DEF TimelySafe, Budget
    <3>2. CASE e \in RowsOf(u)
      <4>1. e \in Event \ S /\ attempt_count[e] \in Nat
        BY <1>6, <3>2, RowsAreEvents DEF TimelySafe, Safe, TypeOK
      <4>2. attempt_count[e] + 0 <= MaxRowAttempts + tries[u]
        BY <1>9, <3>2 DEF TimelySafe, Budget
      <4> QED
        BY <1>7, <1>9, <4>1, <4>2
    <3>3. CASE e \in S \ poison
      BY <1>8, <3>1, <3>3, MaxRowAttemptsAssumption
    <3> QED
      BY <1>2, <1>5, <3>2, <3>3
  <2>5. /\ pc'[u] \in {"idle", "send"} /\ tries'[u] = 0 /\ tries' = tries
        /\ \A v \in Uploaders : v # u => pc'[v] = pc[v]
    BY <1>4, <1>9 DEF TimelySafe, Budget
  <2>6. \A e \in RowsOf(u)' : attempt_count'[e] \in Nat
    BY <1>10, RowsAreEvents DEF Safe, TypeOK, RowsOf
  <2> QED
    BY <2>1, <2>2, <2>3, <2>4, <2>5, <2>6, MaxAttemptsAssumption
       DEF TimelySafe, Budget
<1> QED
  BY <1>10, <1>12, <1>13, <1>14 DEF TimelySafe

(* A step that leaves every batch, row and dead letter as it is.           *)
LEMMA RowsUntouched ==
    ASSUME TimelySafe, Safe',
           UNCHANGED <<status, attempt_count, open_dlq, batch>>,
           NoIllegalTransition', SeenIsCurrent', Budget'
    PROVE  TimelySafe'
<1>1. OwnedWhileUploading'
  BY DEF TimelySafe, Owned, OwnedWhileUploading, ExclusiveClaims, Held, RowsOf
<1>2. OneOpenDeadLetter' /\ AttemptsBounded'
  BY DEF TimelySafe, OneOpenDeadLetter, AttemptsBounded
<1> QED
  BY <1>1, <1>2 DEF TimelySafe, Owned

(* A request changes neither the rows nor who holds them.                  *)
LEMMA RequestTimely ==
    ASSUME TimelySafe, NEW u \in Uploaders, Request(u)
    PROVE  TimelySafe'
<1>1. Safe'
  BY RequestSafe DEF TimelySafe
<1>2. UNCHANGED <<status, attempt_count, open_dlq, batch, seen>>
  BY DEF Request, Respond, Unavailable, NoAnswer, Refuse, ledger, platform
<1>3. NoIllegalTransition'
  BY DEF TimelySafe, Owned, Safe, TypeOK, NoIllegalTransition, Request, Respond,
         Unavailable, NoAnswer, Refuse, RetryOrGiveUp
<1>4. SeenIsCurrent'
  BY <1>2 DEF TimelySafe, Owned, SeenIsCurrent, InTransaction, RowsOf
<1>5. Budget'
  <2>1. \A v \in Uploaders : v # u => pc'[v] = pc[v] /\ tries'[v] = tries[v]
    BY DEF TimelySafe, Safe, TypeOK, Request, Respond, Unavailable, NoAnswer,
           Refuse, RetryOrGiveUp
  <2>2. pc[u] = "send" /\ tries[u] \in Nat
    BY DEF TimelySafe, Safe, TypeOK, Request, Respond, Unavailable, NoAnswer, Refuse
  <2>3. \/ pc'[u] = "apply" /\ tries'[u] = tries[u]
        \/ pc'[u] = "dead"
        \/ /\ pc'[u] = "retry"
           /\ tries'[u] = tries[u] + 1
           /\ tries[u] + 1 < MaxAttempts
    BY DEF TimelySafe, Safe, TypeOK, Request, Respond, Unavailable, NoAnswer,
           Refuse, RetryOrGiveUp
  <2>4. /\ tries[u] < MaxAttempts
        /\ \A e \in RowsOf(u) : attempt_count[e] + 0 <= MaxRowAttempts + tries[u]
    BY <2>2 DEF TimelySafe, Budget
  <2>5. \A e \in RowsOf(u) : attempt_count[e] \in Nat
    BY RowsAreEvents DEF TimelySafe, Safe, TypeOK
  <2>6. /\ pc'[u] \notin {"idle", "down", "failed"}
        /\ pc'[u] # "dead" => tries'[u] < MaxAttempts
        /\ pc'[u] # "dead" => \A e \in RowsOf(u) :
                attempt_count[e] + (IF pc'[u] = "retry" THEN 1 ELSE 0)
                    <= MaxRowAttempts + tries'[u]
    BY <2>2, <2>3, <2>4, <2>5, MaxAttemptsAssumption, MaxRowAttemptsAssumption
  <2> QED
    BY <1>2, <2>1, <2>6 DEF TimelySafe, Budget, RowsOf
<1> QED
  BY <1>1, <1>2, <1>3, <1>4, <1>5, RowsUntouched

(* What a transaction reads of rows it owns stays current.                 *)
LEMMA LoadTimely ==
    ASSUME TimelySafe, NEW u \in Uploaders, Load(u)
    PROVE  TimelySafe'
<1>1. Safe'
  BY LoadSafe DEF TimelySafe
<1>2. UNCHANGED <<status, attempt_count, open_dlq, batch, pc, tries>>
  BY DEF Load, ledger, platform
<1>3. NoIllegalTransition' /\ Budget'
  BY <1>2 DEF TimelySafe, Owned, NoIllegalTransition, Budget, RowsOf
<1>4. SeenIsCurrent'
  <2>1. \A e \in RowsOf(u) : status[e] = "UPLOADING" /\ e \in Event
    BY RowsAreEvents DEF TimelySafe, Safe, Owned, OwnedWhileUploading, Held
  <2>2. \A e \in RowsOf(u) :
            seen'[u][e] = [status |-> "UPLOADING", attempts |-> attempt_count[e]]
    BY <2>1 DEF TimelySafe, Safe, TypeOK, Load
  <2>3. \A v \in Uploaders : v # u => seen'[v] = seen[v]
    BY DEF TimelySafe, Safe, TypeOK, Load
  <2> QED
    BY <1>2, <2>2, <2>3
       DEF TimelySafe, Owned, SeenIsCurrent, InTransaction, RowsOf
<1> QED
  BY <1>1, <1>2, <1>3, <1>4, RowsUntouched

(* With its rows its own, no uploader reads a status it cannot move on     *)
(* from: each row is at one position and is UPLOADING.                     *)
LEMMA NothingIllegal ==
    ASSUME TimelySafe, NEW u \in Uploaders, InTransaction(u)
    PROVE  /\ RetryAllowed(u)
           /\ DeadLetterAllowed(u)
           /\ pc[u] = "apply" => ApplyAllowed(u)
<1>1. \A e \in RowsOf(u) : seen[u][e].status = "UPLOADING"
  <2> TAKE e \in RowsOf(u)
  <2>1. seen[u][e] = [status |-> "UPLOADING", attempts |-> attempt_count[e]]
    BY DEF TimelySafe, Owned, SeenIsCurrent
  <2> QED
    BY <2>1
<1>2. RetryAllowed(u) /\ DeadLetterAllowed(u)
  <2>1. /\ CanMove("UPLOADING", "FAILED_RETRYABLE")
        /\ CanMove("FAILED_RETRYABLE", "UPLOADING")
        /\ CanMove("UPLOADING", "DEAD_LETTERED")
    BY DEF CanMove, AllowedTransitions
  <2> QED
    BY <1>1, <2>1 DEF RetryAllowed, DeadLetterAllowed
<1>3. ASSUME pc[u] = "apply", NEW i \in DOMAIN batch[u]
      PROVE  CanMove(StatusBefore(u, i), Outcome[ResultAt(u, i)])
  <2>1. {j \in Positions(u, batch[u][i]) : j < i} = {}
    <3>1. batch[u] \in Seq(Event) /\ DOMAIN batch[u] = 1..Len(batch[u])
      BY DEF TimelySafe, Safe, TypeOK
    <3>2. \A j \in Positions(u, batch[u][i]) : j = i
      BY DEF TimelySafe, Owned, OwnedWhileUploading, Positions
    <3> QED
      BY <3>1, <3>2
  <2>2. StatusBefore(u, i) = "UPLOADING"
    BY <1>1, <2>1 DEF StatusBefore, RowsOf
  <2>3. ResultAt(u, i) \in RowResults
    <3>1. result[u] \in Seq(RowResults) /\ i \in DOMAIN result[u]
      BY <1>3 DEF TimelySafe, Safe, TypeOK, Bookkeeping, BookkeepingOf
    <3> QED
      BY <3>1 DEF ResultAt
  <2>4. Outcome[ResultAt(u, i)] \in {"UPLOADED", "FAILED_RETRYABLE", "DEAD_LETTERED"}
    BY <2>3 DEF Outcome, RowResults
  <2> QED
    BY <2>2, <2>4 DEF CanMove, AllowedTransitions
<1> QED
  BY <1>2, <1>3 DEF ApplyAllowed

(* A retry writes back an attempt count nobody else has moved.             *)
LEMMA CommitRetryTimely ==
    ASSUME TimelySafe, NEW u \in Uploaders, CommitRetry(u)
    PROVE  TimelySafe'
<1>1. Safe'
  BY CommitRetrySafe DEF TimelySafe
<1>2. /\ UNCHANGED <<status, open_dlq, batch, tries>>
      /\ pc[u] = "retry" /\ pc'[u] = "send" /\ seen'[u] = NothingRead
      /\ \A v \in Uploaders : v # u => pc'[v] = pc[v] /\ seen'[v] = seen[v]
  BY DEF TimelySafe, Safe, TypeOK, CommitRetry
<1>3. \A e \in Event : e \notin RowsOf(u) => attempt_count'[e] = attempt_count[e]
  BY DEF CommitRetry
<1>4. \A e \in RowsOf(u) : attempt_count'[e] = attempt_count[e] + 1
  <2> TAKE e \in RowsOf(u)
  <2>1. PICK i \in DOMAIN batch[u] : batch[u][i] = e
    BY DEF RowsOf
  <2>2. Positions(u, e) = {i}
    BY <2>1 DEF TimelySafe, Owned, OwnedWhileUploading, Positions
  <2>3. Cardinality(Positions(u, e)) = 1
    BY <2>2, FS_Singleton
  <2>4. e \in Event
    BY RowsAreEvents DEF TimelySafe, Safe
  <2>5. seen[u][e] = [status |-> "UPLOADING", attempts |-> attempt_count[e]]
    BY DEF TimelySafe, Owned, SeenIsCurrent, CommitRetry
  <2> QED
    BY <2>3, <2>4, <2>5 DEF CommitRetry
<1>5. /\ tries[u] < MaxAttempts /\ tries[u] \in Nat
      /\ \A e \in RowsOf(u) : attempt_count[e] + 1 <= MaxRowAttempts + tries[u]
  BY <1>2 DEF TimelySafe, Safe, TypeOK, Budget
<1>6. \A e \in Event : attempt_count[e] \in Nat
  BY DEF TimelySafe, Safe, TypeOK
<1>7. \A e \in RowsOf(u) : /\ attempt_count'[e] <= MaxRowAttempts + tries[u]
                           /\ attempt_count'[e] < MaxRowAttempts + MaxAttempts
                           /\ attempt_count'[e] \in Nat
  BY <1>4, <1>5, <1>6, RowsAreEvents, MaxAttemptsAssumption,
     MaxRowAttemptsAssumption DEF TimelySafe, Safe
<1>8. \A v \in Uploaders : v # u => RowsOf(v) \cap RowsOf(u) = {}
  BY DEF TimelySafe, Owned, OwnedWhileUploading, ExclusiveClaims
<1>9. \A v \in Uploaders : RowsOf(v)' = RowsOf(v) /\ RowsOf(v) \subseteq Event
  BY <1>2, RowsAreEvents DEF TimelySafe, Safe, RowsOf
<1>10. Owned'
  <2>1. OwnedWhileUploading' /\ NoIllegalTransition'
    BY <1>2 DEF TimelySafe, Owned, OwnedWhileUploading, ExclusiveClaims, Held,
                RowsOf, NoIllegalTransition
  <2>2. SeenIsCurrent'
    BY <1>2, <1>3, <1>8, <1>9
       DEF TimelySafe, Owned, SeenIsCurrent, InTransaction, NothingRead
  <2> QED
    BY <2>1, <2>2 DEF Owned
<1>11. OneOpenDeadLetter' /\ AttemptsBounded'
  BY <1>2, <1>3, <1>6, <1>7, MaxAttemptsAssumption, MaxRowAttemptsAssumption
     DEF TimelySafe, OneOpenDeadLetter, AttemptsBounded
<1>12. Budget'
  <2>1. \A e \in Event : status'[e] # "DEAD_LETTERED" =>
            attempt_count'[e] < MaxRowAttempts + MaxAttempts
    BY <1>2, <1>3, <1>7 DEF TimelySafe, Budget
  <2>2. \A v \in Uploaders : v # u =>
            \A e \in RowsOf(v) : attempt_count'[e] = attempt_count[e]
    BY <1>3, <1>8, <1>9
  <2>3. \A e \in RowsOf(u) : attempt_count'[e] + 0 <= MaxRowAttempts + tries[u]
    BY <1>7
  <2> QED
    BY <1>2, <1>5, <1>9, <2>1, <2>2, <2>3 DEF TimelySafe, Budget
<1> QED
  BY <1>1, <1>10, <1>11, <1>12 DEF TimelySafe

(* A batch that ends, whatever happens to its rows, leaves every other     *)
(* batch as it was.                                                        *)
LEMMA FinishTimely ==
    ASSUME TimelySafe, Safe', NEW u \in Uploaders, NEW where \in {"idle", "down"},
           Finish(u, where), attempt_count' = attempt_count,
           \A e \in Event : e \notin RowsOf(u) => status'[e] = status[e]
    PROVE  /\ Owned'
           /\ AttemptsBounded'
           /\ Budget'
<1>1. /\ pc'[u] = where /\ seen'[u] = NothingRead /\ batch'[u] = <<>> /\ tries'[u] = 0
      /\ \A v \in Uploaders : v # u =>
            /\ pc'[v] = pc[v] /\ batch'[v] = batch[v] /\ tries'[v] = tries[v]
            /\ seen'[v] = seen[v]
  BY DEF TimelySafe, Safe, TypeOK, Finish
<1>2. /\ RowsOf(u)' = {}
      /\ \A v \in Uploaders : v # u => RowsOf(v)' = RowsOf(v)
  BY <1>1 DEF RowsOf
<1>3. \A v \in Uploaders : v # u => RowsOf(v) \cap RowsOf(u) = {}
  BY DEF TimelySafe, Owned, OwnedWhileUploading, ExclusiveClaims
<1>4. OwnedWhileUploading'
  <2>1. \A v \in Uploaders : \A i, j \in DOMAIN batch'[v] :
            batch'[v][i] = batch'[v][j] => i = j
    BY <1>1 DEF TimelySafe, Owned, OwnedWhileUploading
  <2>2. ExclusiveClaims'
    BY <1>2 DEF TimelySafe, Owned, OwnedWhileUploading, ExclusiveClaims
  <2>3. \A e \in Event : Held(e)' => status'[e] = "UPLOADING"
    BY <1>2, <1>3 DEF TimelySafe, Owned, OwnedWhileUploading, Held
  <2> QED
    BY <2>1, <2>2, <2>3 DEF OwnedWhileUploading
<1>5. SeenIsCurrent'
  BY <1>1, <1>2 DEF TimelySafe, Owned, SeenIsCurrent, InTransaction, NothingRead
<1>6. NoIllegalTransition'
  BY <1>1 DEF TimelySafe, Owned, NoIllegalTransition
<1>7. AttemptsBounded'
  BY DEF TimelySafe, AttemptsBounded
<1>8. Budget'
  <2>1. \A e \in Event : status'[e] # "DEAD_LETTERED" =>
            attempt_count'[e] < MaxRowAttempts + MaxAttempts
    <3>1. \A e \in Event : e \in RowsOf(u) => status[e] = "UPLOADING"
      BY DEF TimelySafe, Owned, OwnedWhileUploading, Held
    <3> QED
      BY <3>1 DEF TimelySafe, Budget
  <2> QED
    BY <1>1, <1>2, <2>1, MaxAttemptsAssumption DEF TimelySafe, Budget
<1> QED
  BY <1>4, <1>5, <1>6, <1>7, <1>8 DEF Owned

(* Outcomes are written to rows their uploader still owns.                 *)
LEMMA CommitApplyTimely ==
    ASSUME TimelySafe, NEW u \in Uploaders, CommitApply(u)
    PROVE  TimelySafe'
<1>1. Safe'
  BY CommitApplySafe DEF TimelySafe
<1>2. PICK last \in LastPositions(u) :
        /\ status' = [e \in Event |->
                IF e \in RowsOf(u) THEN Outcome[ResultAt(u, last[e])]
                ELSE status[e]]
        /\ open_dlq' = [e \in Event |->
                IF e \in RowsOf(u) /\ ResultAt(u, last[e]) = "rejected"
                THEN Append(open_dlq[e], "partial") ELSE open_dlq[e]]
  BY DEF CommitApply
<1>3. Owned' /\ AttemptsBounded' /\ Budget'
  BY <1>1, <1>2, FinishTimely DEF CommitApply
<1>4. OneOpenDeadLetter'
  <2> SUFFICES ASSUME NEW e \in Event
               PROVE  Len(open_dlq'[e]) = IF status'[e] = "DEAD_LETTERED" THEN 1 ELSE 0
    BY DEF OneOpenDeadLetter
  <2>1. Len(open_dlq[e]) = IF status[e] = "DEAD_LETTERED" THEN 1 ELSE 0
    BY DEF TimelySafe, OneOpenDeadLetter
  <2>2. Len(Append(open_dlq[e], "partial")) = Len(open_dlq[e]) + 1
    BY AppendProperties DEF TimelySafe, Safe, TypeOK, FailureClasses
  <2>3. CASE e \in RowsOf(u)
    <3>1. status[e] = "UPLOADING"
      BY <2>3 DEF TimelySafe, Owned, OwnedWhileUploading, Held
    <3>2. ResultAt(u, last[e]) \in RowResults
      <4>1. last[e] \in DOMAIN batch[u]
        BY <2>3 DEF LastPositions
      <4>2. result[u] \in Seq(RowResults) /\ DOMAIN result[u] = DOMAIN batch[u]
        BY DEF TimelySafe, Safe, TypeOK, Bookkeeping, BookkeepingOf, CommitApply
      <4> QED
        BY <4>1, <4>2 DEF ResultAt
    <3>3. status'[e] = "DEAD_LETTERED" <=> ResultAt(u, last[e]) = "rejected"
      BY <1>2, <2>3, <3>2 DEF Outcome, RowResults
    <3> QED
      BY <1>2, <2>1, <2>2, <2>3, <3>1, <3>3
  <2>4. CASE e \notin RowsOf(u)
    BY <1>2, <2>1, <2>4
  <2> QED
    BY <2>3, <2>4
<1> QED
  BY <1>1, <1>3, <1>4 DEF TimelySafe

(* Each row of a batch given up gets its one dead letter.                  *)
LEMMA CommitDeadTimely ==
    ASSUME TimelySafe, NEW u \in Uploaders, CommitDead(u)
    PROVE  TimelySafe'
<1>1. Safe'
  BY CommitDeadSafe DEF TimelySafe
<1>2. Owned' /\ AttemptsBounded' /\ Budget'
  BY <1>1, FinishTimely DEF CommitDead
<1>3. OneOpenDeadLetter'
  <2> SUFFICES ASSUME NEW e \in Event
               PROVE  Len(open_dlq'[e]) = IF status'[e] = "DEAD_LETTERED" THEN 1 ELSE 0
    BY DEF OneOpenDeadLetter
  <2>1. Len(open_dlq[e]) = IF status[e] = "DEAD_LETTERED" THEN 1 ELSE 0
    BY DEF TimelySafe, OneOpenDeadLetter
  <2>2. why[u] \in FailureClasses
    BY DEF TimelySafe, Safe, Bookkeeping, BookkeepingOf, CommitDead
  <2>3. Len(Append(open_dlq[e], why[u])) = Len(open_dlq[e]) + 1
    BY <2>2, AppendProperties DEF TimelySafe, Safe, TypeOK
  <2>4. e \in RowsOf(u) => status[e] = "UPLOADING"
    BY DEF TimelySafe, Owned, OwnedWhileUploading, Held
  <2> QED
    BY <2>1, <2>3, <2>4 DEF CommitDead
<1> QED
  BY <1>1, <1>2, <1>3 DEF TimelySafe

(* A crash leaves its rows UPLOADING and held by nobody.                   *)
LEMMA CrashTimely ==
    ASSUME TimelySafe, NEW u \in Uploaders, Crash(u)
    PROVE  TimelySafe'
<1>1. Safe'
  BY StopSafe DEF TimelySafe
<1>2. UNCHANGED <<status, attempt_count, open_dlq>>
  BY DEF Crash, ledger
<1>3. Owned' /\ AttemptsBounded' /\ Budget'
  BY <1>1, <1>2, FinishTimely DEF Crash
<1>4. OneOpenDeadLetter'
  BY <1>2 DEF TimelySafe, OneOpenDeadLetter
<1> QED
  BY <1>1, <1>3, <1>4 DEF TimelySafe

(* Flushing, restarting and late completions keep ownership.               *)
LEMMA QuietTimely ==
    ASSUME TimelySafe,
           \/ \E u \in Uploaders : FlushIfDue(u) \/ Restart(u)
           \/ \E e \in Event : LateAccept(e)
           \/ UNCHANGED vars
    PROVE  TimelySafe'
<1>1. Safe'
  BY QuietSafe DEF TimelySafe
<1>2. /\ UNCHANGED <<status, attempt_count, open_dlq, batch, tries, seen>>
      /\ \A u \in Uploaders : \/ pc'[u] = pc[u]
                              \/ /\ pc[u] \in {"idle", "down", "failed"}
                                 /\ pc'[u] \in {"idle", "send"}
  BY DEF TimelySafe, Safe, TypeOK, FlushIfDue, Restart, LateAccept, vars, ledger,
         process, platform
<1>3. NoIllegalTransition' /\ SeenIsCurrent'
  BY <1>2 DEF TimelySafe, Owned, NoIllegalTransition, SeenIsCurrent,
              InTransaction, RowsOf
<1>4. Budget'
  BY <1>2, MaxAttemptsAssumption DEF TimelySafe, Budget, RowsOf
<1> QED
  BY <1>1, <1>2, <1>3, <1>4, RowsUntouched

(* Every step preserves the invariant of timely uploaders.                 *)
LEMMA NextTimely ==
    ASSUME Timely
    PROVE  TimelySafe /\ [Next]_vars => TimelySafe'
<1> SUFFICES ASSUME TimelySafe, [Next]_vars PROVE TimelySafe'
  OBVIOUS
<1>1. ASSUME NEW u \in Uploaders, Claim(u) PROVE TimelySafe'
  BY <1>1, ClaimTimely DEF Claim
<1>2. ASSUME NEW u \in Uploaders, Illegal(u) PROVE FALSE
  BY <1>2, NothingIllegal DEF Illegal
<1>3. ASSUME NEW u \in Uploaders, Progress(u) PROVE TimelySafe'
  BY <1>2, <1>3, QuietTimely, RequestTimely, LoadTimely, CommitRetryTimely,
     CommitApplyTimely, CommitDeadTimely DEF Progress, Commit
<1>4. ASSUME NEW u \in Uploaders, Crash(u) \/ Restart(u) PROVE TimelySafe'
  BY <1>4, QuietTimely, CrashTimely
<1> QED
  BY <1>1, <1>3, <1>4, QuietTimely DEF Next

(* If no uploader outlives stale_after while it holds rows, every row in   *)
(* hand is UPLOADING and in one batch once (ledger.claim_for_upload).      *)
THEOREM RowsAreOwned == ASSUME Timely PROVE Spec => []OwnedWhileUploading
<1>1. TimelySafe => OwnedWhileUploading
  BY DEF TimelySafe, Owned
<1> QED
  BY InitTimely, NextTimely, <1>1, PTL DEF Spec

(* Under the same assumption the uploader never dies of IllegalTransition  *)
(* (Uploader.apply_result, Uploader._dead_letter_all).                     *)
THEOREM NeverIllegal == ASSUME Timely PROVE Spec => []NoIllegalTransition
<1>1. TimelySafe => NoIllegalTransition
  BY DEF TimelySafe, Owned
<1> QED
  BY InitTimely, NextTimely, <1>1, PTL DEF Spec

(* Under the same assumption a row has one open dead letter while it is    *)
(* DEAD_LETTERED and none otherwise (dlq.dead_letter).                     *)
THEOREM DeadLettersAgree == ASSUME Timely PROVE Spec => []OneOpenDeadLetter
<1>1. TimelySafe => OneOpenDeadLetter
  BY DEF TimelySafe
<1> QED
  BY InitTimely, NextTimely, <1>1, PTL DEF Spec

(* Under the same assumption claims and retries never take attempt_count   *)
(* past both ceilings together (Uploader.claim).                           *)
THEOREM AttemptsStayBounded == ASSUME Timely PROVE Spec => []AttemptsBounded
<1>1. TimelySafe => AttemptsBounded
  BY DEF TimelySafe
<1> QED
  BY InitTimely, NextTimely, <1>1, PTL DEF Spec

-----------------------------------------------------------------------------
(* No step leaves the state machine                                        *)

(* A PROCESSED row has never been claimed, so no claim can find it over    *)
(* the ceiling and take it straight to DEAD_LETTERED.                      *)
Unclaimed == \A e \in Event : status[e] = "PROCESSED" => attempt_count[e] = 0

(* No step takes a row back to PROCESSED, or counts an attempt on one there.*)
LEMMA UnclaimedStep ==
    ASSUME TimelySafe, Unclaimed, [Next]_vars
    PROVE  Unclaimed'
<1> SUFFICES ASSUME NEW e \in Event, status'[e] = "PROCESSED"
             PROVE  attempt_count'[e] = 0
  BY DEF Unclaimed
<1>1. CASE UNCHANGED <<status, attempt_count>>
  BY <1>1 DEF Unclaimed
<1>2. ASSUME NEW u \in Uploaders, Claim(u) PROVE attempt_count'[e] = 0
  BY <1>2 DEF Claim, ClaimRows, Unclaimed
<1>3. ASSUME NEW u \in Uploaders, Commit(u) PROVE attempt_count'[e] = 0
  <2>1. e \in RowsOf(u) => status[e] # "PROCESSED"
    BY DEF TimelySafe, Owned, OwnedWhileUploading, Held
  <2>2. CASE CommitRetry(u)
    BY <2>1, <2>2 DEF CommitRetry, Unclaimed
  <2>3. CASE CommitDead(u)
    BY <2>3 DEF CommitDead, Unclaimed
  <2>4. CASE Illegal(u)
    BY <2>4 DEF Illegal, ledger, Unclaimed
  <2>5. CASE CommitApply(u)
    <3>1. e \notin RowsOf(u)
      <4>1. PICK last \in LastPositions(u) :
                status' = [x \in Event |->
                    IF x \in RowsOf(u) THEN Outcome[ResultAt(u, last[x])]
                    ELSE status[x]]
        BY <2>5 DEF CommitApply
      <4>2. ASSUME e \in RowsOf(u) PROVE FALSE
        <5>1. last[e] \in DOMAIN batch[u]
          BY <4>2 DEF LastPositions
        <5>2. result[u] \in Seq(RowResults) /\ DOMAIN result[u] = DOMAIN batch[u]
          BY <2>5 DEF TimelySafe, Safe, TypeOK, Bookkeeping, BookkeepingOf, CommitApply
        <5>3. ResultAt(u, last[e]) \in RowResults
          BY <5>1, <5>2 DEF ResultAt
        <5> QED
          BY <4>1, <4>2, <5>3 DEF Outcome, RowResults
      <4> QED
        BY <4>2
    <3> QED
      BY <2>5, <3>1 DEF CommitApply, Unclaimed
  <2> QED
    BY <1>3, <2>2, <2>3, <2>4, <2>5 DEF Commit
<1> QED
  BY <1>1, <1>2, <1>3
     DEF Next, Progress, FlushIfDue, Request, Respond, Unavailable, NoAnswer,
         Refuse, Load, Crash, Restart, LateAccept, vars, ledger

(* Each outcome of a row is a legal move out of UPLOADING.                 *)
LEMMA OutcomesLegal ==
    /\ CanMove("UPLOADING", "UPLOADED")
    /\ CanMove("UPLOADING", "FAILED_RETRYABLE")
    /\ CanMove("UPLOADING", "DEAD_LETTERED")
    /\ CanMove("FAILED_RETRYABLE", "DEAD_LETTERED")
BY DEF CanMove, AllowedTransitions

(* Every step of timely uploaders moves the status column legally.         *)
LEMMA StepIsLegal ==
    ASSUME Timely, TimelySafe, Unclaimed, [Next]_vars
    PROVE  LegalStep
<1> SUFFICES ASSUME NEW e \in Event, status'[e] # status[e]
             PROVE  CanMove(status[e], status'[e])
  BY DEF LegalStep
<1>1. ASSUME NEW u \in Uploaders, NEW S \in SUBSET Event, ClaimRows(u, S)
      PROVE  CanMove(status[e], status'[e])
  <2>1. /\ e \in S
        /\ status[e] \in {"PROCESSED", "FAILED_RETRYABLE", "UPLOADING"}
    BY <1>1 DEF ClaimRows, Ready, Stale
  <2>2. CASE OverCeiling(Attempted(attempt_count[e]))
    <3>1. status'[e] = "DEAD_LETTERED"
      BY <1>1, <2>1, <2>2 DEF ClaimRows
    <3>2. status[e] # "PROCESSED"
      BY <2>2, MaxRowAttemptsAssumption DEF Unclaimed, OverCeiling, Attempted
    <3> QED
      BY <2>1, <3>1, <3>2, OutcomesLegal
  <2>3. CASE ~OverCeiling(Attempted(attempt_count[e]))
    <3>1. status'[e] = "UPLOADING"
      BY <1>1, <2>1, <2>3 DEF ClaimRows
    <3> QED
      BY <1>1, <2>1, <3>1 DEF ClaimRows, Stale
  <2> QED
    BY <2>2, <2>3
<1>2. ASSUME NEW u \in Uploaders, Commit(u)
      PROVE  CanMove(status[e], status'[e])
  <2>1. e \in RowsOf(u) => status[e] = "UPLOADING"
    BY DEF TimelySafe, Owned, OwnedWhileUploading, Held
  <2>2. CASE CommitDead(u)
    BY <2>1, <2>2, OutcomesLegal DEF CommitDead
  <2>3. CASE CommitApply(u)
    <3>1. PICK last \in LastPositions(u) :
              status' = [x \in Event |->
                  IF x \in RowsOf(u) THEN Outcome[ResultAt(u, last[x])]
                  ELSE status[x]]
      BY <2>3 DEF CommitApply
    <3>2. e \in RowsOf(u)
      BY <3>1
    <3>3. last[e] \in DOMAIN batch[u]
      BY <3>2 DEF LastPositions
    <3>4. result[u] \in Seq(RowResults) /\ DOMAIN result[u] = DOMAIN batch[u]
      BY <2>3 DEF TimelySafe, Safe, TypeOK, Bookkeeping, BookkeepingOf, CommitApply
    <3>5. ResultAt(u, last[e]) \in RowResults
      BY <3>3, <3>4 DEF ResultAt
    <3>6. status'[e] \in {"UPLOADED", "FAILED_RETRYABLE", "DEAD_LETTERED"}
      BY <3>1, <3>2, <3>5 DEF Outcome, RowResults
    <3> QED
      BY <2>1, <3>2, <3>6, OutcomesLegal
  <2>4. CASE CommitRetry(u) \/ Illegal(u)
    BY <2>4 DEF CommitRetry, Illegal, ledger
  <2> QED
    BY <1>2, <2>2, <2>3, <2>4 DEF Commit
<1>3. \/ \E u \in Uploaders : Claim(u) \/ Commit(u)
      \/ status' = status
  BY DEF Next, Progress, FlushIfDue, Request, Respond, Unavailable, NoAnswer,
         Refuse, Load, Crash, Restart, LateAccept, vars, ledger
<1> QED
  BY <1>1, <1>2, <1>3 DEF Claim

(* Under the same assumption every change of a row's status is one         *)
(* ALLOWED_TRANSITIONS lists (ledger.transition).                          *)
THEOREM OnlyLegalMoves == ASSUME Timely PROVE Spec => LegalMoves
<1>1. Init => TimelySafe /\ Unclaimed
  BY InitTimely DEF Init, Unclaimed
<1>2. TimelySafe /\ Unclaimed /\ [Next]_vars => (TimelySafe /\ Unclaimed)'
  BY NextTimely, UnclaimedStep
<1>3. TimelySafe /\ Unclaimed /\ [Next]_vars => [LegalStep]_vars
  BY StepIsLegal
<1> QED
  BY <1>1, <1>2, <1>3, PTL DEF Spec, LegalMoves

-----------------------------------------------------------------------------
(* Replays                                                                 *)

(* What an operator's replay does to a row of this stage, in module        *)
(* Gateway: the dead letter is closed and the row waits for a first        *)
(* attempt again (dlq.replay).                                             *)
Reopens(e) ==
    /\ status[e] = "DEAD_LETTERED"
    /\ status' = [status EXCEPT ![e] = "PROCESSED"]
    /\ attempt_count' = [attempt_count EXCEPT ![e] = 0]
    /\ open_dlq' = [open_dlq EXCEPT ![e] = <<>>]
    /\ UNCHANGED <<platform, process>>

(* A dead-lettered row is in nobody's hands, so uploaders do not notice.   *)
LEMMA ReopeningTimely ==
    ASSUME TimelySafe, Unclaimed, NEW e \in Event, Reopens(e)
    PROVE  TimelySafe' /\ Unclaimed'
<1>1. UNCHANGED <<accepted, late, pc, batch, tries, result, why, seen>>
  BY DEF Reopens, platform, process
<1>2. \A u \in Uploaders : RowsOf(u)' = RowsOf(u) /\ e \notin RowsOf(u) /\ RowsOf(u) \subseteq Event
  BY <1>1, RowsAreEvents
     DEF Reopens, TimelySafe, Safe, Owned, OwnedWhileUploading, Held, RowsOf
<1>3. /\ \A x \in Event : x # e => /\ status'[x] = status[x]
                                  /\ attempt_count'[x] = attempt_count[x]
                                  /\ open_dlq'[x] = open_dlq[x]
      /\ status'[e] = "PROCESSED" /\ attempt_count'[e] = 0 /\ open_dlq'[e] = <<>>
  BY DEF Reopens, TimelySafe, Safe, TypeOK
<1>4. Safe'
  <2>1. TypeOK'
    <3>1. status' \in [Event -> Statuses] /\ attempt_count' \in [Event -> Nat]
      BY DEF Reopens, TimelySafe, Safe, TypeOK, Statuses
    <3>2. open_dlq' \in [Event -> Seq(FailureClasses)]
      BY DEF Reopens, TimelySafe, Safe, TypeOK
    <3> QED
      BY <1>1, <3>1, <3>2 DEF TimelySafe, Safe, TypeOK
  <2>2. Bookkeeping'
    BY <1>1, <1>2 DEF TimelySafe, Safe, Bookkeeping, BookkeepingOf, InTransaction
  <2>3. UploadedWasAccepted'
    BY <1>1, <1>3 DEF TimelySafe, Safe, UploadedWasAccepted
  <2> QED
    BY <2>1, <2>2, <2>3 DEF Safe
<1>5. Owned'
  <2>1. OwnedWhileUploading'
    BY <1>1, <1>2, <1>3
       DEF TimelySafe, Owned, OwnedWhileUploading, ExclusiveClaims, Held
  <2>2. SeenIsCurrent' /\ NoIllegalTransition'
    BY <1>1, <1>2, <1>3
       DEF TimelySafe, Owned, SeenIsCurrent, InTransaction, NoIllegalTransition
  <2> QED
    BY <2>1, <2>2 DEF Owned
<1>6. OneOpenDeadLetter'
  BY <1>3 DEF TimelySafe, OneOpenDeadLetter
<1>7. AttemptsBounded' /\ Budget'
  <2>1. 0 < MaxRowAttempts + MaxAttempts
    BY MaxAttemptsAssumption, MaxRowAttemptsAssumption
  <2>2. AttemptsBounded'
    BY <1>3, <2>1, MaxAttemptsAssumption, MaxRowAttemptsAssumption
       DEF TimelySafe, AttemptsBounded
  <2>3. Budget'
    BY <1>1, <1>2, <1>3, <2>1 DEF TimelySafe, Budget
  <2> QED
    BY <2>2, <2>3
<1>8. Unclaimed'
  BY <1>3 DEF Unclaimed
<1> QED
  BY <1>4, <1>5, <1>6, <1>7, <1>8 DEF TimelySafe

-----------------------------------------------------------------------------
(* The abstract history                                                    *)

(* A settled row is in nobody's hands, so no step of timely uploaders      *)
(* touches its status again.                                               *)
LEMMA SettledStays ==
    ASSUME Timely, TimelySafe, [Next]_vars, NEW e \in Event,
           status[e] \in {"UPLOADED", "DEAD_LETTERED"}
    PROVE  status'[e] = status[e]
<1>1. \A u \in Uploaders : e \notin RowsOf(u)
  BY DEF TimelySafe, Owned, OwnedWhileUploading, Held
<1>2. ASSUME NEW u \in Uploaders, Claim(u) PROVE status'[e] = status[e]
  <2>1. PICK S \in SUBSET Event : ClaimRows(u, S)
    BY <1>2 DEF Claim
  <2>2. e \notin S
    BY <2>1 DEF ClaimRows, Ready, Stale
  <2> QED
    BY <2>1, <2>2 DEF ClaimRows
<1>3. ASSUME NEW u \in Uploaders, CommitApply(u) \/ CommitDead(u)
      PROVE  status'[e] = status[e]
  BY <1>1, <1>3 DEF CommitApply, CommitDead
<1>4. \/ UNCHANGED status
      \/ \E u \in Uploaders : Claim(u) \/ CommitApply(u) \/ CommitDead(u)
  BY DEF Next, Progress, Commit, CommitRetry, Illegal, FlushIfDue, Request, Respond,
         Unavailable, NoAnswer, Refuse, Load, Crash, Restart, LateAccept, vars, ledger
<1> QED
  BY <1>2, <1>3, <1>4

(* One step either writes statuses or adds to what the platform has.       *)
LEMMA StatusOrPlatform ==
    ASSUME TimelySafe, [Next]_vars
    PROVE  \/ accepted' = accepted
           \/ UNCHANGED status /\ accepted \subseteq accepted' /\ accepted' \subseteq Event
<1>1. \/ accepted' = accepted
      \/ \E u \in Uploaders : Respond(u)
      \/ \E e \in Event : LateAccept(e)
  BY DEF Next, Progress, Commit, CommitRetry, CommitApply, CommitDead, Illegal, FlushIfDue,
         Request, Unavailable, NoAnswer, Refuse, Load, Crash, Restart, Claim, ClaimRows,
         vars, platform
<1>2. ASSUME NEW u \in Uploaders, Respond(u)
      PROVE  UNCHANGED status /\ accepted \subseteq accepted' /\ accepted' \subseteq Event
  <2>1. accepted \subseteq Event /\ batch[u] \in Seq(Event)
    BY DEF TimelySafe, Safe, TypeOK
  <2>2. PICK r \in [DOMAIN batch[u] -> RowResults] :
            accepted' = accepted \cup
                {batch[u][i] : i \in {j \in DOMAIN batch[u] : r[j] = "ok"}}
    BY <1>2 DEF Respond
  <2>3. \A i \in DOMAIN batch[u] : batch[u][i] \in Event
    BY <2>1
  <2> QED
    BY <1>2, <2>1, <2>2, <2>3 DEF Respond, ledger
<1>3. ASSUME NEW e \in Event, LateAccept(e)
      PROVE  UNCHANGED status /\ accepted \subseteq accepted' /\ accepted' \subseteq Event
  BY <1>3 DEF LateAccept, ledger, TimelySafe, Safe, TypeOK
<1> QED
  BY <1>1, <1>2, <1>3

(* Every step of timely uploaders is a step of the abstract history.       *)
LEMMA HistoryStep ==
    ASSUME Timely, TimelySafe, TimelySafe', [Next]_vars
    PROVE  History!UploadNext
<1>1. CASE accepted' = accepted
  <2>1. ASSUME NEW e \in Event
        PROVE  Fate(e)' = Fate(e) \/ (/\ Fate(e) = "released"
                                     /\ \/ Fate(e)' = "uploaded" /\ e \in accepted
                                        \/ Fate(e)' = "dead")
    <3>1. CASE status[e] \in {"UPLOADED", "DEAD_LETTERED"}
      BY <3>1, SettledStays DEF Fate
    <3>2. CASE status[e] \notin {"UPLOADED", "DEAD_LETTERED"}
      <4>1. status'[e] = "UPLOADED" => e \in accepted
        BY <1>1 DEF TimelySafe, Safe, UploadedWasAccepted
      <4> QED
        BY <3>2, <4>1 DEF Fate
    <3> QED
      BY <3>1, <3>2
  <2>2. [e \in Event |-> Fate(e)]' \in [Event -> History!Fates]
    BY DEF Fate, History!Fates
  <2>3. History!Settle
    BY <1>1, <2>1, <2>2 DEF History!Settle, History!Settles
  <2> QED
    BY <2>3 DEF History!UploadNext
<1>2. CASE UNCHANGED status /\ accepted \subseteq accepted' /\ accepted' \subseteq Event
  BY <1>2 DEF History!UploadNext, History!Record, Fate
<1> QED
  BY <1>1, <1>2, StatusOrPlatform

(* While no uploader outlives stale_after, the upload stage keeps what     *)
(* EventHistory promises, for any rows, uploaders and ceilings: an event   *)
(* is settled once and for good, and uploaded only if the platform has it. *)
THEOREM UploaderImplementsHistory == ASSUME Timely PROVE Spec => ImplementsHistory
<1>1. Init => History!UploadInit
  BY DEF Init, History!UploadInit, Fate
<1>2. TimelySafe /\ TimelySafe' /\ [Next]_vars => [History!UploadNext]_(History!history)
  BY HistoryStep
<1> QED
  BY InitTimely, NextTimely, <1>1, <1>2, PTL DEF Spec, ImplementsHistory, History!UploadSpec

=============================================================================
