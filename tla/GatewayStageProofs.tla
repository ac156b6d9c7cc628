------------------------- MODULE GatewayStageProofs --------------------------
(***************************************************************************)
(* Proofs about each stage of the gateway as the other sees it, for any    *)
(* number of processes.  First, with nothing assumed of their timing, that *)
(* the upload stage does to the ledger only what module Intake takes for   *)
(* granted of it.  Then, while no uploader outlives stale_after, the       *)
(* inductive invariant of the ledger, and that no step of an uploader      *)
(* breaks it.  Module GatewayLedgerProofs goes on with the intake stage.   *)
(***************************************************************************)
EXTENDS GatewayProofs, WellFoundedInduction

(* The steps of the two stages, of which the gateway has no other kind.    *)
IntakeStep ==
    \/ \E e \in Event : Intakes(In!Ingest(e))
    \/ \E w \in Workers : Intakes(In!Work(w))
    \/ Intakes(In!Reconcile)
    \/ \E o \in Operators :
        \/ Intakes(In!ReplayRead(o) \/ In!ReplayPublish(o) \/ In!ReplayAbort(o))
        \/ ReplayCommit(o)

UploadStep ==
    \/ \E u \in Uploaders : Uploads(Up!Claim(u) \/ Up!Progress(u) \/ Up!Crash(u) \/ Up!Restart(u))
    \/ \E e \in Event : Uploads(Up!LateAccept(e))

LEMMA NextIsStep == Next <=> IntakeStep \/ UploadStep
BY DEF Next, IntakeStep, UploadStep

LEMMA UploadKeepsInv ==
    ASSUME Inv, UploadStep
    PROVE  Inv' /\ Uploading
<1>1. Uploading
    BY ClaimTakesWaiting, ProgressWorks, StopWorks, LateWorks, WorksIsUploading
    DEF UploadStep, Uploads
<1> QED BY <1>1, UploadingKeepsInv

-----------------------------------------------------------------------------
(* What the processes have in hand                                         *)

(* Dead letters are written one after the other, and what is replayed is   *)
(* one of them.                                                            *)
Classes == Up!FailureClasses \cup {"none"}

LettersGrounded ==
    /\ letters = [e \in Event |-> letters[e]] /\ replayed = [e \in Event |-> replayed[e]]
    /\ \A e \in Event :
        letters[e] \in Seq(Classes) /\ replayed[e] \subseteq DOMAIN letters[e]

JobGrounded(w) ==
    /\ worker[w].step # "idle" => worker[w].message.event \in Event
    /\ worker[w].step = "read" =>
        worker[w] = [step |-> "read", message |-> worker[w].message,
                     status |-> worker[w].status, hashed |-> worker[w].hashed]

ReplayGrounded(o) ==
    operator[o].step # "idle" =>
        /\ operator[o] = [step |-> operator[o].step, event |-> operator[o].event,
                          row |-> operator[o].row]
        /\ operator[o].event \in Event
        /\ operator[o].row \in DOMAIN letters[operator[o].event]

HandsGrounded ==
    /\ operator = [o \in Operators |-> operator[o]]
    /\ \A m \in queue : m.event \in Event
    /\ \A w \in Workers : JobGrounded(w)
    /\ \A o \in Operators : ReplayGrounded(o)

(* A transaction is open only over a batch whose request is over, and has  *)
(* read the rows of that batch.                                            *)
BatchGrounded(u) ==
    /\ why[u] \in Classes
    /\ Up!InTransaction(u) =>
        /\ pc[u] \in {"retry", "apply", "dead"}
        /\ \A e \in Event : e \notin Up!RowsOf(u) => seen[u][e] = Up!Unread
    /\ pc[u] = "apply" => result[u] \in [DOMAIN batch[u] -> Up!RowResults]

BatchesGrounded ==
    /\ DOMAIN pc = Uploaders /\ DOMAIN result = Uploaders /\ DOMAIN why = Uploaders
    /\ DOMAIN seen = Uploaders
    /\ \A u \in Uploaders : BatchGrounded(u)

Grounded == Inv /\ LettersGrounded /\ HandsGrounded /\ BatchesGrounded

(* The intake stage leaves the letters and the batches alone.              *)
LEMMA HandsKept ==
    ASSUME Grounded, UNCHANGED <<letters, replayed, upload>>, HandsGrounded', Inv'
    PROVE  Grounded'
BY DEF Grounded, LettersGrounded, BatchesGrounded, BatchGrounded, upload, Up!InTransaction,
       Up!RowsOf

(* A worker or an operator lays down what it has, or takes something up.   *)
LEMMA JobTaken ==
    ASSUME Grounded, UNCHANGED <<letters, operator>>,
           \A m \in queue' : m.event \in Event,
           NEW w \in Workers, \A v \in Workers : v # w => worker'[v] = worker[v],
           JobGrounded(w)'
    PROVE  HandsGrounded'
<1>1. ASSUME NEW v \in Workers PROVE JobGrounded(v)'
    BY DEF Grounded, HandsGrounded, JobGrounded
<1> QED BY <1>1 DEF Grounded, HandsGrounded, ReplayGrounded

LEMMA ReplayTaken ==
    ASSUME Grounded, UNCHANGED <<letters, worker>>,
           \A m \in queue' : m.event \in Event,
           NEW o \in Operators, NEW r, operator' = [operator EXCEPT ![o] = r],
           ReplayGrounded(o)'
    PROVE  HandsGrounded'
<1>1. operator' = [p \in Operators |-> operator'[p]]
    BY DEF Grounded, HandsGrounded
<1>2. ASSUME NEW p \in Operators PROVE ReplayGrounded(p)'
    <2>1. CASE p # o
        <3>1. operator'[p] = operator[p]
            BY <2>1 DEF Grounded, HandsGrounded
        <3> QED BY <3>1 DEF Grounded, HandsGrounded, ReplayGrounded
    <2> QED BY <2>1
<1> QED BY <1>1, <1>2 DEF Grounded, HandsGrounded, JobGrounded

LEMMA QueueGrows ==
    ASSUME Grounded, UNCHANGED <<letters, operator, worker>>,
           \A m \in queue' : m.event \in Event
    PROVE  HandsGrounded'
BY DEF Grounded, HandsGrounded, JobGrounded, ReplayGrounded

LEMMA WorkKeepsHands ==
    ASSUME Grounded, NEW w \in Workers, Intakes(In!Work(w))
    PROVE  HandsGrounded'
<1>1. UNCHANGED <<letters, operator>> /\ queue' \subseteq queue
    BY DEF Intakes, In!Work, In!Receive, In!Process, In!Skip, In!Ack, In!Redeliver
<1>2. DOMAIN worker = Workers /\ \A m \in queue : m.event \in Event
    BY DEF Grounded, HandsGrounded, Inv, Shape
<1>3. ASSUME NEW j, worker' = [worker EXCEPT ![w] = j],
             j.step # "idle" => j.message.event \in Event,
             j.step = "read" => j = [step |-> "read", message |-> j.message,
                                     status |-> j.status, hashed |-> j.hashed]
      PROVE  HandsGrounded'
    <2>1. worker'[w] = j /\ \A v \in Workers : v # w => worker'[v] = worker[v]
        BY <1>2, <1>3
    <2>2. JobGrounded(w)'
        BY <1>3, <2>1 DEF JobGrounded
    <2> QED BY <1>1, <1>2, <2>1, <2>2, JobTaken
<1>4. ASSUME NEW m \in queue, In!Receive(w, m) PROVE HandsGrounded'
    <2> DEFINE j == [step |-> "read", message |-> m, status |-> status[m.event],
                     hashed |-> hashed[m.event]]
    <2>1. worker' = [worker EXCEPT ![w] = j]
        BY <1>4 DEF In!Receive
    <2>2. /\ m.event \in Event /\ j.message = m
          /\ j = [step |-> "read", message |-> j.message, status |-> j.status,
                  hashed |-> j.hashed]
        BY <1>2
    <2> HIDE DEF j
    <2> QED BY <1>3, <2>1, <2>2
<1>5. CASE In!Process(w) \/ In!Skip(w)
    <2> DEFINE j == [step |-> "ack", message |-> worker[w].message]
    <2>1. worker' = [worker EXCEPT ![w] = j]
        BY <1>5 DEF In!Process, In!Skip
    <2>2. worker[w].message.event \in Event
        BY <1>5 DEF In!Process, In!Skip, Grounded, HandsGrounded, JobGrounded
    <2>3. j.step = "ack" /\ j.message.event \in Event
        BY <2>2
    <2> HIDE DEF j
    <2> QED BY <1>3, <2>1, <2>3
<1>6. CASE In!Ack(w) \/ In!Redeliver(w)
    <2>1. worker' = [worker EXCEPT ![w] = In!Resting] /\ In!Resting.step = "idle"
        BY <1>6 DEF In!Ack, In!Redeliver, In!Resting
    <2> QED BY <1>3, <2>1
<1> QED BY <1>4, <1>5, <1>6 DEF Intakes, In!Work

LEMMA IngestKeepsHands ==
    ASSUME Grounded, NEW e \in Event, Intakes(In!Ingest(e))
    PROVE  HandsGrounded'
<1>1. /\ UNCHANGED <<letters, operator, worker>>
      /\ queue' = queue \/ queue' = queue \cup {[event |-> e, ids |-> lead[e].ids]}
    BY DEF Intakes, In!Ingest, In!IngestNew, In!IngestDuplicate, In!IngestInvalid,
        In!Publish, In!ApiCrash, In!Send
<1>2. \A m \in queue' : m.event \in Event
    BY <1>1 DEF Grounded, HandsGrounded
<1> QED BY <1>1, <1>2, QueueGrows

LEMMA ReconcileKeepsHands ==
    ASSUME Grounded, Intakes(In!Reconcile)
    PROVE  HandsGrounded'
<1>1. /\ UNCHANGED <<letters, operator, worker>>
      /\ queue' = queue \/ \E e \in Event : queue' = queue \cup {In!EmptyMessage(e)}
    BY DEF Intakes, In!Reconcile, In!ReconcileRead, In!ReconcilePublish, In!ReconcileAbort
<1>2. \A m \in queue' : m.event \in Event
    BY <1>1 DEF Grounded, HandsGrounded, In!EmptyMessage
<1> QED BY <1>1, <1>2, QueueGrows

LEMMA ReplayStartKeepsHands ==
    ASSUME Grounded, NEW o \in Operators,
           Intakes(In!ReplayRead(o) \/ In!ReplayPublish(o) \/ In!ReplayAbort(o))
    PROVE  HandsGrounded'
<1>1. UNCHANGED <<letters, worker>> /\ DOMAIN operator = Operators
    BY DEF Intakes, In!ReplayRead, In!ReplayPublish, In!ReplayAbort, Grounded, HandsGrounded
<1>2. CASE In!ReplayRead(o)
    <2>1. PICK e \in Event : \E d \in DOMAIN letters[e] :
            operator' = [operator EXCEPT ![o] = [step |-> "read", event |-> e, row |-> d]]
        BY <1>2 DEF In!ReplayRead, OpenLetters
    <2>2. PICK d \in DOMAIN letters[e] :
            operator' = [operator EXCEPT ![o] = [step |-> "read", event |-> e, row |-> d]]
        BY <2>1
    <2>3. operator'[o] = [step |-> "read", event |-> e, row |-> d] /\ queue' = queue
        BY <1>1, <1>2, <2>2 DEF In!ReplayRead
    <2>4. ReplayGrounded(o)'
        BY <1>1, <2>3 DEF ReplayGrounded
    <2> QED BY <1>1, <2>2, <2>3, <2>4, ReplayTaken DEF Grounded, HandsGrounded
<1>3. CASE In!ReplayPublish(o)
    <2> DEFINE r == [step |-> "published", event |-> operator[o].event, row |-> operator[o].row]
    <2>1. /\ ReplayGrounded(o) /\ operator[o].step # "idle"
          /\ operator[o] = [step |-> operator[o].step, event |-> operator[o].event,
                            row |-> operator[o].row]
        BY <1>3 DEF Grounded, HandsGrounded, In!ReplayPublish, ReplayGrounded
    <2>2. operator' = [operator EXCEPT ![o] = [operator[o] EXCEPT !.step = "published"]]
        BY <1>3 DEF In!ReplayPublish
    <2>3. [operator[o] EXCEPT !.step = "published"] = r
        BY <2>1
    <2>4. operator'[o] = r /\ operator' = [operator EXCEPT ![o] = r]
        BY <1>1, <2>2, <2>3
    <2>5. ReplayGrounded(o)'
        BY <1>1, <2>1, <2>4 DEF ReplayGrounded
    <2>6. \A m \in queue' : m.event \in Event
        BY <1>3, <2>1 DEF In!ReplayPublish, In!EmptyMessage, ReplayGrounded, Grounded, HandsGrounded
    <2> HIDE DEF r
    <2> QED BY <1>1, <2>4, <2>5, <2>6, ReplayTaken
<1>4. CASE In!ReplayAbort(o)
    <2>1. operator' = [operator EXCEPT ![o] = In!Resting] /\ queue' = queue
        BY <1>4 DEF In!ReplayAbort
    <2>2. ReplayGrounded(o)'
        BY <1>1, <2>1 DEF ReplayGrounded, In!Resting
    <2> QED BY <1>1, <2>1, <2>2, ReplayTaken DEF Grounded, HandsGrounded
<1> QED BY <1>2, <1>3, <1>4 DEF Intakes

LEMMA ReplayCommitKeepsGround ==
    ASSUME Grounded, Inv', NEW o \in Operators, ReplayCommit(o)
    PROVE  Grounded'
<1> DEFINE e == operator[o].event
<1>1. /\ operator[o].step = "published"
      /\ replayed' = [replayed EXCEPT ![e] = @ \cup {operator[o].row}]
      /\ operator' = [operator EXCEPT ![o] = In!Resting]
      /\ UNCHANGED <<letters, queue, worker, upload>>
    BY DEF ReplayCommit, In!ReplayCommit
<1>2. e \in Event /\ operator[o].row \in DOMAIN letters[e] /\ DOMAIN operator = Operators
    BY <1>1 DEF Grounded, HandsGrounded, ReplayGrounded
<1>3. HandsGrounded'
    <2>1. ReplayGrounded(o)'
        BY <1>1, <1>2 DEF ReplayGrounded, In!Resting
    <2> QED BY <1>1, <2>1, ReplayTaken DEF Grounded, HandsGrounded
<1>4. LettersGrounded'
    BY <1>1, <1>2 DEF Grounded, LettersGrounded
<1>5. BatchesGrounded'
    BY <1>1 DEF Grounded, BatchesGrounded, BatchGrounded, upload, Up!InTransaction, Up!RowsOf
<1> QED BY <1>3, <1>4, <1>5 DEF Grounded

LEMMA IntakeKeepsGround ==
    ASSUME Grounded, IntakeStep
    PROVE  Grounded'
<1>1. Inv'
    BY NextInv, NextIsStep DEF Grounded
<1>2. ASSUME NEW o \in Operators, ReplayCommit(o) PROVE Grounded'
    BY <1>1, <1>2, ReplayCommitKeepsGround
<1>3. CASE ~\E o \in Operators : ReplayCommit(o)
    <2>1. UNCHANGED <<letters, replayed, upload>> /\ HandsGrounded'
        BY <1>3, WorkKeepsHands, IngestKeepsHands, ReconcileKeepsHands, ReplayStartKeepsHands
        DEF IntakeStep, Intakes
    <2> QED BY <1>1, <2>1, HandsKept
<1> QED BY <1>2, <1>3

(* An uploader's step changes its own batch, request and transaction only, *)
(* writes letters one at a time and replays none.                          *)
LettersGrow ==
    /\ letters' = [e \in Event |-> letters'[e]]
    /\ \A e \in Event :
        letters'[e] = letters[e] \/ \E x \in Classes : letters'[e] = Append(letters[e], x)

LEMMA LettersStayGrounded ==
    ASSUME Grounded, LettersGrow, UNCHANGED <<replayed, intake>>
    PROVE  LettersGrounded' /\ HandsGrounded'
<1>1. ASSUME NEW e \in Event
      PROVE  letters'[e] \in Seq(Classes) /\ DOMAIN letters[e] \subseteq DOMAIN letters'[e]
    <2>1. letters[e] \in Seq(Classes)
        BY DEF Grounded, LettersGrounded
    <2>2. ASSUME NEW x \in Classes, letters'[e] = Append(letters[e], x)
          PROVE  letters'[e] \in Seq(Classes) /\ DOMAIN letters[e] \subseteq DOMAIN letters'[e]
        <3>1. /\ letters'[e] \in Seq(Classes)
              /\ Len(letters[e]) \in Nat /\ Len(letters'[e]) = Len(letters[e]) + 1
              /\ DOMAIN letters[e] = 1..Len(letters[e])
              /\ DOMAIN letters'[e] = 1..Len(letters'[e])
            BY <2>1, <2>2, AppendProperties, LenProperties
        <3> QED BY <3>1
    <2> QED BY <2>1, <2>2 DEF LettersGrow
<1>2. LettersGrounded'
    BY <1>1 DEF Grounded, LettersGrounded, LettersGrow
<1>3. HandsGrounded'
    BY <1>1 DEF Grounded, HandsGrounded, JobGrounded, ReplayGrounded, intake
<1> QED BY <1>2, <1>3

LEMMA BatchTaken ==
    ASSUME BatchesGrounded, NEW u \in Uploaders,
           DOMAIN pc' = Uploaders, DOMAIN result' = Uploaders, DOMAIN why' = Uploaders,
           DOMAIN seen' = Uploaders,
           \A v \in Uploaders : v # u =>
                /\ pc'[v] = pc[v] /\ batch'[v] = batch[v] /\ result'[v] = result[v]
                /\ why'[v] = why[v] /\ seen'[v] = seen[v],
           BatchGrounded(u)'
    PROVE  BatchesGrounded'
<1>1. ASSUME NEW v \in Uploaders PROVE BatchGrounded(v)'
    <2>1. CASE v # u
        <3>1. BatchGrounded(v)
            BY DEF BatchesGrounded
        <3> QED BY <2>1, <3>1 DEF BatchGrounded, Up!InTransaction, Up!RowsOf
    <2> QED BY <2>1
<1> QED BY <1>1 DEF BatchesGrounded

LEMMA FinishGrounded ==
    ASSUME Grounded, NEW u \in Uploaders, NEW where, where \notin {"apply"},
           Up!Finish(u, where)
    PROVE  BatchesGrounded'
<1>1. /\ DOMAIN pc = Uploaders /\ DOMAIN result = Uploaders /\ DOMAIN why = Uploaders
      /\ DOMAIN seen = Uploaders /\ DOMAIN batch = Uploaders
    BY DEF Grounded, BatchesGrounded, Inv, Shape
<1>2. pc'[u] = where /\ why'[u] = "none" /\ seen'[u] = Up!NothingRead
    BY <1>1 DEF Up!Finish
<1>3. BatchGrounded(u)'
    BY <1>2 DEF BatchGrounded, Up!InTransaction, Up!NothingRead, Up!Unread, Classes
<1> QED BY <1>1, <1>3, BatchTaken DEF Up!Finish, Grounded

(* The letter classes an uploader has to write.                            *)
LEMMA ClassesKnown ==
    /\ {"poison", "partial"} \subseteq Classes
    /\ Grounded => \A u \in Uploaders : why[u] \in Classes
BY DEF Classes, Up!FailureClasses, Grounded, BatchesGrounded, BatchGrounded

LEMMA ClaimKeepsGround ==
    ASSUME Grounded, NEW u \in Uploaders, Uploads(Up!Claim(u))
    PROVE  BatchesGrounded' /\ LettersGrow
<1>1. PICK S \in SUBSET Event : Up!ClaimRows(u, S)
    BY DEF Uploads, Up!Claim
<1>2. PICK poison : /\ letters' = [e \in Event |->
                            IF e \in poison THEN Append(letters[e], "poison") ELSE letters[e]]
                    /\ \E q : batch' = [batch EXCEPT ![u] = @ \o q]
                    /\ \E p \in {"send", "idle"} : pc' = [pc EXCEPT ![u] = p]
    BY <1>1 DEF Up!ClaimRows
<1>3. pc[u] = "idle" /\ UNCHANGED <<result, why, seen>>
    BY <1>1 DEF Up!ClaimRows
<1>4. /\ DOMAIN pc = Uploaders /\ DOMAIN result = Uploaders /\ DOMAIN why = Uploaders
      /\ DOMAIN seen = Uploaders /\ DOMAIN batch = Uploaders
    BY DEF Grounded, BatchesGrounded, Inv, Shape
<1>5. ~Up!InTransaction(u) /\ why[u] \in Classes
    BY <1>3 DEF Grounded, BatchesGrounded, BatchGrounded
<1>6. BatchGrounded(u)'
    BY <1>2, <1>3, <1>4, <1>5 DEF BatchGrounded, Up!InTransaction, Up!NothingRead
<1>7. BatchesGrounded'
    BY <1>2, <1>3, <1>4, <1>6, BatchTaken DEF Grounded
<1>8. LettersGrow
    BY <1>2, ClassesKnown DEF LettersGrow
<1> QED BY <1>7, <1>8

LEMMA RequestKeepsGround ==
    ASSUME Grounded, NEW u \in Uploaders, Uploads(Up!FlushIfDue(u) \/ Up!Request(u))
    PROVE  BatchesGrounded' /\ UNCHANGED <<status, letters, seen>>
<1>1. /\ DOMAIN pc = Uploaders /\ DOMAIN result = Uploaders /\ DOMAIN why = Uploaders
      /\ DOMAIN seen = Uploaders
    BY DEF Grounded, BatchesGrounded
<1>2. pc[u] \in {"idle", "send"} /\ UNCHANGED <<status, letters, batch, seen>>
    BY DEF Uploads, Up!FlushIfDue, Up!Request, Up!Respond, Up!Unavailable, Up!NoAnswer,
        Up!Refuse, Up!RetryOrGiveUp, Up!ledger
<1>3. ~Up!InTransaction(u) /\ why[u] \in Classes
    BY <1>2 DEF Grounded, BatchesGrounded, BatchGrounded
<1>4. /\ \E p : pc' = [pc EXCEPT ![u] = p]
      /\ why' = why \/ \E c \in Classes : why' = [why EXCEPT ![u] = c]
      /\ \/ /\ result' = result
            /\ pc'[u] # "apply"
         \/ /\ \E r \in [DOMAIN batch[u] -> Up!RowResults] : result' = [result EXCEPT ![u] = r]
            /\ why' = why
    BY <1>1 DEF Uploads, Up!FlushIfDue, Up!Request, Up!Respond, Up!Unavailable, Up!NoAnswer,
        Up!Refuse, Up!RetryOrGiveUp, Classes, Up!FailureClasses
<1>5. BatchGrounded(u)'
    BY <1>1, <1>2, <1>3, <1>4 DEF BatchGrounded, Up!InTransaction, Up!NothingRead
<1> QED BY <1>1, <1>2, <1>4, <1>5, BatchTaken DEF Grounded

LEMMA LoadKeepsGround ==
    ASSUME Grounded, NEW u \in Uploaders, Uploads(Up!Load(u))
    PROVE  BatchesGrounded' /\ UNCHANGED <<status, letters>>
<1>1. /\ DOMAIN pc = Uploaders /\ DOMAIN result = Uploaders /\ DOMAIN why = Uploaders
      /\ DOMAIN seen = Uploaders
    BY DEF Grounded, BatchesGrounded
<1>2. /\ pc[u] \in {"retry", "apply", "dead"}
      /\ seen' = [seen EXCEPT ![u] = [e \in Event |->
            IF e \in Up!RowsOf(u)
            THEN [status |-> status[e], attempts |-> attempt_count[e]] ELSE Up!Unread]]
      /\ UNCHANGED <<status, letters, pc, batch, result, why>>
    BY DEF Uploads, Up!Load, Up!ledger
<1>3. \A e \in Event : e \notin Up!RowsOf(u) => seen'[u][e] = Up!Unread
    BY <1>1, <1>2
<1>4. BatchGrounded(u)
    BY DEF Grounded, BatchesGrounded
<1>5. BatchGrounded(u)'
    BY <1>2, <1>3, <1>4 DEF BatchGrounded, Up!RowsOf, Up!Unread
<1> QED BY <1>1, <1>2, <1>5, BatchTaken DEF Grounded

LEMMA CommitKeepsGround ==
    ASSUME Grounded, NEW u \in Uploaders, Uploads(Up!Commit(u))
    PROVE  BatchesGrounded' /\ LettersGrow
<1>1. letters = [e \in Event |-> letters[e]]
    BY DEF Grounded, LettersGrounded
<1>2. CASE Up!CommitRetry(u)
    <2>1. /\ DOMAIN pc = Uploaders /\ DOMAIN result = Uploaders /\ DOMAIN why = Uploaders
          /\ DOMAIN seen = Uploaders
        BY DEF Grounded, BatchesGrounded
    <2>2. /\ pc' = [pc EXCEPT ![u] = "send"] /\ seen' = [seen EXCEPT ![u] = Up!NothingRead]
          /\ UNCHANGED <<letters, batch, result, why>>
        BY <1>2 DEF Up!CommitRetry
    <2>3. pc'[u] = "send" /\ seen'[u] = Up!NothingRead
        BY <2>1, <2>2
    <2>4. BatchGrounded(u)'
        BY <2>2, <2>3, ClassesKnown
        DEF BatchGrounded, Up!InTransaction, Up!NothingRead, Up!Unread
    <2> QED BY <1>1, <2>1, <2>2, <2>4, BatchTaken DEF Grounded, LettersGrow
<1>3. CASE Up!CommitApply(u)
    <2>1. \E rejected : letters' = [e \in Event |->
            IF e \in rejected THEN Append(letters[e], "partial") ELSE letters[e]]
        <3>1. PICK last \in Up!LastPositions(u) : letters' = [e \in Event |->
                IF e \in Up!RowsOf(u) /\ Up!ResultAt(u, last[e]) = "rejected"
                THEN Append(letters[e], "partial") ELSE letters[e]]
            BY <1>3 DEF Up!CommitApply
        <3>2. letters' = [e \in Event |->
                IF e \in {x \in Up!RowsOf(u) : Up!ResultAt(u, last[x]) = "rejected"}
                THEN Append(letters[e], "partial") ELSE letters[e]]
            BY <3>1
        <3> QED BY <3>2
    <2>2. LettersGrow
        BY <2>1, ClassesKnown DEF LettersGrow
    <2> QED BY <1>3, <2>2, FinishGrounded DEF Up!CommitApply
<1>4. CASE Up!CommitDead(u)
    <2>1. LettersGrow
        BY <1>4, ClassesKnown DEF Up!CommitDead, LettersGrow
    <2> QED BY <1>4, <2>1, FinishGrounded DEF Up!CommitDead
<1>5. CASE Up!Illegal(u)
    BY <1>1, <1>5, FinishGrounded DEF Up!Illegal, Up!ledger, LettersGrow
<1> QED BY <1>2, <1>3, <1>4, <1>5 DEF Uploads, Up!Commit

LEMMA UploadKeepsGround ==
    ASSUME Grounded, UploadStep
    PROVE  Grounded'
<1>1. letters' = letters => LettersGrow
    BY DEF LettersGrow, Grounded, LettersGrounded
<1>2. ASSUME NEW u \in Uploaders, Uploads(Up!Progress(u))
      PROVE  BatchesGrounded' /\ LettersGrow
    BY <1>1, <1>2, RequestKeepsGround, LoadKeepsGround, CommitKeepsGround
    DEF Uploads, Up!Progress
<1>3. ASSUME NEW u \in Uploaders, Up!Crash(u)
      PROVE  BatchesGrounded' /\ LettersGrow
    BY <1>1, <1>3, FinishGrounded DEF Up!Crash, Up!ledger
<1>4. ASSUME NEW u \in Uploaders, Up!Restart(u)
      PROVE  BatchesGrounded' /\ LettersGrow
    <2>1. /\ pc[u] \in {"down", "failed"} /\ pc' = [pc EXCEPT ![u] = "idle"]
          /\ UNCHANGED <<letters, batch, result, why, seen>>
        BY <1>4 DEF Up!Restart, Up!ledger
    <2>2. pc'[u] = "idle" /\ DOMAIN pc' = Uploaders
        BY <2>1 DEF Grounded, BatchesGrounded
    <2>3. BatchGrounded(u)'
        BY <2>1, <2>2 DEF Grounded, BatchesGrounded, BatchGrounded, Up!InTransaction
    <2> QED BY <1>1, <2>1, <2>2, <2>3, BatchTaken DEF Grounded, BatchesGrounded
<1>5. ASSUME NEW e \in Event, Up!LateAccept(e)
      PROVE  BatchesGrounded' /\ LettersGrow
    BY <1>1, <1>5 DEF Up!LateAccept, Up!ledger, Up!process, Grounded, BatchesGrounded,
        BatchGrounded, Up!InTransaction, Up!RowsOf
<1>6. BatchesGrounded' /\ LettersGrow
    BY <1>2, <1>3, <1>4, <1>5, ClaimKeepsGround DEF UploadStep, Uploads
<1>7. Inv' /\ UNCHANGED <<replayed, intake>>
    BY UploadKeepsInv DEF Grounded, UploadStep, Uploads
<1> QED BY <1>6, <1>7, LettersStayGrounded DEF Grounded

LEMMA InitGround == Init => Grounded
<1> SUFFICES ASSUME Init PROVE Grounded
    OBVIOUS
<1>1. LettersGrounded
    BY DEF Init, LettersGrounded
<1>2. HandsGrounded
    BY DEF Init, HandsGrounded, JobGrounded, ReplayGrounded, In!Resting
<1>3. BatchesGrounded
    BY DEF Init, BatchesGrounded, BatchGrounded, Up!InTransaction, Classes
<1> QED BY <1>1, <1>2, <1>3, InitInv DEF Grounded

LEMMA NextGround == Grounded /\ [Next]_vars => Grounded'
<1>1. ASSUME Grounded, UNCHANGED vars PROVE Grounded'
    <2>1. Inv' /\ HandsGrounded' /\ UNCHANGED <<letters, replayed, upload>>
        BY <1>1, NextInv DEF Grounded, HandsGrounded, JobGrounded, ReplayGrounded, vars, intake
    <2> QED BY <1>1, <2>1, HandsKept
<1> QED BY <1>1, NextIsStep, IntakeKeepsGround, UploadKeepsGround

-----------------------------------------------------------------------------
(* The intake stage takes the upload stage for what it is                  *)

(* How module Intake knows rows, workers and open transactions.            *)
Rows == [e \in Event |-> Reduced(status[e])]
Jobs == [w \in Workers |-> ReducedJob(worker[w])]
Reads == [u \in Uploaders |-> Loaded(u)]

LEMMA ReducedStatuses ==
    /\ \A e \in Event : \A s \in {"ABSENT", "QUEUED", "PROCESSED", "DEAD_LETTERED"} :
            Rows[e] = s <=> status[e] = s
    /\ \A s : s # "FAILED_RETRYABLE" => Reduced(s) = s
BY DEF Rows, Reduced

LEMMA ReducedRow ==
    ASSUME Grounded, NEW e \in Event, NEW s \in In!Statuses, s # "FAILED_RETRYABLE",
           status' = [status EXCEPT ![e] = s]
    PROVE  Rows' = [Rows EXCEPT ![e] = s]
<1>1. DOMAIN status = Event
    BY DEF Grounded, Inv, Shape
<1>2. status'[e] = s /\ \A x \in Event : x # e => status'[x] = status[x]
    BY <1>1
<1> QED BY <1>2 DEF Rows, Reduced

LEMMA ReadsKept == UNCHANGED seen => UNCHANGED Reads
BY DEF Reads, Loaded

LEMMA ReducedStep ==
    ASSUME Grounded, NEW w \in Workers, NEW j, worker' = [worker EXCEPT ![w] = j]
    PROVE  Jobs' = [Jobs EXCEPT ![w] = ReducedJob(j)]
<1>1. DOMAIN worker = Workers
    BY DEF Grounded, Inv, Shape
<1>2. worker'[w] = j /\ \A x \in Workers : x # w => worker'[x] = worker[x]
    BY <1>1
<1>3. \A x \in Workers :
        ReducedJob(worker'[x]) = IF x = w THEN ReducedJob(j) ELSE ReducedJob(worker[x])
    BY <1>2
<1>4. Jobs' = [x \in Workers |-> ReducedJob(worker'[x])]
    BY DEF Jobs
<1>5. Jobs = [x \in Workers |-> ReducedJob(worker[x])]
    BY DEF Jobs
<1> QED BY <1>3, <1>4, <1>5

(* A job keeps all but the status it has read.                             *)
LEMMA ReducedFields ==
    ASSUME Grounded, NEW w \in Workers
    PROVE  /\ Jobs[w].step = worker[w].step
           /\ worker[w].step # "read" => Jobs[w] = worker[w]
           /\ worker[w].step = "read" =>
                /\ Jobs[w].message = worker[w].message
                /\ Jobs[w].hashed = worker[w].hashed
                /\ Jobs[w].status = Reduced(worker[w].status)
<1>1. worker[w].step = "read" =>
        worker[w] = [step |-> "read", message |-> worker[w].message,
                     status |-> worker[w].status, hashed |-> worker[w].hashed]
    BY DEF Grounded, HandsGrounded, JobGrounded
<1> QED BY <1>1 DEF Jobs, ReducedJob

LEMMA IngestAsStage ==
    ASSUME Grounded, NEW e \in Event, Intakes(In!Ingest(e))
    PROVE  Stage!Ingest(e)
<1>1. worker' = worker /\ Jobs' = Jobs
    BY DEF Intakes, In!Ingest, In!IngestNew, In!IngestDuplicate, In!IngestInvalid,
        In!Publish, In!ApiCrash, Jobs
<1>2. status' = status => Rows' = Rows
    BY DEF Rows
<1>3. Rows[e] = "ABSENT" <=> status[e] = "ABSENT"
    BY ReducedStatuses
<1>4. CASE In!IngestNew(e)
    <2>1. Rows' = [Rows EXCEPT ![e] = "QUEUED"]
        BY <1>4, ReducedRow DEF In!IngestNew, In!Statuses
    <2> QED
        BY <1>1, <1>3, <1>4, <2>1
        DEF In!IngestNew, Stage!IngestNew, Stage!Ingest, In!Inserted, Stage!Inserted,
            In!CanMove, Stage!CanMove, In!AllowedTransitions, Stage!AllowedTransitions,
            Rows, Jobs, Reads
<1>5. CASE In!IngestDuplicate(e)
    BY <1>1, <1>2, <1>3, <1>5
    DEF In!IngestDuplicate, Stage!IngestDuplicate, Stage!Ingest, In!ledger, Stage!ledger,
        Rows, Jobs, Reads
<1>6. CASE In!IngestInvalid(e)
    <2>1. status[e] = "ABSENT" => Rows' = [Rows EXCEPT ![e] = "REJECTED"]
        BY <1>6, ReducedRow DEF In!IngestInvalid, In!Statuses
    <2> QED
        BY <1>1, <1>2, <1>3, <1>6, <2>1
        DEF In!IngestInvalid, Stage!IngestInvalid, Stage!Ingest, In!Garbage, Stage!Garbage,
            In!Blank, Stage!Blank, In!CanMove, Stage!CanMove, In!AllowedTransitions,
            Stage!AllowedTransitions, Rows, Jobs, Reads
<1>7. CASE In!Publish(e)
    BY <1>1, <1>2, <1>7
    DEF In!Publish, Stage!Publish, Stage!Ingest, In!Send, Stage!Send, In!ledger, Stage!ledger,
        Rows, Jobs, Reads
<1>8. CASE In!ApiCrash(e)
    BY <1>1, <1>2, <1>8
    DEF In!ApiCrash, Stage!ApiCrash, Stage!Ingest, In!Send, Stage!Send, In!ledger,
        Stage!ledger, Rows, Jobs, Reads
<1> QED BY <1>4, <1>5, <1>6, <1>7, <1>8 DEF Intakes, In!Ingest

LEMMA ProcessAsStage ==
    ASSUME Grounded, NEW w \in Workers, Intakes(In!Process(w))
    PROVE  Stage!Process(w)
<1>1. PICK e \in Event : e = worker[w].message.event
    BY DEF Intakes, In!Process, Grounded, HandsGrounded, JobGrounded
<1> DEFINE v == In!Verdict(worker[w], lead[e])
<1>2. /\ worker[w].step = "read" /\ worker[w].status = "QUEUED"
      /\ In!CanMove("QUEUED", v)
      /\ status' = [status EXCEPT ![e] = v]
      /\ hashed' = IF v = "PROCESSED"
                   THEN [hashed EXCEPT ![e] = In!Digests(worker[w])] ELSE hashed
      /\ worker' = [worker EXCEPT ![w] = [step |-> "ack", message |-> worker[w].message]]
      /\ UNCHANGED <<lead, letters, replayed, outbox, queue, lost, told, stuck, operator, Reads>>
    BY <1>1 DEF Intakes, In!Process, Reads
<1>3. /\ Jobs[w].step = "read" /\ Jobs[w].status = "QUEUED"
      /\ Jobs[w].message = worker[w].message /\ Jobs[w].hashed = worker[w].hashed
    BY <1>2, ReducedFields, ReducedStatuses
<1>4. Stage!Verdict(Jobs[w], lead[e]) = v
    BY <1>3 DEF In!Verdict, Stage!Verdict, In!Permitted, Stage!Permitted, In!Decision,
        Stage!Decision, In!Blocks, Stage!Blocks, In!Reuses, Stage!Reuses, In!Rejects,
        Stage!Rejects
<1>5. Stage!Digests(Jobs[w]) = In!Digests(worker[w])
    BY <1>3 DEF In!Digests, Stage!Digests, In!Reuses, Stage!Reuses
<1>6. Rows' = [Rows EXCEPT ![e] = v]
    <2>1. v \in In!Statuses /\ v # "FAILED_RETRYABLE"
        BY DEF In!Verdict, In!Statuses
    <2> HIDE DEF v
    <2> QED BY <1>2, <2>1, ReducedRow
<1>7. Jobs' = [Jobs EXCEPT ![w] = [step |-> "ack", message |-> Jobs[w].message]]
    BY <1>2, <1>3, ReducedStep DEF ReducedJob
<1>8. Stage!CanMove(Jobs[w].status, v)
    BY <1>2, <1>3 DEF In!CanMove, Stage!CanMove, In!AllowedTransitions,
        Stage!AllowedTransitions
<1>9. UNCHANGED <<[x \in Event |-> Len(letters[x])], [x \in Event |-> OpenLetters(x)]>>
    BY <1>2 DEF OpenLetters
<1> HIDE DEF v
<1> QED
    BY <1>1, <1>2, <1>3, <1>4, <1>5, <1>6, <1>7, <1>8, <1>9
    DEF Stage!Process, Rows, Jobs, Reads

LEMMA RowsKept ==
    ASSUME UNCHANGED <<status, letters, replayed>>
    PROVE  UNCHANGED <<Rows, [e \in Event |-> Len(letters[e])],
                       [e \in Event |-> OpenLetters(e)]>>
BY DEF Rows, OpenLetters

LEMMA ReceiveAsStage ==
    ASSUME Grounded, NEW w \in Workers, NEW m \in queue, Intakes(In!Receive(w, m))
    PROVE  Stage!Receive(w, m)
<1> DEFINE job == [step |-> "read", message |-> m, status |-> status[m.event],
                   hashed |-> hashed[m.event]]
<1>1. /\ worker[w].step = "idle" /\ worker' = [worker EXCEPT ![w] = job]
      /\ UNCHANGED <<status, lead, hashed, letters, replayed, outbox, queue, lost, told,
                     stuck, operator, Reads>>
    BY DEF Intakes, In!Receive, In!Idle, In!ledger, Reads
<1>2. m.event \in Event
    BY DEF Grounded, HandsGrounded
<1>3. ReducedJob(job) = [step |-> "read", message |-> m, status |-> Rows[m.event],
                         hashed |-> hashed[m.event]]
    BY <1>2 DEF ReducedJob, Rows
<1> HIDE DEF job
<1>4. Jobs' = [Jobs EXCEPT ![w] = [step |-> "read", message |-> m,
                    status |-> Rows[m.event], hashed |-> hashed[m.event]]]
    BY <1>1, <1>3, ReducedStep
<1>5. Jobs[w].step = "idle"
    BY <1>1, ReducedFields
<1> QED
    BY <1>1, <1>4, <1>5, RowsKept
    DEF Stage!Receive, Stage!Idle, Stage!ledger, Rows, Jobs, Reads

LEMMA RestAsStage ==
    ASSUME Grounded, NEW w \in Workers, Intakes(In!Skip(w) \/ In!Ack(w) \/ In!Redeliver(w))
    PROVE  Stage!Work(w)
<1>1. UNCHANGED <<status, lead, hashed, letters, replayed, outbox, lost, told, stuck, operator,
                  Reads>>
    BY DEF Intakes, In!Skip, In!Ack, In!Redeliver, In!ledger, Reads
<1>2. Jobs[w].step = worker[w].step
    BY ReducedFields
<1>3. CASE In!Skip(w)
    <2>1. /\ Jobs[w].step = "read" /\ Jobs[w].status # "QUEUED"
          /\ Jobs[w].message = worker[w].message
        BY <1>3, ReducedFields DEF In!Skip, Reduced
    <2>2. Jobs' = [Jobs EXCEPT ![w] = [step |-> "ack", message |-> Jobs[w].message]]
        BY <1>3, <2>1, ReducedStep DEF In!Skip, ReducedJob
    <2>3. queue' = queue
        BY <1>3 DEF In!Skip
    <2>4. Stage!Skip(w)
        BY <1>1, <2>1, <2>2, <2>3, RowsKept DEF Stage!Skip, Stage!ledger, Rows, Jobs, Reads
    <2> QED BY <2>4 DEF Stage!Work
<1>4. ASSUME worker' = [worker EXCEPT ![w] = In!Resting]
      PROVE  Jobs' = [Jobs EXCEPT ![w] = Stage!Resting]
    <2>1. ReducedJob(In!Resting) = Stage!Resting
        BY DEF ReducedJob, In!Resting, Stage!Resting
    <2> QED BY <1>4, <2>1, ReducedStep
<1>5. CASE In!Ack(w)
    <2>1. /\ worker[w].step = "ack" /\ Jobs[w] = worker[w]
          /\ queue' = queue \ {Jobs[w].message}
        BY <1>5, ReducedFields DEF In!Ack
    <2>2. Stage!Ack(w)
        BY <1>1, <1>4, <1>5, <2>1, RowsKept DEF In!Ack, Stage!Ack, Stage!ledger, Rows, Jobs, Reads
    <2> QED BY <2>2 DEF Stage!Work
<1>6. CASE In!Redeliver(w)
    <2>1. Stage!Redeliver(w)
        BY <1>1, <1>2, <1>4, <1>6, RowsKept
        DEF In!Redeliver, Stage!Redeliver, In!Idle, Stage!Idle, Stage!ledger, Rows, Jobs, Reads
    <2> QED BY <2>1 DEF Stage!Work
<1> QED BY <1>3, <1>5, <1>6 DEF Intakes

LEMMA ReconcileAsStage ==
    ASSUME Intakes(In!Reconcile)
    PROVE  Stage!Reconcile
<1>1. UNCHANGED <<status, lead, hashed, letters, replayed, outbox, lost, told, worker, operator,
                  Reads>>
    BY DEF Intakes, In!Reconcile, In!ReconcileRead, In!ReconcilePublish, In!ReconcileAbort,
        In!ledger, Reads
<1>2. Jobs' = Jobs
    BY <1>1 DEF Jobs
<1>3. ASSUME NEW e \in Event, In!ReconcileRead(e) PROVE Stage!ReconcileRead(e)
    BY <1>1, <1>2, <1>3, RowsKept, ReducedStatuses
    DEF In!ReconcileRead, Stage!ReconcileRead, In!Recoverable, Stage!Recoverable,
        Stage!ledger, Rows, Jobs, Reads
<1>4. ASSUME NEW e \in Event, In!ReconcilePublish(e) PROVE Stage!ReconcilePublish(e)
    BY <1>1, <1>2, <1>4, RowsKept
    DEF In!ReconcilePublish, Stage!ReconcilePublish, In!EmptyMessage, Stage!EmptyMessage,
        Stage!ledger, Rows, Jobs, Reads
<1>5. ASSUME In!ReconcileAbort PROVE Stage!ReconcileAbort
    BY <1>1, <1>2, <1>5, RowsKept
    DEF In!ReconcileAbort, Stage!ReconcileAbort, Stage!ledger, Rows, Jobs, Reads
<1> QED BY <1>3, <1>4, <1>5 DEF Intakes, In!Reconcile, Stage!Reconcile

LEMMA ReplayStartAsStage ==
    ASSUME NEW o \in Operators,
           Intakes(In!ReplayRead(o) \/ In!ReplayPublish(o) \/ In!ReplayAbort(o))
    PROVE  Stage!Replay(o)
<1>1. UNCHANGED <<status, lead, hashed, letters, replayed, outbox, lost, told, stuck, worker,
                  Reads>>
    BY DEF Intakes, In!ReplayRead, In!ReplayPublish, In!ReplayAbort, In!ledger, Reads
<1>2. Jobs' = Jobs
    BY <1>1 DEF Jobs
<1>3. CASE In!ReplayRead(o)
    <2>1. Stage!ReplayRead(o)
        BY <1>1, <1>2, <1>3, RowsKept, ReducedStatuses
        DEF In!ReplayRead, Stage!ReplayRead, In!Idle, Stage!Idle, Stage!ledger, Rows, Jobs, Reads
    <2> QED BY <2>1 DEF Stage!Replay
<1>4. CASE In!ReplayPublish(o)
    <2>1. Stage!ReplayPublish(o)
        BY <1>1, <1>2, <1>4, RowsKept
        DEF In!ReplayPublish, Stage!ReplayPublish, In!EmptyMessage, Stage!EmptyMessage,
            Stage!ledger, Rows, Jobs, Reads
    <2> QED BY <2>1 DEF Stage!Replay
<1>5. CASE In!ReplayAbort(o)
    <2>1. Stage!ReplayAbort(o)
        BY <1>1, <1>2, <1>5, RowsKept
        DEF In!ReplayAbort, Stage!ReplayAbort, In!Idle, Stage!Idle, In!Resting,
            Stage!Resting, Stage!ledger, Rows, Jobs, Reads
    <2> QED BY <2>1 DEF Stage!Replay
<1> QED BY <1>3, <1>4, <1>5 DEF Intakes

LEMMA ReplayCommitAsStage ==
    ASSUME Grounded, NEW o \in Operators, ReplayCommit(o)
    PROVE  Stage!Replay(o)
<1>1. PICK e \in Event : e = operator[o].event
    BY DEF ReplayCommit, In!ReplayCommit, Grounded, HandsGrounded, ReplayGrounded
<1>2. /\ operator[o].step = "published"
      /\ status' = [status EXCEPT ![e] = "QUEUED"]
      /\ replayed' = [replayed EXCEPT ![e] = @ \cup {operator[o].row}]
      /\ operator' = [operator EXCEPT ![o] = In!Resting]
      /\ UNCHANGED <<letters, lead, hashed, worker, upload, outbox, queue, lost, told, stuck>>
    BY <1>1 DEF ReplayCommit, In!ReplayCommit
<1>3. Rows' = [Rows EXCEPT ![e] = "QUEUED"]
    BY <1>2, ReducedRow DEF In!Statuses
<1>4. [x \in Event |-> OpenLetters(x)]' =
        [[x \in Event |-> OpenLetters(x)] EXCEPT ![e] = @ \ {operator[o].row}]
    <2>1. DOMAIN replayed = Event
        BY DEF Grounded, LettersGrounded
    <2>2. \A x \in Event : replayed'[x] =
            IF x = e THEN replayed[x] \cup {operator[o].row} ELSE replayed[x]
        BY <1>2, <2>1
    <2>3. \A x \in Event : OpenLetters(x)' =
            IF x = e THEN OpenLetters(x) \ {operator[o].row} ELSE OpenLetters(x)
        BY <1>2, <2>2 DEF OpenLetters
    <2> QED BY <2>3
<1>5. Jobs' = Jobs /\ UNCHANGED [x \in Event |-> Len(letters[x])] /\ Reads' = Reads
    BY <1>2, ReadsKept DEF Jobs, upload
<1>6. Stage!ReplayCommit(o)
    BY <1>1, <1>2, <1>3, <1>4, <1>5
    DEF Stage!ReplayCommit, Stage!CanMove, Stage!AllowedTransitions, In!Resting,
        Stage!Resting, Rows, Jobs, Reads, Reads
<1> QED BY <1>6 DEF Stage!Replay

LEMMA IntakeStepAsStage ==
    ASSUME Grounded, IntakeStep
    PROVE  Stage!Next
<1>1. ASSUME NEW w \in Workers, Intakes(In!Work(w)) PROVE Stage!Work(w)
    <2>1. ASSUME NEW m \in queue, In!Receive(w, m) PROVE Stage!Work(w)
        BY <1>1, <2>1, ReceiveAsStage DEF Intakes, Stage!Work
    <2>2. CASE In!Process(w)
        BY <1>1, <2>2, ProcessAsStage DEF Intakes, Stage!Work
    <2>3. CASE In!Skip(w) \/ In!Ack(w) \/ In!Redeliver(w)
        BY <1>1, <2>3, RestAsStage DEF Intakes
    <2> QED BY <1>1, <2>1, <2>2, <2>3 DEF Intakes, In!Work
<1> QED
    BY <1>1, IngestAsStage, ReconcileAsStage, ReplayStartAsStage, ReplayCommitAsStage
    DEF IntakeStep, Stage!Next

-----------------------------------------------------------------------------
(* Steps of the upload stage are steps of module Intake                    *)

(* A set of numbers has a first: the first position of a row is where its  *)
(* transition starts from the status that was read.                        *)
LEMMA FirstPosition ==
    ASSUME NEW P \in SUBSET Nat, P # {}
    PROVE  \E i \in P : \A j \in P : ~(j < i)
<1>1. PICK i \in P : \A j \in P : <<j, i>> \notin OpToRel(<, Nat)
    BY WFMin, NatLessThanWellFounded
<1> QED BY <1>1 DEF OpToRel

(* Rows a transaction read as UPLOADING are rows of its batch.             *)
LEMMA LoadedFacts ==
    ASSUME Grounded, NEW u \in Uploaders
    PROVE  /\ Loaded(u) \subseteq Up!RowsOf(u) \cap Event
           /\ ~Up!InTransaction(u) => Loaded(u) = {}
           /\ pc[u] \notin {"retry", "apply", "dead"} => Loaded(u) = {}
<1>1. ~(Reduced(Up!Unread.status) = "UPLOADING")
    BY DEF Reduced, Up!Unread
<1>2. ASSUME ~Up!InTransaction(u) PROVE Loaded(u) = {}
    <2>1. \A e \in Event : seen[u][e] = Up!Unread
        BY <1>2 DEF Up!InTransaction, Up!NothingRead
    <2> QED BY <1>1, <2>1 DEF Loaded
<1>3. BatchGrounded(u)
    BY DEF Grounded, BatchesGrounded
<1>4. ASSUME Up!InTransaction(u) PROVE Loaded(u) \subseteq Up!RowsOf(u)
    <2>1. \A e \in Event : e \notin Up!RowsOf(u) => seen[u][e] = Up!Unread
        BY <1>3, <1>4 DEF BatchGrounded
    <2> QED BY <1>1, <2>1 DEF Loaded
<1>5. Loaded(u) \subseteq Event
    BY DEF Loaded
<1>6. Up!InTransaction(u) => pc[u] \in {"retry", "apply", "dead"}
    BY <1>3 DEF BatchGrounded
<1> QED BY <1>2, <1>4, <1>5, <1>6

LEMMA ReadsEnd ==
    ASSUME Grounded, NEW u \in Uploaders, seen' = [seen EXCEPT ![u] = Up!NothingRead]
    PROVE  Reads' = [Reads EXCEPT ![u] = {}]
<1>1. /\ seen'[u] = Up!NothingRead
      /\ \A v \in Uploaders : v # u => seen'[v] = seen[v]
    BY DEF Grounded, BatchesGrounded
<1>2. ~(Reduced(Up!Unread.status) = "UPLOADING")
    BY DEF Reduced, Up!Unread
<1>3. \A v \in Uploaders : Loaded(v)' = {e \in Event : Reduced(seen'[v][e].status) = "UPLOADING"}
    BY DEF Loaded
<1>4. Loaded(u)' = {}
    <2>1. \A e \in Event : seen'[u][e] = Up!Unread
        BY <1>1 DEF Up!NothingRead
    <2> QED BY <1>2, <1>3, <2>1
<1>5. \A v \in Uploaders : v # u => Loaded(v)' = Loaded(v)
    BY <1>1, <1>3 DEF Loaded
<1> QED BY <1>4, <1>5 DEF Reads

(* What one transaction writes.                                            *)
Finals == {"UPLOADED", "UPLOADING", "DEAD_LETTERED"}

LEMMA WritesAsStage ==
    ASSUME Grounded, NEW S \in SUBSET Event, NEW moves \in [S -> Finals],
           UNCHANGED <<replayed, intake>>,
           \A e \in Event :
                Reduced(status'[e]) = IF e \in S THEN moves[e] ELSE Reduced(status[e]),
           \A e \in Event :
                IF e \in S /\ moves[e] = "DEAD_LETTERED"
                THEN \E x \in Classes : letters'[e] = Append(letters[e], x)
                ELSE letters'[e] = letters[e]
    PROVE  Stage!Writes(moves)
<1> DEFINE dead == {e \in DOMAIN moves : moves[e] = "DEAD_LETTERED"}
           sizes == [e \in Event |-> Len(letters[e])]
           open == [e \in Event |-> OpenLetters(e)]
<1>1. DOMAIN moves = S /\ \A e \in S : moves[e] \in Finals
    OBVIOUS
<1>2. Rows' = [e \in Event |-> IF e \in DOMAIN moves THEN moves[e] ELSE Rows[e]]
    BY <1>1 DEF Rows
<1>3. ASSUME NEW e \in Event
      PROVE  /\ Len(letters'[e]) = IF e \in dead THEN Len(letters[e]) + 1 ELSE Len(letters[e])
             /\ OpenLetters(e)' = IF e \in dead THEN OpenLetters(e) \cup {Len(letters[e]) + 1}
                                  ELSE OpenLetters(e)
    <2>1. letters[e] \in Seq(Classes) /\ replayed[e] \subseteq DOMAIN letters[e]
        BY DEF Grounded, LettersGrounded
    <2>2. CASE e \in dead
        <3>1. PICK x \in Classes : letters'[e] = Append(letters[e], x)
            BY <1>1, <2>2
        <3>2. /\ Len(letters[e]) \in Nat /\ Len(letters'[e]) = Len(letters[e]) + 1
              /\ DOMAIN letters[e] = 1..Len(letters[e])
              /\ DOMAIN letters'[e] = 1..(Len(letters[e]) + 1)
            BY <2>1, <3>1, AppendProperties, LenProperties
        <3>3. DOMAIN letters'[e] = DOMAIN letters[e] \cup {Len(letters[e]) + 1}
            BY <3>2
        <3>4. Len(letters[e]) + 1 \notin replayed[e] /\ replayed' = replayed
            BY <2>1, <3>2
        <3> QED BY <2>2, <3>2, <3>3, <3>4 DEF OpenLetters
    <2>3. CASE e \notin dead
        <3>1. letters'[e] = letters[e]
            BY <1>1, <2>3
        <3> QED BY <2>3, <3>1 DEF OpenLetters
    <2> QED BY <2>2, <2>3
<1> HIDE DEF dead
<1>4. /\ sizes' = [e \in Event |-> IF e \in dead THEN sizes[e] + 1 ELSE sizes[e]]
      /\ open' = [e \in Event |-> IF e \in dead THEN open[e] \cup {sizes[e] + 1} ELSE open[e]]
    BY <1>3
<1>5. Stage!DeadLettered(dead)
    BY <1>4 DEF Stage!DeadLettered
<1>6. UNCHANGED <<lead, hashed, outbox, queue, lost, told, stuck, operator, Jobs>>
    BY DEF intake, Jobs
<1> QED BY <1>2, <1>5, <1>6 DEF Stage!Writes, Rows, Jobs, dead

LEMMA ClaimAsStage ==
    ASSUME Grounded, NEW u \in Uploaders, Uploads(Up!Claim(u))
    PROVE  Stage!Claim(u)
<1>1. PICK S \in SUBSET Event : Up!ClaimRows(u, S)
    BY DEF Uploads, Up!Claim
<1> DEFINE poison == {e \in S : Up!OverCeiling(Up!Attempted(attempt_count[e]))}
           moves == [e \in S |-> IF e \in poison THEN "DEAD_LETTERED" ELSE "UPLOADING"]
<1>2. /\ pc[u] = "idle" /\ S # {} /\ seen' = seen
      /\ \A e \in S : status[e] \in {"PROCESSED", "UPLOADING", "FAILED_RETRYABLE"}
      /\ UNCHANGED <<replayed, intake>>
    BY <1>1 DEF Up!ClaimRows, Up!Ready, Up!Stale, Uploads
<1>3. \A e \in Event :
        /\ status'[e] = IF e \in poison THEN "DEAD_LETTERED"
                        ELSE IF e \in S THEN "UPLOADING" ELSE status[e]
        /\ letters'[e] = IF e \in poison THEN Append(letters[e], "poison") ELSE letters[e]
    BY <1>1 DEF Up!ClaimRows
<1>4. poison \subseteq S /\ Reads[u] = {} /\ Reads' = Reads
    BY <1>2, LoadedFacts, ReadsKept DEF Reads
<1>5. \A e \in S : Stage!Claimable(e)
    BY <1>2 DEF Stage!Claimable, Reduced
<1> HIDE DEF poison
<1>6. PICK m \in [S -> {"UPLOADING", "DEAD_LETTERED"}] : m = moves
    OBVIOUS
<1>7. Stage!Writes(m)
    <2>1. m \in [S -> Finals]
        BY DEF Finals
    <2>2. \A e \in Event :
            Reduced(status'[e]) = IF e \in S THEN m[e] ELSE Reduced(status[e])
        BY <1>3, <1>4, <1>6 DEF Reduced
    <2>3. \A e \in Event :
            IF e \in S /\ m[e] = "DEAD_LETTERED"
            THEN \E x \in Classes : letters'[e] = Append(letters[e], x)
            ELSE letters'[e] = letters[e]
        BY <1>3, <1>4, <1>6, ClassesKnown
    <2> QED BY <1>2, <2>1, <2>2, <2>3, WritesAsStage
<1> HIDE DEF moves
<1> QED BY <1>2, <1>4, <1>5, <1>7, Zenon DEF Stage!Claim, Reads

LEMMA LoadAsStage ==
    ASSUME Grounded, NEW u \in Uploaders, Uploads(Up!Load(u))
    PROVE  Stage!Load(u)
<1> DEFINE S == {e \in Event : e \in Up!RowsOf(u) /\ Reduced(status[e]) = "UPLOADING"}
<1>1. /\ ~Up!InTransaction(u)
      /\ seen' = [seen EXCEPT ![u] = [e \in Event |->
            IF e \in Up!RowsOf(u)
            THEN [status |-> status[e], attempts |-> attempt_count[e]] ELSE Up!Unread]]
      /\ UNCHANGED <<status, letters, replayed, intake>>
    BY DEF Uploads, Up!Load, Up!ledger
<1>2. /\ \A e \in Event : seen'[u][e] =
            IF e \in Up!RowsOf(u)
            THEN [status |-> status[e], attempts |-> attempt_count[e]] ELSE Up!Unread
      /\ \A v \in Uploaders : v # u => seen'[v] = seen[v]
    BY <1>1 DEF Grounded, BatchesGrounded
<1>3. Loaded(u)' = S /\ \A v \in Uploaders : v # u => Loaded(v)' = Loaded(v)
    <2>1. ~(Reduced(Up!Unread.status) = "UPLOADING")
        BY DEF Reduced, Up!Unread
    <2>2. \A v \in Uploaders :
            Loaded(v)' = {e \in Event : Reduced(seen'[v][e].status) = "UPLOADING"}
        BY DEF Loaded
    <2>3. \A e \in Event : Reduced(seen'[u][e].status) = "UPLOADING" <=>
            e \in Up!RowsOf(u) /\ Reduced(status[e]) = "UPLOADING"
        <3> TAKE e \in Event
        <3>1. CASE e \in Up!RowsOf(u)
            <4>1. seen'[u][e] = [status |-> status[e], attempts |-> attempt_count[e]]
                BY <1>2, <3>1
            <4>2. seen'[u][e].status = status[e]
                BY <4>1
            <4> QED BY <3>1, <4>2
        <3>2. CASE e \notin Up!RowsOf(u)
            <4>1. seen'[u][e] = Up!Unread
                BY <1>2, <3>2
            <4> QED BY <2>1, <3>2, <4>1
        <3> QED BY <3>1, <3>2
    <2>4. Loaded(u)' = S
        BY <2>2, <2>3
    <2>5. \A v \in Uploaders : v # u => Loaded(v)' = Loaded(v)
        BY <1>2, <2>2 DEF Loaded
    <2> QED BY <2>4, <2>5
<1>4. Reads' = [Reads EXCEPT ![u] = S] /\ Reads[u] = {}
    BY <1>1, <1>3, LoadedFacts DEF Reads
<1>5. S \in SUBSET {e \in Event : Rows[e] = "UPLOADING"}
    BY DEF Rows
<1> HIDE DEF S
<1>6. UNCHANGED <<Rows, lead, hashed, [e \in Event |-> Len(letters[e])],
                  [e \in Event |-> OpenLetters(e)],
                  outbox, queue, lost, told, stuck, Jobs, operator>>
    BY <1>1, RowsKept DEF intake, Jobs
<1> QED BY <1>4, <1>5, <1>6 DEF Stage!Load, Stage!ledger, Rows, Jobs, Reads

(* A transaction that ends without an outcome.                             *)
LEMMA EndsAsStage ==
    ASSUME Grounded, NEW u \in Uploaders, seen' = [seen EXCEPT ![u] = Up!NothingRead],
           UNCHANGED <<status, letters, replayed, intake>>
    PROVE  Stage!Drop(u) \/ UNCHANGED Stage!vars
<1>1. Reads' = [Reads EXCEPT ![u] = {}]
    BY ReadsEnd
<1>2. UNCHANGED <<Rows, lead, hashed, [e \in Event |-> Len(letters[e])],
                  [e \in Event |-> OpenLetters(e)],
                  outbox, queue, lost, told, stuck, Jobs, operator>>
    BY RowsKept DEF intake, Jobs
<1>3. CASE Reads[u] # {}
    BY <1>1, <1>2, <1>3 DEF Stage!Drop, Stage!ledger, Rows, Jobs, Reads
<1>4. CASE Reads[u] = {}
    <2>1. Reads' = Reads
        BY <1>1, <1>4 DEF Reads
    <2> QED BY <1>2, <2>1 DEF Stage!vars, Stage!ledger, Rows, Jobs, Reads
<1> QED BY <1>3, <1>4

(* One that ends with an outcome for every row of its batch: each was read *)
(* as UPLOADING, or transition would have refused it.                      *)
LEMMA OutcomeAsStage ==
    ASSUME Grounded, NEW u \in Uploaders, seen' = [seen EXCEPT ![u] = Up!NothingRead],
           UNCHANGED <<replayed, intake>>,
           Loaded(u) = Up!RowsOf(u), DOMAIN status' = Event, DOMAIN letters' = Event,
           \A e \in Event :
                IF e \in Up!RowsOf(u)
                THEN /\ Reduced(status'[e]) \in Finals
                     /\ IF status'[e] = "DEAD_LETTERED"
                        THEN \E x \in Classes : letters'[e] = Append(letters[e], x)
                        ELSE letters'[e] = letters[e]
                ELSE status'[e] = status[e] /\ letters'[e] = letters[e]
    PROVE  Stage!Settle(u) \/ UNCHANGED Stage!vars
<1>1. Reads' = [Reads EXCEPT ![u] = {}] /\ Reads[u] = Up!RowsOf(u)
    BY ReadsEnd DEF Reads
<1>2. Up!RowsOf(u) \in SUBSET Event
    BY LoadedFacts
<1>3. CASE Up!RowsOf(u) # {}
    <2> DEFINE moves == [e \in Up!RowsOf(u) |-> Reduced(status'[e])]
    <2>1. moves \in [Up!RowsOf(u) -> Finals]
        BY <1>2
    <2>2. PICK S \in SUBSET Event, m \in [Up!RowsOf(u) -> Finals] :
            S = Up!RowsOf(u) /\ m = moves
        BY <1>2, <2>1
    <2> HIDE DEF moves
    <2>3. m \in [S -> Finals] /\ \A e \in S : m[e] = Reduced(status'[e])
        BY <2>1, <2>2 DEF moves
    <2>4. \A e \in Event :
            Reduced(status'[e]) = IF e \in S THEN m[e] ELSE Reduced(status[e])
        BY <2>2, <2>3
    <2>5. \A e \in S : m[e] = "DEAD_LETTERED" <=> status'[e] = "DEAD_LETTERED"
        BY <2>3 DEF Reduced
    <2>6. \A e \in Event :
            IF e \in S /\ m[e] = "DEAD_LETTERED"
            THEN \E x \in Classes : letters'[e] = Append(letters[e], x)
            ELSE letters'[e] = letters[e]
        BY <2>2, <2>5
    <2>7. Stage!Writes(m)
        BY <2>3, <2>4, <2>6, WritesAsStage
    <2> QED BY <1>1, <1>3, <2>2, <2>3, <2>7 DEF Stage!Settle, Reads, Finals
<1>4. CASE Up!RowsOf(u) = {}
    <2>1. \A e \in Event : status'[e] = status[e] /\ letters'[e] = letters[e]
        BY <1>4
    <2>2. DOMAIN status = Event /\ DOMAIN letters = Event
        BY DEF Grounded, Inv, Shape, LettersGrounded
    <2>3. Rows' = Rows /\ Reads' = Reads
        BY <1>1, <1>4, <2>1 DEF Rows, Reads
    <2>4. \A e \in Event : Len(letters'[e]) = Len(letters[e]) /\ OpenLetters(e)' = OpenLetters(e)
        BY <2>1 DEF OpenLetters
    <2>5. UNCHANGED <<lead, hashed, [e \in Event |-> Len(letters[e])],
                      [e \in Event |-> OpenLetters(e)],
                      outbox, queue, lost, told, stuck, Jobs, operator>>
        BY <2>4 DEF intake, Jobs
    <2> QED BY <2>3, <2>5 DEF Stage!vars, Stage!ledger, Rows, Jobs, Reads
<1> QED BY <1>3, <1>4

(* apply_result checks every position; the first of a row starts from what *)
(* was read.                                                               *)
LEMMA AppliedWereLoaded ==
    ASSUME Grounded, NEW u \in Uploaders, pc[u] = "apply", Up!ApplyAllowed(u)
    PROVE  Loaded(u) = Up!RowsOf(u)
<1>1. DOMAIN batch[u] \in SUBSET Nat /\ Up!RowsOf(u) \subseteq Event
    BY DEF Grounded, Inv, ClearedStayFit, Sent, Shape
<1>2. ASSUME NEW e \in Up!RowsOf(u) PROVE Reduced(seen[u][e].status) = "UPLOADING"
    <2> DEFINE P == Up!Positions(u, e)
    <2>1. P \in SUBSET Nat /\ P # {}
        BY <1>1 DEF Up!Positions, Up!RowsOf
    <2> HIDE DEF P
    <2>2. PICK i \in P : \A j \in P : ~(j < i)
        BY <2>1, FirstPosition
    <2>3. i \in DOMAIN batch[u] /\ batch[u][i] = e
        BY <2>2 DEF P, Up!Positions
    <2>4. {j \in Up!Positions(u, batch[u][i]) : j < i} = {}
        BY <2>2, <2>3 DEF P
    <2>5. Up!StatusBefore(u, i) = seen[u][e].status
        BY <2>3, <2>4 DEF Up!StatusBefore
    <2>6. Up!CanMove(seen[u][e].status, Up!Outcome[Up!ResultAt(u, i)])
        BY <2>3, <2>5 DEF Up!ApplyAllowed
    <2>7. result[u][i] \in Up!RowResults
        BY <2>3 DEF Grounded, BatchesGrounded, BatchGrounded
    <2>8. Up!Outcome[Up!ResultAt(u, i)] \in {"UPLOADED", "FAILED_RETRYABLE", "DEAD_LETTERED"}
        BY <2>7 DEF Up!Outcome, Up!ResultAt, Up!RowResults
    <2> QED BY <2>6, <2>8 DEF Up!CanMove, Up!AllowedTransitions, Reduced
<1> QED BY <1>1, <1>2, LoadedFacts DEF Loaded

LEMMA CommitApplyAsStage ==
    ASSUME Grounded, NEW u \in Uploaders, Uploads(Up!CommitApply(u))
    PROVE  Stage!Settle(u) \/ UNCHANGED Stage!vars
<1>1. PICK last \in Up!LastPositions(u) :
        /\ status' = [e \in Event |->
                IF e \in Up!RowsOf(u) THEN Up!Outcome[Up!ResultAt(u, last[e])]
                ELSE status[e]]
        /\ letters' = [e \in Event |->
                IF e \in Up!RowsOf(u) /\ Up!ResultAt(u, last[e]) = "rejected"
                THEN Append(letters[e], "partial") ELSE letters[e]]
    BY DEF Uploads, Up!CommitApply
<1>2. /\ pc[u] = "apply" /\ Up!ApplyAllowed(u)
      /\ seen' = [seen EXCEPT ![u] = Up!NothingRead] /\ UNCHANGED <<replayed, intake>>
    BY DEF Uploads, Up!CommitApply, Up!Finish
<1>3. Loaded(u) = Up!RowsOf(u)
    BY <1>2, AppliedWereLoaded
<1>4. ASSUME NEW e \in Event
      PROVE  IF e \in Up!RowsOf(u)
             THEN /\ Reduced(status'[e]) \in Finals
                  /\ IF status'[e] = "DEAD_LETTERED"
                     THEN \E x \in Classes : letters'[e] = Append(letters[e], x)
                     ELSE letters'[e] = letters[e]
             ELSE status'[e] = status[e] /\ letters'[e] = letters[e]
    <2>1. CASE e \in Up!RowsOf(u)
        <3>1. last[e] \in DOMAIN batch[u]
            BY <1>1, <2>1 DEF Up!LastPositions
        <3>2. Up!ResultAt(u, last[e]) \in {"ok", "retryable", "rejected"}
            BY <1>2, <3>1 DEF Grounded, BatchesGrounded, BatchGrounded, Up!ResultAt, Up!RowResults
        <3>3. /\ status'[e] = Up!Outcome[Up!ResultAt(u, last[e])]
              /\ letters'[e] = IF Up!ResultAt(u, last[e]) = "rejected"
                               THEN Append(letters[e], "partial") ELSE letters[e]
            BY <1>1, <2>1
        <3>4. /\ status'[e] \in {"UPLOADED", "FAILED_RETRYABLE", "DEAD_LETTERED"}
              /\ status'[e] = "DEAD_LETTERED" <=> Up!ResultAt(u, last[e]) = "rejected"
            BY <3>2, <3>3 DEF Up!Outcome
        <3>5. Reduced(status'[e]) \in Finals
            BY <3>4 DEF Reduced, Finals
        <3> QED BY <2>1, <3>3, <3>4, <3>5, ClassesKnown
    <2>2. CASE e \notin Up!RowsOf(u)
        BY <1>1, <2>2
    <2> QED BY <2>1, <2>2
<1>5. DOMAIN status' = Event /\ DOMAIN letters' = Event
    BY <1>1
<1> QED BY <1>2, <1>3, <1>4, <1>5, OutcomeAsStage

LEMMA CommitDeadAsStage ==
    ASSUME Grounded, NEW u \in Uploaders, Uploads(Up!CommitDead(u))
    PROVE  Stage!Settle(u) \/ UNCHANGED Stage!vars
<1>1. /\ Up!DeadLetterAllowed(u)
      /\ status' = [e \in Event |-> IF e \in Up!RowsOf(u) THEN "DEAD_LETTERED" ELSE status[e]]
      /\ letters' = [e \in Event |->
            IF e \in Up!RowsOf(u) THEN Append(letters[e], why[u]) ELSE letters[e]]
      /\ seen' = [seen EXCEPT ![u] = Up!NothingRead] /\ UNCHANGED <<replayed, intake>>
    BY DEF Uploads, Up!CommitDead, Up!Finish
<1>2. \A e \in Up!RowsOf(u) : Reduced(seen[u][e].status) = "UPLOADING"
    BY <1>1 DEF Up!DeadLetterAllowed, Up!CanMove, Up!AllowedTransitions, Reduced
<1>3. Up!RowsOf(u) \subseteq Event
    BY DEF Grounded, Inv, ClearedStayFit, Sent
<1>4. Loaded(u) = Up!RowsOf(u)
    BY <1>2, <1>3, LoadedFacts DEF Loaded
<1>5. Reduced("DEAD_LETTERED") \in Finals
    BY DEF Reduced, Finals
<1>6. \A e \in Event :
        IF e \in Up!RowsOf(u)
        THEN /\ Reduced(status'[e]) \in Finals
             /\ IF status'[e] = "DEAD_LETTERED"
                THEN \E x \in Classes : letters'[e] = Append(letters[e], x)
                ELSE letters'[e] = letters[e]
        ELSE status'[e] = status[e] /\ letters'[e] = letters[e]
    BY <1>1, <1>5, ClassesKnown
<1>7. DOMAIN status' = Event /\ DOMAIN letters' = Event
    BY <1>1
<1> QED BY <1>1, <1>4, <1>6, <1>7, OutcomeAsStage

LEMMA CommitAsStage ==
    ASSUME Grounded, NEW u \in Uploaders, Uploads(Up!Commit(u))
    PROVE  Stage!Upload(u) \/ UNCHANGED Stage!vars
<1>1. CASE Up!CommitApply(u)
    BY <1>1, CommitApplyAsStage DEF Uploads, Stage!Upload
<1>2. CASE Up!CommitDead(u)
    BY <1>2, CommitDeadAsStage DEF Uploads, Stage!Upload
<1>3. CASE Up!CommitRetry(u) \/ Up!Illegal(u)
    <2>1. /\ seen' = [seen EXCEPT ![u] = Up!NothingRead]
          /\ UNCHANGED <<status, letters, replayed, intake>>
        BY <1>3 DEF Uploads, Up!CommitRetry, Up!Illegal, Up!Finish, Up!ledger
    <2> QED BY <2>1, EndsAsStage DEF Stage!Upload
<1> QED BY <1>1, <1>2, <1>3 DEF Uploads, Up!Commit

(* The other steps touch nothing that Intake sees.                         *)
LEMMA UnseenByStage ==
    ASSUME UNCHANGED <<status, letters, replayed, seen, intake>>
    PROVE  UNCHANGED Stage!vars
<1>1. UNCHANGED <<Rows, Jobs, Reads, lead, hashed, [e \in Event |-> Len(letters[e])],
                  [e \in Event |-> OpenLetters(e)],
                  outbox, queue, lost, told, stuck, operator>>
    BY RowsKept, ReadsKept DEF intake, Jobs
<1> QED BY <1>1 DEF Stage!vars, Stage!ledger, Rows, Jobs, Reads

LEMMA UploaderIsNext ==
    ASSUME NEW u \in Uploaders, Stage!Upload(u)
    PROVE  Stage!Next
BY Zenon DEF Stage!Next

LEMMA UploadStepAsStage ==
    ASSUME Grounded, UploadStep
    PROVE  Stage!Next \/ UNCHANGED Stage!vars
<1>1. ASSUME NEW u \in Uploaders, Uploads(Up!Claim(u)) PROVE Stage!Next
    BY <1>1, ClaimAsStage, UploaderIsNext DEF Stage!Upload
<1>2. ASSUME NEW u \in Uploaders, Uploads(Up!Progress(u))
      PROVE  Stage!Next \/ UNCHANGED Stage!vars
    <2>1. CASE Up!Commit(u)
        BY <1>2, <2>1, CommitAsStage, UploaderIsNext DEF Uploads
    <2>2. CASE Up!Load(u)
        BY <1>2, <2>2, LoadAsStage, UploaderIsNext DEF Uploads, Stage!Upload
    <2>3. CASE Up!FlushIfDue(u) \/ Up!Request(u)
        <3>1. UNCHANGED <<status, letters, seen>>
            BY <1>2, <2>3, RequestKeepsGround DEF Uploads
        <3> QED BY <1>2, <3>1, UnseenByStage DEF Uploads
    <2> QED BY <1>2, <2>1, <2>2, <2>3 DEF Uploads, Up!Progress
<1>3. ASSUME NEW u \in Uploaders, Uploads(Up!Crash(u))
      PROVE  Stage!Next \/ UNCHANGED Stage!vars
    <2>1. /\ seen' = [seen EXCEPT ![u] = Up!NothingRead]
          /\ UNCHANGED <<status, letters, replayed, intake>>
        BY <1>3 DEF Uploads, Up!Crash, Up!Finish, Up!ledger
    <2> QED BY <2>1, EndsAsStage, UploaderIsNext DEF Stage!Upload
<1>4. ASSUME NEW u \in Uploaders, Uploads(Up!Restart(u))
      PROVE  UNCHANGED Stage!vars
    BY <1>4, UnseenByStage DEF Uploads, Up!Restart, Up!ledger
<1>5. ASSUME NEW e \in Event, Uploads(Up!LateAccept(e))
      PROVE  UNCHANGED Stage!vars
    BY <1>5, UnseenByStage DEF Uploads, Up!LateAccept, Up!ledger, Up!process
<1> QED BY <1>1, <1>2, <1>3, <1>4, <1>5 DEF UploadStep, Uploads

LEMMA InitAsStage == Init => Stage!Init
<1> SUFFICES ASSUME Init PROVE Stage!Init
    OBVIOUS
<1>1. \A u \in Uploaders : Loaded(u) = {}
    BY InitGround, LoadedFacts DEF Init
<1>2. /\ Rows = [e \in Event |-> "ABSENT"] /\ Jobs = [w \in Workers |-> Stage!Resting]
      /\ Reads = [u \in Uploaders |-> {}]
    BY <1>1 DEF Init, Rows, Jobs, Reads, Reduced, ReducedJob, In!Resting, Stage!Resting
<1>3. /\ [e \in Event |-> Len(letters[e])] = [e \in Event |-> 0]
      /\ [e \in Event |-> OpenLetters(e)] = [e \in Event |-> {}]
    BY DEF Init, OpenLetters
<1> QED
    BY <1>2, <1>3
    DEF Init, Stage!Init, In!NoLead, Stage!NoLead, In!Blank, Stage!Blank,
        In!Resting, Stage!Resting, Rows, Jobs, Reads

(* For any number of workers, operators and uploaders, and whether or not  *)
(* uploaders outlive stale_after: what the gateway does to the ledger, and *)
(* to the queue, module Intake does too.  Its uploaders, which claim, read *)
(* and write rows without a word of batches, requests and retries, stand   *)
(* for the real ones (Uploader.claim, Uploader.apply_result).              *)
THEOREM GatewayImplementsIntake == Spec => ImplementsIntake
<1>1. Init => Stage!Init
    BY InitAsStage
<1>2. Grounded /\ [Next]_vars => [Stage!Next]_(Stage!vars)
    <2> SUFFICES ASSUME Grounded, [Next]_vars PROVE [Stage!Next]_(Stage!vars)
        OBVIOUS
    <2>1. CASE UNCHANGED vars
        BY <2>1, UnseenByStage DEF vars, upload
    <2> QED BY <2>1, NextIsStep, IntakeStepAsStage, UploadStepAsStage
<1> QED BY <1>1, <1>2, InitGround, NextGround, PTL DEF Spec, ImplementsIntake, Stage!Spec

-----------------------------------------------------------------------------
(* The gateway as its uploaders see it                                     *)

(* The upload stage of the gateway behaves as module Uploader does, but    *)
(* that operators replay.  So what UploaderProofs has shown of a step is   *)
(* used here of the gateway's steps, through a refinement mapping.         *)

(* What is not claimed yet, or not theirs to claim, is as good as          *)
(* PROCESSED to them: it comes to them in that status or never.            *)
Claimed == {"UPLOADING", "UPLOADED", "FAILED_RETRYABLE", "DEAD_LETTERED"}
ToUploader(s) == IF s \in Claimed THEN s ELSE "PROCESSED"

(* Of the dead letters they know the one that is open.                     *)
LastLetter(e) ==
    IF status[e] = "DEAD_LETTERED" THEN <<letters[e][Len(letters[e])]>> ELSE <<>>

Stg == INSTANCE UploaderProofs
    WITH status <- [e \in Event |-> ToUploader(status[e])],
         open_dlq <- [e \in Event |-> LastLetter(e)]

(* The intake stage sees of the dead letters how many there are and which  *)
(* are open, as module Gateway has it.                                     *)
Itk == INSTANCE IntakeProofs
    WITH dead_letters <- [e \in Event |-> Len(letters[e])],
         open_dlq <- [e \in Event |-> OpenLetters(e)],
         loaded <- [u \in Uploaders |-> Loaded(u)]

-----------------------------------------------------------------------------
(* The inductive invariant                                                 *)

(* Letters are numbered in the order they were written; only the last can  *)
(* be open.                                                                *)
LettersAgree ==
    /\ letters \in [Event -> Seq(Up!FailureClasses)]
    /\ replayed \in [Event -> SUBSET Nat]
    /\ \A e \in Event :
        /\ replayed[e] \subseteq 1..Len(letters[e])
        /\ OpenLetters(e) =
               IF status[e] = "DEAD_LETTERED" THEN {Len(letters[e])} ELSE {}

(* What the worker read of a QUEUED row, and what the operator read of a   *)
(* dead letter, is still so when it is acted upon.                         *)
JobCurrent(w) ==
    worker[w].step = "read" /\ worker[w].status = "QUEUED" =>
        LET e == worker[w].message.event IN
        status[e] = "QUEUED" /\ worker[w].hashed = hashed[e]

ReplayCurrent(o) ==
    operator[o].step # "idle" =>
        LET e == operator[o].event IN
        status[e] = "DEAD_LETTERED" /\ operator[o].row = Len(letters[e])

ReadsCurrent == (\A w \in Workers : JobCurrent(w)) /\ (\A o \in Operators : ReplayCurrent(o))

(* Digests come from a lead that has identifiers, and a row the processor  *)
(* let through has some, if only empty ones.                               *)
DigestsAgree ==
    \A e \in Event :
        /\ hashed[e] = "digests" => lead[e].ids = "good"
        /\ hashed[e] # "null" => In!Permitted(lead[e].consent)
        /\ Handled(e) => hashed[e] # "null"

Agreed ==
    /\ Grounded /\ LettersAgree /\ ReadsCurrent /\ DigestsAgree
    /\ Stg!TimelySafe /\ Stg!Unclaimed
    /\ Itk!Safe

-----------------------------------------------------------------------------
(* Steps of the upload stage are steps of module Uploader                  *)

LEMMA UploaderAssumptions ==
    /\ Stg!IsFiniteSet(Event)
    /\ BatchSize \in Nat \ {0} /\ MaxAttempts \in Nat \ {0} /\ MaxRowAttempts \in Nat \ {0}
    /\ Timely \in BOOLEAN
BY EventAssumption, BatchSizeAssumption, MaxAttemptsAssumption,
   MaxRowAttemptsAssumption, TimelyAssumption DEF IsFiniteSet, Stg!IsFiniteSet

(* What both modules say of batches and rows is the same.                  *)
LEMMA SameBatches ==
    /\ \A u \in Uploaders : Stg!RowsOf(u) = Up!RowsOf(u)
    /\ \A u \in Uploaders, e \in Event : Stg!Positions(u, e) = Up!Positions(u, e)
    /\ \A e : Stg!Held(e) <=> Up!Held(e)
    /\ \A u \in Uploaders : Stg!InTransaction(u) <=> Up!InTransaction(u)
    /\ \A n : Stg!OverCeiling(Stg!Attempted(n)) <=> Up!OverCeiling(Up!Attempted(n))
    /\ \A s, t : Stg!CanMove(s, t) <=> Up!CanMove(s, t)
BY DEF Stg!RowsOf, Up!RowsOf, Stg!Positions, Up!Positions, Stg!Held, Up!Held,
       Stg!InTransaction, Up!InTransaction, Stg!NothingRead, Up!NothingRead,
       Stg!Unread, Up!Unread, Stg!OverCeiling, Up!OverCeiling, Stg!Attempted,
       Up!Attempted, Stg!CanMove, Up!CanMove, Stg!AllowedTransitions,
       Up!AllowedTransitions

LEMMA SameOrders ==
    ASSUME NEW S
    PROVE  Stg!SetToSeqs(S) = Up!SetToSeqs(S)
BY DEF Stg!SetToSeqs, Up!SetToSeqs, Stg!Cardinality, Up!Cardinality

(* The letter just written is the last one.                                *)
LEMMA LetterWritten ==
    ASSUME LettersAgree, NEW e \in Event, NEW x \in Up!FailureClasses,
           letters'[e] = Append(letters[e], x),
           status[e] # "DEAD_LETTERED", status'[e] = "DEAD_LETTERED"
    PROVE  LastLetter(e)' = Append(LastLetter(e), x)
<1>1. letters[e] \in Seq(Up!FailureClasses)
    BY DEF LettersAgree
<1>2. /\ Len(Append(letters[e], x)) = Len(letters[e]) + 1
      /\ Append(letters[e], x)[Len(letters[e]) + 1] = x
    BY <1>1, AppendProperties
<1>3. LastLetter(e)' = <<x>>
    BY <1>2 DEF LastLetter
<1>4. LastLetter(e) = <<>> /\ Append(<<>>, x) = <<x>>
    BY DEF LastLetter
<1> QED BY <1>3, <1>4

(* The status column and the dead letters of one row over such a step.     *)
RowMoves(e) ==
    \/ status'[e] = status[e] /\ letters'[e] = letters[e]
    \/ /\ status[e] \in {"PROCESSED", "FAILED_RETRYABLE"} /\ status'[e] = "UPLOADING"
       /\ letters'[e] = letters[e]
    \/ /\ status[e] = "UPLOADING" /\ status'[e] \in {"UPLOADED", "FAILED_RETRYABLE"}
       /\ letters'[e] = letters[e]
    \/ /\ status[e] \in {"UPLOADING", "FAILED_RETRYABLE"} /\ status'[e] = "DEAD_LETTERED"
       /\ \E x \in Up!FailureClasses : letters'[e] = Append(letters[e], x)

LedgerMoves ==
    /\ letters' = [e \in Event |-> letters'[e]] /\ status' = [e \in Event |-> status'[e]]
    /\ \A e \in Event : RowMoves(e)

LEMMA ClaimAsUploader ==
    ASSUME Agreed, NEW u \in Uploaders, NEW S \in SUBSET Event,
           Uploads(Up!ClaimRows(u, S))
    PROVE  Stg!ClaimRows(u, S) /\ LedgerMoves
<1> DEFINE poison == {e \in S : Up!OverCeiling(Up!Attempted(attempt_count[e]))}
<1>1. poison = {e \in S : Stg!OverCeiling(Stg!Attempted(attempt_count[e]))}
    BY SameBatches
<1>2. \A e \in S : status[e] \in {"PROCESSED", "FAILED_RETRYABLE", "UPLOADING"}
    BY DEF Uploads, Up!ClaimRows, Up!Ready, Up!Stale
<1>3. \A e \in Event :
        /\ status'[e] = IF e \in poison THEN "DEAD_LETTERED"
                        ELSE IF e \in S THEN "UPLOADING" ELSE status[e]
        /\ letters'[e] = IF e \in poison THEN Append(letters[e], "poison") ELSE letters[e]
    BY DEF Uploads, Up!ClaimRows
<1>4. \A e \in Event : ToUploader(status'[e]) =
        IF e \in poison THEN "DEAD_LETTERED"
        ELSE IF e \in S THEN "UPLOADING" ELSE ToUploader(status[e])
    BY <1>3 DEF ToUploader, Claimed
<1>5. \A e \in Event : LastLetter(e)' =
        IF e \in poison THEN Append(LastLetter(e), "poison") ELSE LastLetter(e)
    <2> TAKE e \in Event
    <2>1. CASE e \in poison
        <3>1. "poison" \in Up!FailureClasses
            BY DEF Up!FailureClasses
        <3> QED BY <1>2, <1>3, <2>1, <3>1, LetterWritten DEF Agreed
    <2>2. CASE e \notin poison
        BY <1>2, <1>3, <2>2 DEF LastLetter
    <2> QED BY <2>1, <2>2
<1>6. \A e \in S :
        /\ ToUploader(status[e]) = status[e]
        /\ Stg!Ready(e)
        /\ Stg!Stale(e) \/ Stg!CanMove(ToUploader(status[e]), "UPLOADING")
    <2> TAKE e \in S
    <2>1. ToUploader(status[e]) = status[e]
        BY <1>2 DEF ToUploader, Claimed
    <2>2. Up!Ready(e) /\ (Up!Stale(e) \/ Up!CanMove(status[e], "UPLOADING"))
        BY DEF Uploads, Up!ClaimRows
    <2>3. Up!Stale(e) => Stg!Stale(e)
        BY <2>1, SameBatches DEF Stg!Stale, Up!Stale
    <2> QED BY <2>1, <2>2, <2>3, SameBatches DEF Stg!Ready, Up!Ready
<1>7. Stg!SetToSeqs(S \ poison) = Up!SetToSeqs(S \ poison) /\ Stg!Cardinality(S) = Up!Cardinality(S)
    BY SameOrders DEF Stg!Cardinality, Up!Cardinality
<1> HIDE DEF poison
<1>8. [e \in Event |-> ToUploader(status[e])]' =
        [e \in Event |-> IF e \in poison THEN "DEAD_LETTERED"
                         ELSE IF e \in S THEN "UPLOADING"
                         ELSE [x \in Event |-> ToUploader(status[x])][e]]
    BY <1>4
<1>9. [e \in Event |-> LastLetter(e)]' =
        [e \in Event |-> IF e \in poison
                         THEN Append([x \in Event |-> LastLetter(x)][e], "poison")
                         ELSE [x \in Event |-> LastLetter(x)][e]]
    BY <1>5
<1>10. attempt_count' = [e \in Event |->
            IF e \in S THEN Stg!Attempted(attempt_count[e]) ELSE attempt_count[e]]
    BY DEF Uploads, Up!ClaimRows, Stg!Attempted, Up!Attempted
<1>11. /\ pc[u] = "idle" /\ S # {} /\ Stg!Cardinality(S) <= BatchSize - Len(batch[u])
       /\ \E q \in Stg!SetToSeqs(S \ poison) :
            /\ batch' = [batch EXCEPT ![u] = @ \o q]
            /\ pc' = [pc EXCEPT ![u] =
                    IF Len(batch[u]) + Len(q) >= BatchSize THEN "send" ELSE "idle"]
       /\ UNCHANGED <<Stg!platform, tries, result, why, seen>>
    BY <1>7 DEF Uploads, Up!ClaimRows, poison, Stg!platform, Up!platform
<1>12. \A e \in S :
        /\ Stg!Ready(e)
        /\ \/ Stg!Stale(e)
           \/ Stg!CanMove([x \in Event |-> ToUploader(status[x])][e], "UPLOADING")
    BY <1>6
<1>13. Stg!ClaimRows(u, S)
    BY <1>1, <1>8, <1>9, <1>10, <1>11, <1>12, Zenon DEF Stg!ClaimRows
<1>14. \A e \in poison : status[e] # "PROCESSED"
    <2> TAKE e \in poison
    <2>1. attempt_count[e] # 0
        BY MaxRowAttemptsAssumption DEF poison, Up!OverCeiling, Up!Attempted
    <2> QED BY <2>1 DEF poison, Agreed, Stg!Unclaimed, ToUploader, Claimed
<1>15. letters' = [e \in Event |-> letters'[e]] /\ status' = [e \in Event |-> status'[e]]
    BY DEF Uploads, Up!ClaimRows
<1>16. poison \subseteq S /\ "poison" \in Up!FailureClasses
    BY DEF poison, Up!FailureClasses
<1>17. \A e \in S \ poison : status[e] = "UPLOADING" \/ status[e] \in {"PROCESSED", "FAILED_RETRYABLE"}
    BY <1>2
<1>18. LedgerMoves
    BY <1>2, <1>3, <1>14, <1>15, <1>16, <1>17 DEF LedgerMoves, RowMoves
<1> QED BY <1>13, <1>18

LEMMA SamePermissions ==
    ASSUME NEW u \in Uploaders
    PROVE  /\ Stg!RetryAllowed(u) <=> Up!RetryAllowed(u)
           /\ Stg!ApplyAllowed(u) <=> Up!ApplyAllowed(u)
           /\ Stg!DeadLetterAllowed(u) <=> Up!DeadLetterAllowed(u)
           /\ Stg!LastPositions(u) = Up!LastPositions(u)
BY DEF Stg!RetryAllowed, Up!RetryAllowed, Stg!ApplyAllowed, Up!ApplyAllowed,
       Stg!DeadLetterAllowed, Up!DeadLetterAllowed, Stg!RowsOf, Up!RowsOf,
       Stg!CanMove, Up!CanMove, Stg!AllowedTransitions, Up!AllowedTransitions,
       Stg!StatusBefore, Up!StatusBefore, Stg!Positions, Up!Positions,
       Stg!Outcome, Up!Outcome, Stg!ResultAt, Up!ResultAt,
       Stg!LastPositions, Up!LastPositions

LEMMA SameFinish ==
    ASSUME NEW u \in Uploaders, NEW where, Up!Finish(u, where)
    PROVE  Stg!Finish(u, where)
BY DEF Stg!Finish, Up!Finish, Stg!NothingRead, Up!NothingRead, Stg!Unread, Up!Unread

LEMMA LedgerKept ==
    ASSUME UNCHANGED <<status, attempt_count, letters>>
    PROVE  UNCHANGED Stg!ledger
BY DEF Stg!ledger, LastLetter

(* What an uploader holds is UPLOADING, to the gateway as well.            *)
LEMMA HeldIsUploading ==
    ASSUME Agreed, NEW u \in Uploaders, NEW e \in Up!RowsOf(u)
    PROVE  e \in Event /\ status[e] = "UPLOADING"
<1>1. e \in Event
    BY DEF Agreed, Grounded, Inv, ClearedStayFit, Sent
<1>2. ToUploader(status[e]) = "UPLOADING"
    BY <1>1, SameBatches
    DEF Agreed, Stg!TimelySafe, Stg!Owned, Stg!OwnedWhileUploading, Up!Held
<1> QED BY <1>1, <1>2 DEF ToUploader, Claimed

LEMMA RequestAsUploader ==
    ASSUME NEW u \in Uploaders, Uploads(Up!Request(u))
    PROVE  Stg!Request(u)
<1>1. UNCHANGED Stg!ledger
    BY LedgerKept
    DEF Uploads, Up!Request, Up!Respond, Up!Unavailable, Up!NoAnswer, Up!Refuse, Up!ledger
<1>2. CASE Up!Respond(u)
    BY <1>1, <1>2 DEF Up!Respond, Stg!Respond, Stg!Request, Up!RowResults, Stg!RowResults
<1>3. CASE Up!Unavailable(u)
    BY <1>1, <1>3
    DEF Up!Unavailable, Stg!Unavailable, Stg!Request, Up!platform, Stg!platform,
        Up!RetryOrGiveUp, Stg!RetryOrGiveUp
<1>4. CASE Up!NoAnswer(u)
    BY <1>1, <1>4, SameBatches
    DEF Up!NoAnswer, Stg!NoAnswer, Stg!Request, Up!RetryOrGiveUp, Stg!RetryOrGiveUp
<1>5. CASE Up!Refuse(u)
    BY <1>1, <1>5 DEF Up!Refuse, Stg!Refuse, Stg!Request, Up!platform, Stg!platform
<1> QED BY <1>2, <1>3, <1>4, <1>5 DEF Uploads, Up!Request

LEMMA FlushAsUploader ==
    ASSUME NEW u \in Uploaders, Uploads(Up!FlushIfDue(u))
    PROVE  Stg!FlushIfDue(u)
BY LedgerKept
DEF Uploads, Up!FlushIfDue, Stg!FlushIfDue, Up!ledger, Up!platform, Stg!platform

LEMMA StopAsUploader ==
    ASSUME NEW u \in Uploaders, Uploads(Up!Crash(u) \/ Up!Restart(u))
    PROVE  Stg!Crash(u) \/ Stg!Restart(u)
<1>1. CASE Up!Crash(u)
    BY <1>1, LedgerKept, SameFinish, SameBatches DEF Uploads, Up!Crash, Stg!Crash, Up!ledger
<1>2. CASE Up!Restart(u)
    BY <1>2, LedgerKept
    DEF Uploads, Up!Restart, Stg!Restart, Up!ledger, Up!platform, Stg!platform
<1> QED BY <1>1, <1>2 DEF Uploads

LEMMA LateAsUploader ==
    ASSUME NEW e \in Event, Uploads(Up!LateAccept(e))
    PROVE  Stg!LateAccept(e)
BY LedgerKept
DEF Uploads, Up!LateAccept, Stg!LateAccept, Up!ledger, Up!process, Stg!process

LEMMA LoadAsUploader ==
    ASSUME Agreed, NEW u \in Uploaders, Uploads(Up!Load(u))
    PROVE  Stg!Load(u)
<1>1. \A e \in Event : e \in Up!RowsOf(u) => ToUploader(status[e]) = status[e]
    BY HeldIsUploading DEF ToUploader, Claimed
<1>2. [e \in Event |->
            IF e \in Up!RowsOf(u)
            THEN [status |-> status[e], attempts |-> attempt_count[e]] ELSE Up!Unread]
      = [e \in Event |->
            IF e \in Stg!RowsOf(u)
            THEN [status |-> [x \in Event |-> ToUploader(status[x])][e],
                  attempts |-> attempt_count[e]] ELSE Stg!Unread]
    BY <1>1, SameBatches DEF Stg!Unread, Up!Unread
<1>3. UNCHANGED Stg!ledger
    BY LedgerKept DEF Uploads, Up!Load, Up!ledger
<1> QED
    BY <1>2, <1>3, SameBatches, Zenon
    DEF Uploads, Up!Load, Stg!Load, Up!platform, Stg!platform

LEMMA CommitRetryAsUploader ==
    ASSUME NEW u \in Uploaders, Uploads(Up!CommitRetry(u))
    PROVE  Stg!CommitRetry(u)
<1>1. \A S : Stg!Cardinality(S) = Up!Cardinality(S)
    BY DEF Stg!Cardinality, Up!Cardinality
<1>2. attempt_count' = [e \in Event |->
            IF e \in Stg!RowsOf(u)
            THEN seen[u][e].attempts + Stg!Cardinality(Stg!Positions(u, e))
            ELSE attempt_count[e]]
    BY <1>1, SameBatches DEF Uploads, Up!CommitRetry
<1>3. /\ [e \in Event |-> ToUploader(status[e])]' = [e \in Event |-> ToUploader(status[e])]
      /\ [e \in Event |-> LastLetter(e)]' = [e \in Event |-> LastLetter(e)]
    BY DEF Uploads, Up!CommitRetry, LastLetter
<1> QED
    BY <1>2, <1>3, SameBatches, SamePermissions
    DEF Uploads, Up!CommitRetry, Stg!CommitRetry, Up!platform, Stg!platform,
        Up!NothingRead, Stg!NothingRead, Up!Unread, Stg!Unread

(* The result of a batch's row is one of three.                            *)
LEMMA ResultsAreResults ==
    ASSUME Agreed, NEW u \in Uploaders, pc[u] = "apply", NEW i \in DOMAIN batch[u]
    PROVE  Up!ResultAt(u, i) \in Up!RowResults
<1>1. result[u] \in Seq(Up!RowResults) /\ DOMAIN result[u] = DOMAIN batch[u]
    BY DEF Agreed, Stg!TimelySafe, Stg!Safe, Stg!TypeOK, Stg!Bookkeeping,
           Stg!BookkeepingOf, Stg!RowResults, Up!RowResults
<1> QED BY <1>1 DEF Up!ResultAt

LEMMA CommitApplyAsUploader ==
    ASSUME Agreed, NEW u \in Uploaders, Uploads(Up!CommitApply(u))
    PROVE  Stg!CommitApply(u) /\ LedgerMoves
<1>1. PICK last \in Up!LastPositions(u) :
        /\ status' = [e \in Event |->
                IF e \in Up!RowsOf(u) THEN Up!Outcome[Up!ResultAt(u, last[e])]
                ELSE status[e]]
        /\ letters' = [e \in Event |->
                IF e \in Up!RowsOf(u) /\ Up!ResultAt(u, last[e]) = "rejected"
                THEN Append(letters[e], "partial") ELSE letters[e]]
    BY DEF Uploads, Up!CommitApply
<1> DEFINE r(e) == Up!ResultAt(u, last[e])
<1>2. \A e \in Up!RowsOf(u) : /\ e \in Event /\ status[e] = "UPLOADING"
                              /\ r(e) \in {"ok", "retryable", "rejected"}
    <2> TAKE e \in Up!RowsOf(u)
    <2>1. last[e] \in DOMAIN batch[u]
        BY <1>1 DEF Up!LastPositions
    <2>2. Up!ResultAt(u, last[e]) \in Up!RowResults
        BY <2>1, ResultsAreResults DEF Uploads, Up!CommitApply
    <2> QED BY <2>2, HeldIsUploading DEF Up!RowResults
<1>3. \A e \in Up!RowsOf(u) :
        /\ r(e) = "ok" => Up!Outcome[r(e)] = "UPLOADED"
        /\ r(e) = "retryable" => Up!Outcome[r(e)] = "FAILED_RETRYABLE"
        /\ r(e) = "rejected" => Up!Outcome[r(e)] = "DEAD_LETTERED"
    BY DEF Up!Outcome
<1>4. \A e \in Event : e \in Up!RowsOf(u) =>
        /\ status'[e] = Up!Outcome[r(e)]
        /\ letters'[e] = IF r(e) = "rejected" THEN Append(letters[e], "partial") ELSE letters[e]
    BY <1>1
<1>5. \A e \in Event : e \notin Up!RowsOf(u) =>
        status'[e] = status[e] /\ letters'[e] = letters[e]
    BY <1>1
<1>6. letters' = [e \in Event |-> letters'[e]] /\ status' = [e \in Event |-> status'[e]]
    BY <1>1
<1> HIDE DEF r
<1>7. "partial" \in Up!FailureClasses
    BY DEF Up!FailureClasses
<1>8. LedgerMoves
    BY <1>2, <1>3, <1>4, <1>5, <1>6, <1>7 DEF LedgerMoves, RowMoves
<1>9. \A e \in Event : ToUploader(status'[e]) =
        IF e \in Up!RowsOf(u) THEN Up!Outcome[r(e)] ELSE ToUploader(status[e])
    BY <1>2, <1>3, <1>4, <1>5 DEF ToUploader, Claimed
<1>10. \A e \in Event : LastLetter(e)' =
        IF e \in Up!RowsOf(u) /\ r(e) = "rejected"
        THEN Append(LastLetter(e), "partial") ELSE LastLetter(e)
    <2> TAKE e \in Event
    <2>1. CASE e \in Up!RowsOf(u) /\ r(e) = "rejected"
        BY <1>2, <1>3, <1>4, <1>7, <2>1, LetterWritten DEF Agreed
    <2>2. CASE e \in Up!RowsOf(u) /\ r(e) # "rejected"
        BY <1>2, <1>3, <1>4, <2>2 DEF LastLetter
    <2>3. CASE e \notin Up!RowsOf(u)
        BY <1>5, <2>3 DEF LastLetter
    <2> QED BY <2>1, <2>2, <2>3
<1>11. [e \in Event |-> ToUploader(status[e])]' =
        [e \in Event |-> IF e \in Stg!RowsOf(u) THEN Stg!Outcome[Stg!ResultAt(u, last[e])]
                         ELSE [x \in Event |-> ToUploader(status[x])][e]]
    BY <1>9, SameBatches DEF r, Stg!Outcome, Up!Outcome, Stg!ResultAt, Up!ResultAt
<1>12. [e \in Event |-> LastLetter(e)]' =
        [e \in Event |-> IF e \in Stg!RowsOf(u) /\ Stg!ResultAt(u, last[e]) = "rejected"
                         THEN Append([x \in Event |-> LastLetter(x)][e], "partial")
                         ELSE [x \in Event |-> LastLetter(x)][e]]
    BY <1>10, SameBatches DEF r, Stg!ResultAt, Up!ResultAt
<1>13. last \in Stg!LastPositions(u)
    BY <1>1, SamePermissions
<1>14. Stg!CommitApply(u)
    <2>1. /\ pc[u] = "apply" /\ Up!InTransaction(u) /\ Up!ApplyAllowed(u)
          /\ Up!Finish(u, "idle") /\ UNCHANGED <<attempt_count, accepted, late>>
        BY DEF Uploads, Up!CommitApply, Up!platform
    <2>2. Stg!InTransaction(u) /\ Stg!ApplyAllowed(u) /\ Stg!Finish(u, "idle")
        BY <2>1, SameBatches, SamePermissions, SameFinish
    <2> QED BY <1>11, <1>12, <1>13, <2>1, <2>2, Zenon DEF Stg!CommitApply, Stg!platform
<1> QED BY <1>8, <1>14

LEMMA CommitDeadAsUploader ==
    ASSUME Agreed, NEW u \in Uploaders, Uploads(Up!CommitDead(u))
    PROVE  Stg!CommitDead(u) /\ LedgerMoves
<1>1. \A e \in Up!RowsOf(u) : e \in Event /\ status[e] = "UPLOADING"
    BY HeldIsUploading
<1>2. why[u] \in Up!FailureClasses
    BY DEF Uploads, Up!CommitDead, Agreed, Stg!TimelySafe, Stg!Safe, Stg!Bookkeeping,
           Stg!BookkeepingOf, Stg!FailureClasses, Up!FailureClasses
<1>3. \A e \in Event :
        /\ e \in Up!RowsOf(u) =>
            status'[e] = "DEAD_LETTERED" /\ letters'[e] = Append(letters[e], why[u])
        /\ e \notin Up!RowsOf(u) => status'[e] = status[e] /\ letters'[e] = letters[e]
    BY DEF Uploads, Up!CommitDead
<1>4. letters' = [e \in Event |-> letters'[e]] /\ status' = [e \in Event |-> status'[e]]
    BY DEF Uploads, Up!CommitDead
<1>5. LedgerMoves
    BY <1>1, <1>2, <1>3, <1>4 DEF LedgerMoves, RowMoves
<1>6. \A e \in Event : ToUploader(status'[e]) =
        IF e \in Up!RowsOf(u) THEN "DEAD_LETTERED" ELSE ToUploader(status[e])
    BY <1>3 DEF ToUploader, Claimed
<1>7. \A e \in Event : LastLetter(e)' =
        IF e \in Up!RowsOf(u) THEN Append(LastLetter(e), why[u]) ELSE LastLetter(e)
    <2> TAKE e \in Event
    <2>1. CASE e \in Up!RowsOf(u)
        BY <1>1, <1>2, <1>3, <2>1, LetterWritten DEF Agreed
    <2>2. CASE e \notin Up!RowsOf(u)
        BY <1>3, <2>2 DEF LastLetter
    <2> QED BY <2>1, <2>2
<1>8. [e \in Event |-> ToUploader(status[e])]' =
        [e \in Event |-> IF e \in Stg!RowsOf(u) THEN "DEAD_LETTERED"
                         ELSE [x \in Event |-> ToUploader(status[x])][e]]
    BY <1>6, SameBatches
<1>9. [e \in Event |-> LastLetter(e)]' =
        [e \in Event |-> IF e \in Stg!RowsOf(u)
                         THEN Append([x \in Event |-> LastLetter(x)][e], why[u])
                         ELSE [x \in Event |-> LastLetter(x)][e]]
    BY <1>7, SameBatches
<1>10. Stg!CommitDead(u)
    <2>1. /\ pc[u] = "dead" /\ Up!InTransaction(u) /\ Up!DeadLetterAllowed(u)
          /\ Up!Finish(u, "idle") /\ UNCHANGED <<attempt_count, accepted, late>>
        BY DEF Uploads, Up!CommitDead, Up!platform
    <2>2. Stg!InTransaction(u) /\ Stg!DeadLetterAllowed(u) /\ Stg!Finish(u, "idle")
        BY <2>1, SameBatches, SamePermissions, SameFinish
    <2> QED BY <1>8, <1>9, <2>1, <2>2, Zenon DEF Stg!CommitDead, Stg!platform
<1> QED BY <1>5, <1>10

LEMMA IllegalAsUploader ==
    ASSUME NEW u \in Uploaders, Uploads(Up!Illegal(u))
    PROVE  Stg!Illegal(u)
BY LedgerKept, SameBatches, SamePermissions, SameFinish
DEF Uploads, Up!Illegal, Stg!Illegal, Up!ledger, Up!platform, Stg!platform

LEMMA UploadStepAsUploader ==
    ASSUME Agreed, UploadStep
    PROVE  Stg!Next /\ LedgerMoves
<1>1. ASSUME UNCHANGED <<status, letters>> PROVE LedgerMoves
    <2>1. letters = [e \in Event |-> letters[e]] /\ status = [e \in Event |-> status[e]]
        BY DEF Agreed, LettersAgree, Itk!Safe, Itk!TypeOK
    <2> QED BY <1>1, <2>1 DEF LedgerMoves, RowMoves
<1>2. ASSUME NEW u \in Uploaders, Uploads(Up!Claim(u)) PROVE Stg!Next /\ LedgerMoves
    BY <1>2, ClaimAsUploader DEF Uploads, Up!Claim, Stg!Claim, Stg!Next
<1>3. ASSUME NEW u \in Uploaders, Uploads(Up!Progress(u)) PROVE Stg!Next /\ LedgerMoves
    <2>1. CASE Up!CommitApply(u)
        BY <1>3, <2>1, CommitApplyAsUploader
        DEF Uploads, Stg!Commit, Stg!Progress, Stg!Next
    <2>2. CASE Up!CommitDead(u)
        BY <1>3, <2>2, CommitDeadAsUploader
        DEF Uploads, Stg!Commit, Stg!Progress, Stg!Next
    <2>3. CASE Up!CommitRetry(u)
        <3>1. Stg!CommitRetry(u)
            BY <1>3, <2>3, CommitRetryAsUploader DEF Uploads
        <3> QED
            BY <1>1, <2>3, <3>1 DEF Up!CommitRetry, Stg!Commit, Stg!Progress, Stg!Next
    <2>4. CASE Up!Illegal(u)
        <3>1. Stg!Illegal(u)
            BY <1>3, <2>4, IllegalAsUploader DEF Uploads
        <3> QED
            BY <1>1, <2>4, <3>1 DEF Up!Illegal, Up!ledger, Stg!Commit, Stg!Progress, Stg!Next
    <2>5. CASE Up!Load(u)
        <3>1. Stg!Load(u)
            BY <1>3, <2>5, LoadAsUploader DEF Uploads
        <3> QED BY <1>1, <2>5, <3>1 DEF Up!Load, Up!ledger, Stg!Progress, Stg!Next
    <2>6. CASE Up!Request(u)
        <3>1. Stg!Request(u)
            BY <1>3, <2>6, RequestAsUploader DEF Uploads
        <3>2. UNCHANGED <<status, letters>>
            BY <2>6 DEF Up!Request, Up!Respond, Up!Unavailable, Up!NoAnswer, Up!Refuse, Up!ledger
        <3> QED BY <1>1, <3>1, <3>2 DEF Stg!Progress, Stg!Next
    <2>7. CASE Up!FlushIfDue(u)
        <3>1. Uploads(Up!FlushIfDue(u))
            BY <1>3, <2>7 DEF Uploads
        <3>2. Stg!FlushIfDue(u)
            BY <3>1, FlushAsUploader
        <3> QED BY <1>1, <2>7, <3>2 DEF Up!FlushIfDue, Up!ledger, Stg!Progress, Stg!Next
    <2> QED
        BY <1>3, <2>1, <2>2, <2>3, <2>4, <2>5, <2>6, <2>7 DEF Uploads, Up!Progress, Up!Commit
<1>4. ASSUME NEW u \in Uploaders, Uploads(Up!Crash(u) \/ Up!Restart(u))
      PROVE  Stg!Next /\ LedgerMoves
    <2>1. Stg!Crash(u) \/ Stg!Restart(u)
        BY <1>4, StopAsUploader
    <2>2. UNCHANGED <<status, letters>>
        BY <1>4 DEF Uploads, Up!Crash, Up!Restart, Up!ledger
    <2> QED BY <1>1, <2>1, <2>2 DEF Stg!Next
<1>5. ASSUME NEW e \in Event, Uploads(Up!LateAccept(e)) PROVE Stg!Next /\ LedgerMoves
    <2>1. Stg!LateAccept(e)
        BY <1>5, LateAsUploader
    <2>2. UNCHANGED <<status, letters>>
        BY <1>5 DEF Uploads, Up!LateAccept, Up!ledger
    <2> QED BY <1>1, <2>1, <2>2 DEF Stg!Next
<1> QED BY <1>2, <1>3, <1>4, <1>5 DEF UploadStep, Uploads

-----------------------------------------------------------------------------
(* Steps of the upload stage keep the invariant                            *)

LEMMA IntakeAssumptions == Leads \subseteq Itk!LeadType /\ MaxReplays \in Nat
BY LeadsAssumption, MaxReplaysAssumption
DEF In!LeadType, Itk!LeadType, In!Consents, Itk!Consents, In!Signals, Itk!Signals,
    In!IdKinds, Itk!IdKinds

(* Whom workers and operators are busy with.                               *)
LEMMA BusyWithEvents ==
    ASSUME Itk!TypeOK
    PROVE  /\ \A w \in Workers :
                worker[w].step # "idle" => worker[w].message.event \in Event
           /\ \A o \in Operators :
                operator[o].step # "idle" =>
                    operator[o].event \in Event /\ operator[o].row \in Nat
<1>1. ASSUME NEW w \in Workers, worker[w].step # "idle"
      PROVE  worker[w].message.event \in Event
    <2>1. \/ worker[w] \in [step : {"read"}, message : Itk!Messages,
                            status : Itk!Statuses \cup {"ABSENT"}, hashed : Itk!HashedKinds]
          \/ worker[w] \in [step : {"ack"}, message : Itk!Messages]
        BY <1>1 DEF Itk!TypeOK, Itk!Jobs, Itk!Resting
    <2> QED BY <2>1 DEF Itk!Messages
<1>2. ASSUME NEW o \in Operators, operator[o].step # "idle"
      PROVE  operator[o].event \in Event /\ operator[o].row \in Nat
    BY <1>2 DEF Itk!TypeOK, Itk!Replays, Itk!Resting
<1> QED BY <1>1, <1>2

LEMMA UploadKeepsLetters ==
    ASSUME LettersAgree, LedgerMoves, replayed' = replayed
    PROVE  LettersAgree'
<1>1. ASSUME NEW e \in Event
      PROVE  /\ letters'[e] \in Seq(Up!FailureClasses)
             /\ replayed'[e] \subseteq 1..Len(letters'[e])
             /\ OpenLetters(e)' =
                    IF status'[e] = "DEAD_LETTERED" THEN {Len(letters'[e])} ELSE {}
    <2>1. /\ letters[e] \in Seq(Up!FailureClasses) /\ Len(letters[e]) \in Nat
          /\ DOMAIN letters[e] = 1..Len(letters[e])
          /\ replayed[e] \subseteq 1..Len(letters[e])
          /\ (1..Len(letters[e])) \ replayed[e] =
                IF status[e] = "DEAD_LETTERED" THEN {Len(letters[e])} ELSE {}
        BY DEF LettersAgree, OpenLetters
    <2>2. CASE letters'[e] = letters[e]
        <3>1. status'[e] = "DEAD_LETTERED" <=> status[e] = "DEAD_LETTERED"
            BY <2>1, <2>2 DEF LedgerMoves, RowMoves
        <3> QED BY <2>1, <2>2, <3>1 DEF OpenLetters
    <2>3. ASSUME NEW x \in Up!FailureClasses, letters'[e] = Append(letters[e], x),
                 status[e] # "DEAD_LETTERED", status'[e] = "DEAD_LETTERED"
          PROVE  /\ letters'[e] \in Seq(Up!FailureClasses)
                 /\ replayed'[e] \subseteq 1..Len(letters'[e])
                 /\ OpenLetters(e)' =
                        IF status'[e] = "DEAD_LETTERED" THEN {Len(letters'[e])} ELSE {}
        <3>1. /\ letters'[e] \in Seq(Up!FailureClasses)
              /\ Len(letters'[e]) = Len(letters[e]) + 1
              /\ DOMAIN letters'[e] = 1..(Len(letters[e]) + 1)
            BY <2>1, <2>3, AppendProperties, LenProperties
        <3>2. (1..Len(letters[e])) \ replayed[e] = {}
            BY <2>1, <2>3
        <3>3. (1..(Len(letters[e]) + 1)) \ replayed[e] = {Len(letters[e]) + 1}
            BY <2>1, <3>2
        <3> QED BY <2>1, <2>3, <3>1, <3>3 DEF OpenLetters
    <2> QED BY <2>2, <2>3, <2>1 DEF LedgerMoves, RowMoves
<1>2. letters' \in [Event -> Seq(Up!FailureClasses)]
    BY <1>1 DEF LedgerMoves
<1>3. replayed' \in [Event -> SUBSET Nat]
    BY DEF LettersAgree
<1> QED BY <1>1, <1>2, <1>3 DEF LettersAgree

(* Rows that are QUEUED or DEAD_LETTERED are not the uploaders'.           *)
LEMMA UploadKeepsReads ==
    ASSUME Agreed, LedgerMoves, UNCHANGED intake
    PROVE  ReadsCurrent'
<1>1. \A e \in Event : status[e] \in {"QUEUED", "DEAD_LETTERED"} =>
        status'[e] = status[e] /\ letters'[e] = letters[e]
    BY DEF LedgerMoves, RowMoves
<1>2. ASSUME NEW w \in Workers PROVE JobCurrent(w)'
    <2>1. SUFFICES ASSUME worker[w].step = "read", worker[w].status = "QUEUED"
                   PROVE  LET e == worker[w].message.event IN
                          status'[e] = "QUEUED" /\ worker[w].hashed = hashed[e]
        BY DEF JobCurrent, intake
    <2>2. worker[w].message.event \in Event
        BY <2>1, BusyWithEvents DEF Agreed, Itk!Safe
    <2> QED BY <1>1, <2>1, <2>2 DEF Agreed, ReadsCurrent, JobCurrent
<1>3. ASSUME NEW o \in Operators PROVE ReplayCurrent(o)'
    <2>1. SUFFICES ASSUME operator[o].step # "idle"
                   PROVE  LET e == operator[o].event IN
                          status'[e] = "DEAD_LETTERED" /\ operator[o].row = Len(letters'[e])
        BY DEF ReplayCurrent, intake
    <2>2. operator[o].event \in Event
        BY <2>1, BusyWithEvents DEF Agreed, Itk!Safe
    <2> QED BY <1>1, <2>1, <2>2 DEF Agreed, ReadsCurrent, ReplayCurrent
<1> QED BY <1>2, <1>3 DEF ReadsCurrent

LEMMA UploadKeepsDigests ==
    ASSUME DigestsAgree, Uploading
    PROVE  DigestsAgree'
<1>1. UNCHANGED <<lead, hashed>>
    BY DEF Uploading
<1>2. \A e \in Event : Handled(e)' => Handled(e)
    BY DEF Uploading, Handled, Waits
<1> QED BY <1>1, <1>2 DEF DigestsAgree

(* Dead letters, as the intake stage counts them, have their types.        *)
LEMMA LettersCounted ==
    ASSUME NEW l \in [Event -> Seq(Up!FailureClasses)], NEW r
    PROVE  /\ [e \in Event |-> Len(l[e])] \in [Event -> Nat]
           /\ [e \in Event |-> (DOMAIN l[e]) \ r[e]] \in [Event -> SUBSET Nat]
<1>1. \A e \in Event : Len(l[e]) \in Nat /\ DOMAIN l[e] = 1..Len(l[e])
    OBVIOUS
<1>2. \A e \in Event : (DOMAIN l[e]) \ r[e] \in SUBSET Nat
    BY <1>1
<1> QED BY <1>1, <1>2

(* What a transaction has read as its own is a row of its batch, and so    *)
(* fit to be sent.                                                         *)
LEMMA LoadedStayFit ==
    ASSUME Grounded', Itk!TypeOK', NEW u \in Uploaders, NEW e \in Loaded(u)'
    PROVE  Itk!Fit(e)'
<1>1. BatchGrounded(u)' /\ Inv'
    BY DEF Grounded, BatchesGrounded
<1>2. ~(Reduced(Up!Unread.status) = "UPLOADING")
    BY DEF Reduced, Up!Unread
<1>3. e \in Event /\ Reduced(seen'[u][e].status) = "UPLOADING"
    BY DEF Loaded
<1>4. seen'[u][e] # Up!Unread
    BY <1>2, <1>3
<1>5. Up!InTransaction(u)'
    BY <1>3, <1>4 DEF Up!InTransaction, Up!NothingRead
<1>6. e \in Up!RowsOf(u)'
    BY <1>1, <1>3, <1>4, <1>5 DEF BatchGrounded
<1>7. Sendable(e)'
    BY <1>1, <1>3, <1>6 DEF Inv, ClearedStayFit, Sent
<1>8. lead'[e] \in Leads
    <2>1. lead'[e] \in Leads \cup {Itk!NoLead, Itk!Garbage}
        BY <1>3 DEF Itk!TypeOK
    <2>2. lead'[e].consent.ad_user_data = "GRANTED"
        BY <1>7 DEF Sendable
    <2>3. /\ Itk!NoLead.consent.ad_user_data = "MISSING"
          /\ Itk!Garbage.consent.ad_user_data = "MISSING"
        BY DEF Itk!NoLead, Itk!Garbage, Itk!Blank
    <2> QED BY <2>1, <2>2, <2>3
<1> QED BY <1>7, <1>8 DEF Itk!Fit, Sendable

LEMMA UploadKeepsIntake ==
    ASSUME Agreed, LedgerMoves, LettersAgree', Grounded', UNCHANGED intake
    PROVE  Itk!Safe'
<1> USE DEF Itk!Safe
<1>1. UNCHANGED <<lead, hashed, outbox, queue, lost, told, stuck, worker, operator>>
    BY DEF intake
<1>2. Itk!TypeOK /\ Itk!Sound /\ Itk!ConsentGate /\ Itk!MatchKeyPresent /\ Itk!RejectedForCause
    BY DEF Agreed
<1>3. Itk!TypeOK'
    <2>1. status \in [Event -> Itk!Statuses \cup {"ABSENT"}]
        BY <1>2 DEF Itk!TypeOK
    <2>2. \A e \in Event : status'[e] \in Itk!Statuses \cup {"ABSENT"}
        BY <2>1 DEF LedgerMoves, RowMoves, Itk!Statuses
    <2>3. status' = [e \in Event |-> status'[e]]
        BY DEF LedgerMoves
    <2>4. status' \in [Event -> Itk!Statuses \cup {"ABSENT"}]
        BY <2>2, <2>3
    <2>5. /\ [e \in Event |-> Len(letters[e])]' \in [Event -> Nat]
          /\ [e \in Event |-> OpenLetters(e)]' \in [Event -> SUBSET Nat]
        BY LettersCounted DEF LettersAgree, OpenLetters
    <2>6. [u \in Uploaders |-> Loaded(u)]' \in [Uploaders -> SUBSET Event]
        BY DEF Loaded
    <2> QED BY <1>1, <1>2, <2>4, <2>5, <2>6 DEF Itk!TypeOK
<1>4. \A e \in Event :
        \/ status'[e] = status[e]
        \/ /\ status[e] \in {"PROCESSED", "UPLOADING", "FAILED_RETRYABLE"}
           /\ status'[e] \in {"UPLOADING", "UPLOADED", "FAILED_RETRYABLE", "DEAD_LETTERED"}
    BY DEF LedgerMoves, RowMoves
<1>5. Itk!Sound'
    <2>1. ASSUME NEW e \in Event PROVE Itk!RowSound(e)'
        BY <1>1, <1>2, <1>4 DEF Itk!Sound, Itk!RowSound, Itk!Recoverable
    <2>2. \A m \in queue : Itk!MessageSound(m, hashed[m.event])'
        BY <1>1, <1>2 DEF Itk!Sound, Itk!MessageSound
    <2>3. \A w \in Workers : Itk!JobSound(w)'
        BY <1>1, <1>2 DEF Itk!Sound, Itk!JobSound, Itk!MessageSound
    <2>4. \A o \in Operators : Itk!ReplaySound(o)'
        BY <1>1, <1>2 DEF Itk!Sound, Itk!ReplaySound, Itk!Idle, Itk!Recoverable
    <2>5. \A u \in Uploaders : Itk!LoadedSound(u)'
        BY <1>2, <1>3, LoadedStayFit DEF Itk!LoadedSound
    <2> QED BY <1>1, <2>1, <2>2, <2>3, <2>4, <2>5 DEF Itk!Sound
<1>6. ASSUME NEW e \in Event, status[e] \in {"PROCESSED", "UPLOADING", "FAILED_RETRYABLE"}
      PROVE  /\ lead[e] \in Leads
             /\ lead[e].consent.ad_user_data = "GRANTED"
             /\ lead[e].consent.ad_personalization = "GRANTED"
             /\ lead[e].click \/ hashed[e] = "digests"
    <2>1. lead[e] \in Leads
        BY <1>2, <1>6 DEF Itk!Sound, Itk!RowSound
    <2>2. Sendable(e)
        BY <1>6 DEF Agreed, Grounded, Inv, ClearedStayFit, Waits
    <2> QED BY <2>1, <2>2 DEF Sendable
<1>7. Itk!ConsentGate' /\ Itk!MatchKeyPresent'
    BY <1>1, <1>2, <1>4, <1>6 DEF Itk!ConsentGate, Itk!MatchKeyPresent, Itk!PastGate
<1>8. Itk!RejectedForCause'
    BY <1>1, <1>2, <1>4 DEF Itk!RejectedForCause
<1> QED BY <1>3, <1>5, <1>7, <1>8

LEMMA UploadKeepsStage ==
    ASSUME Timely, Agreed, Stg!Next
    PROVE  Stg!TimelySafe' /\ Stg!Unclaimed'
<1>1. Stg!TimelySafe /\ Stg!Unclaimed
    BY DEF Agreed
<1>2. Stg!TimelySafe'
    BY <1>1, Stg!NextTimely, UploaderAssumptions
<1>3. Stg!Unclaimed'
    BY <1>1, Stg!UnclaimedStep, UploaderAssumptions
<1> QED BY <1>2, <1>3

LEMMA UploadKeepsAgreed ==
    ASSUME Timely, Agreed, UploadStep
    PROVE  Agreed'
<1>1. Stg!Next /\ LedgerMoves
    BY UploadStepAsUploader
<1>2. UNCHANGED <<replayed, intake>>
    BY DEF UploadStep, Uploads
<1>3. Grounded' /\ Uploading
    BY UploadKeepsGround, UploadKeepsInv DEF Agreed, Grounded
<1>4. LettersAgree'
    BY <1>1, <1>2, UploadKeepsLetters DEF Agreed
<1>5. ReadsCurrent' /\ Itk!Safe'
    BY <1>1, <1>2, <1>3, <1>4, UploadKeepsReads, UploadKeepsIntake
<1>6. DigestsAgree'
    BY <1>3, UploadKeepsDigests DEF Agreed
<1> QED BY <1>1, <1>3, <1>4, <1>5, <1>6, UploadKeepsStage DEF Agreed


=============================================================================
