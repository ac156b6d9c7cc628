---------------------------- MODULE GatewayProofs ----------------------------
(***************************************************************************)
(* Proofs about the whole gateway, for any number of events, workers,      *)
(* operators and uploaders, timely or not: nothing reaches the platform    *)
(* that the processor would not let through.                               *)
(***************************************************************************)
EXTENDS Gateway, SequenceTheorems, FiniteSetTheorems, TLAPS

-----------------------------------------------------------------------------
(* The inductive invariant                                                 *)

(* The functions the steps assign to, by their domains.                    *)
Shape ==
    /\ DOMAIN status = Event /\ DOMAIN lead = Event /\ DOMAIN hashed = Event
    /\ DOMAIN worker = Workers /\ DOMAIN batch = Uploaders
    /\ \A u \in Uploaders : batch[u] \in Seq(Event)

(* Every message, sent or about to be, says one of the things a lead says  *)
(* of its identifiers.                                                     *)
MessagesSpeak ==
    /\ \A e \in outbox :
        e \in Event /\ status[e] # "ABSENT" /\ lead[e].ids \in In!IdKinds
    /\ \A m \in queue : m.ids \in In!IdKinds
    /\ \A w \in Workers :
        worker[w].step = "read" => worker[w].message.ids \in In!IdKinds

(* Digests that say nothing are written beside a click id only, on the     *)
(* row and in what a worker has read of it.                                *)
RowOK(e) ==
    /\ hashed[e] \in In!HashedKinds
    /\ hashed[e] # "null" => status[e] # "ABSENT"
    /\ hashed[e] = "blank" => lead[e].click

JobOK(w) ==
    worker[w].step = "read" /\ worker[w].message.event \in Event =>
        LET e == worker[w].message.event IN
        /\ worker[w].hashed \in In!HashedKinds
        /\ worker[w].hashed = "blank" => lead[e].click /\ status[e] # "ABSENT"

BlanksHaveClicks == (\A e \in Event : RowOK(e)) /\ (\A w \in Workers : JobOK(w))

(* The events the processor let through, wherever they are now.            *)
Sendable(e) ==
    /\ lead[e].consent.ad_user_data = "GRANTED"
    /\ lead[e].consent.ad_personalization = "GRANTED"
    /\ lead[e].click \/ hashed[e] = "digests"

Waits(e) == status[e] \in {"PROCESSED", "UPLOADING", "FAILED_RETRYABLE"}
Sent == accepted \cup late \cup UNION {Up!RowsOf(u) : u \in Uploaders}

ClearedStayFit ==
    /\ Sent \subseteq Event
    /\ \A e \in Event :
        Waits(e) \/ e \in Sent => Sendable(e) /\ status[e] # "ABSENT"

Inv == Shape /\ MessagesSpeak /\ BlanksHaveClicks /\ ClearedStayFit

-----------------------------------------------------------------------------
(* The intake stage                                                        *)

(* A row comes into being.                                                 *)
Inserts(e, s, l) ==
    /\ status[e] = "ABSENT" /\ s \in {"QUEUED", "REJECTED"}
    /\ status' = [status EXCEPT ![e] = s]
    /\ lead' = [lead EXCEPT ![e] = l]
    /\ outbox' = outbox \/ (outbox' = outbox \cup {e} /\ l.ids \in In!IdKinds)
    /\ UNCHANGED <<hashed, queue, worker, upload>>

LEMMA InsertKeepsInv ==
    ASSUME Inv, NEW e \in Event, NEW s, NEW l, Inserts(e, s, l)
    PROVE  Inv'
<1> USE DEF Inserts
<1>1. Shape'
    BY DEF Inv, Shape, upload
<1>2. \A x \in Event : x # e => status'[x] = status[x] /\ lead'[x] = lead[x]
    BY DEF Inv, Shape
<1>3. status'[e] = s /\ lead'[e] = l /\ s # "ABSENT"
    BY DEF Inv, Shape
<1>4. MessagesSpeak'
    BY <1>2, <1>3 DEF Inv, MessagesSpeak
<1>5. hashed[e] = "null" /\ e \notin Sent
    BY DEF Inv, BlanksHaveClicks, RowOK, ClearedStayFit, In!HashedKinds
<1>6. BlanksHaveClicks'
    <2>1. ASSUME NEW x \in Event PROVE RowOK(x)'
        BY <1>2, <1>3, <1>5 DEF Inv, BlanksHaveClicks, RowOK
    <2>2. ASSUME NEW w \in Workers PROVE JobOK(w)'
        BY <1>2, <1>3 DEF Inv, BlanksHaveClicks, JobOK
    <2> QED BY <2>1, <2>2 DEF BlanksHaveClicks
<1>7. Sent' = Sent
    BY DEF Sent, upload, Up!RowsOf
<1>8. ASSUME NEW x \in Event, Waits(x)' \/ x \in Sent'
      PROVE  Sendable(x)' /\ status'[x] # "ABSENT"
    <2>1. x # e
        BY <1>3, <1>5, <1>7, <1>8 DEF Waits
    <2> QED BY <2>1, <1>2, <1>7, <1>8 DEF Inv, ClearedStayFit, Waits, Sendable
<1> QED BY <1>1, <1>4, <1>6, <1>7, <1>8 DEF Inv, ClearedStayFit

(* Steps that leave rows, jobs and the upload stage alone.                 *)
LEMMA QueueKeepsInv ==
    ASSUME Inv,
           outbox' \subseteq outbox,
           \A m \in queue' : m \in queue \/ m.ids \in In!IdKinds,
           UNCHANGED <<status, lead, hashed, worker, upload>>
    PROVE  Inv'
<1>1. Shape' /\ MessagesSpeak'
    BY DEF Inv, Shape, MessagesSpeak, upload
<1>2. BlanksHaveClicks'
    BY DEF Inv, BlanksHaveClicks, RowOK, JobOK
<1>3. Sent' = Sent
    BY DEF Sent, upload, Up!RowsOf
<1>4. ClearedStayFit'
    BY <1>3 DEF Inv, ClearedStayFit, Waits, Sendable
<1> QED BY <1>1, <1>2, <1>4 DEF Inv

LEMMA IngestKeepsInv ==
    ASSUME Inv, NEW e \in Event, Intakes(In!Ingest(e))
    PROVE  Inv'
<1>1. CASE In!IngestNew(e)
    <2>1. PICK l \in Leads : lead' = [lead EXCEPT ![e] = l]
        BY <1>1 DEF In!IngestNew
    <2>2. l.ids \in In!IdKinds
        BY LeadsAssumption DEF In!LeadType
    <2>3. Inserts(e, "QUEUED", l)
        BY <1>1, <2>1, <2>2 DEF In!IngestNew, In!Inserted, Intakes, Inserts
    <2> QED BY <2>3, InsertKeepsInv
<1>2. CASE In!IngestInvalid(e) /\ status[e] = "ABSENT"
    <2>1. Inserts(e, "REJECTED", In!Garbage)
        BY <1>2 DEF In!IngestInvalid, Intakes, Inserts
    <2> QED BY <2>1, InsertKeepsInv
<1>3. CASE In!IngestInvalid(e) /\ status[e] # "ABSENT"
    BY <1>3, QueueKeepsInv DEF In!IngestInvalid, Intakes
<1>4. CASE In!IngestDuplicate(e)
    BY <1>4, QueueKeepsInv DEF In!IngestDuplicate, In!ledger, Intakes
<1>5. CASE In!Publish(e) \/ In!ApiCrash(e)
    <2>1. /\ e \in outbox /\ outbox' = outbox \ {e}
          /\ queue' = queue \/ queue' = queue \cup {[event |-> e, ids |-> lead[e].ids]}
          /\ UNCHANGED <<status, lead, hashed, worker, upload>>
        BY <1>5 DEF In!Publish, In!ApiCrash, In!Send, In!ledger, Intakes
    <2>2. lead[e].ids \in In!IdKinds
        BY <2>1 DEF Inv, MessagesSpeak
    <2> QED BY <2>1, <2>2, QueueKeepsInv
<1> QED BY <1>1, <1>2, <1>3, <1>4, <1>5 DEF In!Ingest, Intakes

(* Only the job of one worker changes, and it has read no row.             *)
LEMMA RestingKeepsInv ==
    ASSUME Inv, NEW w \in Workers,
           Intakes(In!Skip(w) \/ In!Ack(w) \/ In!Redeliver(w))
    PROVE  Inv'
<1>1. /\ queue' \subseteq queue
      /\ UNCHANGED <<status, lead, hashed, outbox, upload>>
      /\ DOMAIN worker' = Workers /\ worker'[w].step # "read"
      /\ \A v \in Workers : v # w => worker'[v] = worker[v]
    BY DEF Inv, Shape, Intakes, In!Skip, In!Ack, In!Redeliver, In!ledger, In!Resting
<1>2. Shape' /\ MessagesSpeak'
    BY <1>1 DEF Inv, Shape, MessagesSpeak, upload
<1>3. BlanksHaveClicks'
    BY <1>1 DEF Inv, BlanksHaveClicks, RowOK, JobOK
<1>4. ClearedStayFit'
    <2>1. Sent' = Sent
        BY <1>1 DEF Sent, upload, Up!RowsOf
    <2> QED BY <1>1, <2>1 DEF Inv, ClearedStayFit, Waits, Sendable
<1> QED BY <1>2, <1>3, <1>4 DEF Inv

LEMMA ReceiveKeepsInv ==
    ASSUME Inv, NEW w \in Workers, NEW m \in queue, Intakes(In!Receive(w, m))
    PROVE  Inv'
<1>1. /\ UNCHANGED <<status, lead, hashed, outbox, queue, upload>>
      /\ DOMAIN worker' = Workers
      /\ worker'[w].message = m /\ worker'[w].hashed = hashed[m.event]
      /\ \A v \in Workers : v # w => worker'[v] = worker[v]
    BY DEF Inv, Shape, Intakes, In!Receive, In!ledger
<1>2. Shape' /\ MessagesSpeak'
    BY <1>1 DEF Inv, Shape, MessagesSpeak, upload
<1>3. BlanksHaveClicks'
    <2>1. ASSUME NEW v \in Workers PROVE JobOK(v)'
        <3>1. CASE v = w
            BY <1>1, <3>1 DEF Inv, BlanksHaveClicks, RowOK, JobOK
        <3>2. CASE v # w
            BY <1>1, <3>2 DEF Inv, BlanksHaveClicks, JobOK
        <3> QED BY <3>1, <3>2
    <2> QED BY <1>1, <2>1 DEF Inv, BlanksHaveClicks, RowOK
<1>4. ClearedStayFit'
    <2>1. Sent' = Sent
        BY <1>1 DEF Sent, upload, Up!RowsOf
    <2> QED BY <1>1, <2>1 DEF Inv, ClearedStayFit, Waits, Sendable
<1> QED BY <1>2, <1>3, <1>4 DEF Inv

(* What the processor lets through has both consents, and a click id or    *)
(* digests, whichever row and message it decides on.                       *)
LEMMA OnlyFitIsPassed ==
    ASSUME Inv, NEW w \in Workers, worker[w].step = "read",
           worker[w].message.event \in Event,
           In!Verdict(worker[w], lead[worker[w].message.event]) = "PROCESSED"
    PROVE  LET e == worker[w].message.event IN
           /\ lead[e].consent.ad_user_data = "GRANTED"
           /\ lead[e].consent.ad_personalization = "GRANTED"
           /\ In!Digests(worker[w]) \in {"digests", "blank"}
           /\ lead[e].click \/ In!Digests(worker[w]) = "digests"
<1> DEFINE job == worker[w]
           e == job.message.event
<1>1. In!Permitted(lead[e].consent)
    BY DEF In!Verdict
<1>2. /\ lead[e].consent.ad_user_data = "GRANTED"
      /\ lead[e].consent.ad_personalization = "GRANTED"
    BY <1>1 DEF In!Permitted, In!Decision, In!Blocks
<1>3. /\ job.message.ids \in In!IdKinds
      /\ job.hashed \in In!HashedKinds
      /\ job.hashed = "blank" => lead[e].click
    BY DEF Inv, MessagesSpeak, BlanksHaveClicks, JobOK
<1>4. CASE In!Reuses(job)
    BY <1>2, <1>3, <1>4 DEF In!Reuses, In!Digests, In!HashedKinds
<1>5. CASE ~In!Reuses(job)
    <2>1. ~In!Rejects(job.message.ids, lead[e])
        BY <1>1, <1>5 DEF In!Verdict
    <2>2. job.message.ids = "good" \/ lead[e].click
        BY <2>1, <1>3 DEF In!Rejects, In!IdKinds
    <2> QED BY <1>2, <1>5, <2>2 DEF In!Digests
<1> QED BY <1>4, <1>5

LEMMA ProcessKeepsInv ==
    ASSUME Inv, NEW w \in Workers, Intakes(In!Process(w))
    PROVE  Inv'
<1> DEFINE e == worker[w].message.event
           v == In!Verdict(worker[w], lead[e])
<1>1. /\ worker[w].step = "read"
      /\ status' = [status EXCEPT ![e] = v]
      /\ hashed' = IF v = "PROCESSED"
                   THEN [hashed EXCEPT ![e] = In!Digests(worker[w])] ELSE hashed
      /\ UNCHANGED <<lead, outbox, queue, upload>>
      /\ DOMAIN worker' = Workers /\ worker'[w].step # "read"
      /\ \A x \in Workers : x # w => worker'[x] = worker[x]
    BY DEF Inv, Shape, Intakes, In!Process
<1>2. v \in {"SUPPRESSED", "REJECTED", "PROCESSED"}
    BY DEF In!Verdict
<1>3. \A x \in Event : x # e => status'[x] = status[x] /\ hashed'[x] = hashed[x]
    BY <1>1 DEF Inv, Shape
<1>4. e \in Event => status'[e] = v
    BY <1>1 DEF Inv, Shape
<1>5. e \in Event /\ v = "PROCESSED" =>
        /\ lead[e].consent.ad_user_data = "GRANTED"
        /\ lead[e].consent.ad_personalization = "GRANTED"
        /\ hashed'[e] \in {"digests", "blank"}
        /\ lead[e].click \/ hashed'[e] = "digests"
    <2>1. HAVE e \in Event /\ v = "PROCESSED"
    <2>2. hashed'[e] = In!Digests(worker[w])
        BY <1>1, <2>1 DEF Inv, Shape
    <2> QED BY <1>1, <2>1, <2>2, OnlyFitIsPassed
<1>6. v # "PROCESSED" => hashed' = hashed
    BY <1>1
<1> HIDE DEF v
<1>7. Shape'
    <2>1. DOMAIN status' = Event /\ DOMAIN hashed' = Event
        BY <1>1 DEF Inv, Shape
    <2> QED BY <1>1, <2>1 DEF Inv, Shape, upload
<1>8. MessagesSpeak'
    BY <1>1, <1>2, <1>3, <1>4 DEF Inv, MessagesSpeak
<1>9. BlanksHaveClicks'
    <2>1. ASSUME NEW x \in Event PROVE RowOK(x)'
        BY <1>1, <1>2, <1>3, <1>4, <1>5, <1>6
        DEF Inv, BlanksHaveClicks, RowOK, In!HashedKinds
    <2>2. ASSUME NEW x \in Workers PROVE JobOK(x)'
        BY <1>1, <1>2, <1>3, <1>4 DEF Inv, BlanksHaveClicks, JobOK
    <2> QED BY <2>1, <2>2 DEF BlanksHaveClicks
<1>10. Sent' = Sent
    BY <1>1 DEF Sent, upload, Up!RowsOf
<1>11. ASSUME NEW x \in Event, Waits(x)' \/ x \in Sent'
       PROVE  Sendable(x)' /\ status'[x] # "ABSENT"
    <2>1. CASE x # e
        BY <1>1, <1>3, <1>10, <1>11, <2>1 DEF Inv, ClearedStayFit, Waits, Sendable
    <2>2. CASE x = e /\ v = "PROCESSED"
        BY <1>1, <1>4, <1>5, <2>2 DEF Sendable
    <2>3. CASE x = e /\ v # "PROCESSED"
        <3>1. x \in Sent /\ hashed' = hashed /\ status'[x] # "ABSENT"
            BY <1>2, <1>4, <1>6, <1>10, <1>11, <2>3 DEF Waits
        <3> QED BY <1>1, <3>1 DEF Inv, ClearedStayFit, Sendable
    <2> QED BY <2>1, <2>2, <2>3
<1> QED BY <1>7, <1>8, <1>9, <1>10, <1>11 DEF Inv, ClearedStayFit

LEMMA WorkKeepsInv ==
    ASSUME Inv, NEW w \in Workers, Intakes(In!Work(w))
    PROVE  Inv'
<1>1. ASSUME NEW m \in queue, In!Receive(w, m) PROVE Inv'
    BY <1>1, ReceiveKeepsInv DEF Intakes
<1>2. CASE In!Process(w)
    BY <1>2, ProcessKeepsInv DEF Intakes
<1>3. CASE In!Skip(w) \/ In!Ack(w) \/ In!Redeliver(w)
    BY <1>3, RestingKeepsInv DEF Intakes
<1> QED BY <1>1, <1>2, <1>3 DEF In!Work, Intakes

-----------------------------------------------------------------------------
(* The operator                                                            *)

(* Both commands publish without identifiers before anything commits.      *)
LEMMA RepublishKeepsInv ==
    ASSUME Inv,
           UNCHANGED <<status, lead, hashed, outbox, worker, upload>>,
           queue' = queue \/ \E e : queue' = queue \cup {In!EmptyMessage(e)}
    PROVE  Inv'
<1>1. \A m \in queue' : m \in queue \/ m.ids \in In!IdKinds
    BY DEF In!EmptyMessage, In!IdKinds
<1> QED BY <1>1, QueueKeepsInv

LEMMA ReconcileKeepsInv ==
    ASSUME Inv, Intakes(In!Reconcile)
    PROVE  Inv'
BY RepublishKeepsInv
DEF Intakes, In!Reconcile, In!ReconcileRead, In!ReconcilePublish, In!ReconcileAbort, In!ledger

LEMMA ReplayStartKeepsInv ==
    ASSUME Inv, NEW o \in Operators,
           Intakes(In!ReplayRead(o) \/ In!ReplayPublish(o) \/ In!ReplayAbort(o))
    PROVE  Inv'
BY RepublishKeepsInv
DEF Intakes, In!ReplayRead, In!ReplayPublish, In!ReplayAbort, In!ledger

(* A replay that commits puts the row back before the processor.           *)
LEMMA ReplayKeepsInv ==
    ASSUME Inv, NEW o \in Operators, ReplayCommit(o)
    PROVE  Inv'
<1> DEFINE e == operator[o].event
<1>1. /\ status' = [status EXCEPT ![e] = "QUEUED"]
      /\ UNCHANGED <<lead, hashed, outbox, queue, worker, upload>>
    BY DEF ReplayCommit, In!ReplayCommit
<1>2. \A x \in Event : status'[x] = status[x] \/ status'[x] = "QUEUED"
    BY <1>1 DEF Inv, Shape
<1>3. Shape' /\ MessagesSpeak'
    <2>1. DOMAIN status' = Event
        BY <1>1 DEF Inv, Shape
    <2> QED BY <1>1, <1>2, <2>1 DEF Inv, Shape, MessagesSpeak, upload
<1>4. BlanksHaveClicks'
    BY <1>1, <1>2 DEF Inv, BlanksHaveClicks, RowOK, JobOK
<1>5. Sent' = Sent
    BY <1>1 DEF Sent, upload, Up!RowsOf
<1>6. ClearedStayFit'
    BY <1>1, <1>2, <1>5 DEF Inv, ClearedStayFit, Waits, Sendable
<1> QED BY <1>3, <1>4, <1>6 DEF Inv

-----------------------------------------------------------------------------
(* The upload stage                                                        *)

(* What a step of an uploader may do: take up rows that wait, and move     *)
(* rows that wait or were sent.                                            *)
Handled(e) == Waits(e) \/ e \in Sent

Uploading ==
    /\ UNCHANGED <<lead, hashed, outbox, queue, worker>>
    /\ DOMAIN status' = Event /\ DOMAIN batch' = Uploaders
    /\ \A u \in Uploaders : batch'[u] \in Seq(Event)
    /\ Sent' \subseteq Event
    /\ \A e \in Sent' : Handled(e)
    /\ \A e \in Event :
        status'[e] = status[e] \/ (Handled(e) /\ status'[e] # "ABSENT")

LEMMA UploadingKeepsInv ==
    ASSUME Inv, Uploading
    PROVE  Inv'
<1>1. Shape' /\ MessagesSpeak'
    BY DEF Inv, Shape, MessagesSpeak, Uploading
<1>2. BlanksHaveClicks'
    BY DEF Inv, BlanksHaveClicks, RowOK, JobOK, Uploading
<1>3. ASSUME NEW e \in Event, Waits(e)' \/ e \in Sent'
      PROVE  Sendable(e)' /\ status'[e] # "ABSENT"
    <2>1. Handled(e)
        BY <1>3 DEF Uploading, Waits, Handled
    <2> QED BY <2>1 DEF Inv, ClearedStayFit, Handled, Sendable, Uploading
<1> QED BY <1>1, <1>2, <1>3 DEF Inv, ClearedStayFit, Uploading

(* The rows of an uploader are events, and all of them count as sent.      *)
LEMMA RowsAreSent ==
    ASSUME Inv, NEW u \in Uploaders
    PROVE  Up!RowsOf(u) \subseteq Sent
BY DEF Sent

(* An order of the rows of a set has no other rows.                        *)
LEMMA OrdersHoldTheRows ==
    ASSUME NEW S, IsFiniteSet(S), NEW q \in Up!SetToSeqs(S)
    PROVE  q \in Seq(S)
<1>1. Cardinality(S) \in Nat
    BY FS_CardinalityType
<1>2. Up!Cardinality(S) = Cardinality(S)
    BY DEF Cardinality, Up!Cardinality
<1>3. q \in [1..Cardinality(S) -> S]
    BY <1>2 DEF Up!SetToSeqs
<1> QED BY <1>1, <1>3

(* Appending to a batch adds the rows appended.                            *)
LEMMA RowsAppended ==
    ASSUME NEW b \in Seq(Event), NEW S \in SUBSET Event, NEW q \in Seq(S)
    PROVE  /\ b \o q \in Seq(Event)
           /\ \A i \in DOMAIN (b \o q) :
                (\E j \in DOMAIN b : (b \o q)[i] = b[j]) \/ (b \o q)[i] \in S
<1>1. q \in Seq(Event)
    OBVIOUS
<1>2. /\ Len(b) \in Nat /\ Len(q) \in Nat
      /\ DOMAIN b = 1..Len(b) /\ DOMAIN q = 1..Len(q)
      /\ b \o q \in Seq(Event)
      /\ DOMAIN (b \o q) = 1..(Len(b) + Len(q))
      /\ \A i \in 1..Len(b) : (b \o q)[i] = b[i]
      /\ \A i \in (Len(b) + 1)..(Len(b) + Len(q)) : (b \o q)[i] = q[i - Len(b)]
    BY <1>1, ConcatProperties, LenProperties
<1>3. ASSUME NEW i \in 1..(Len(b) + Len(q)), i > Len(b)
      PROVE  (b \o q)[i] \in S
    <2>1. i \in (Len(b) + 1)..(Len(b) + Len(q)) /\ i - Len(b) \in 1..Len(q)
        BY <1>2, <1>3
    <2>2. q[i - Len(b)] \in S
        BY <1>2, <2>1, ElementOfSeq
    <2> QED BY <1>2, <2>1, <2>2
<1>4. ASSUME NEW i \in 1..(Len(b) + Len(q)), i <= Len(b)
      PROVE  \E j \in DOMAIN b : (b \o q)[i] = b[j]
    BY <1>2, <1>4
<1> QED BY <1>2, <1>3, <1>4

LEMMA ClaimTakesWaiting ==
    ASSUME Inv, NEW u \in Uploaders, Uploads(Up!Claim(u))
    PROVE  Uploading
<1>1. PICK S \in SUBSET Event : Up!ClaimRows(u, S)
    BY DEF Uploads, Up!Claim
<1> DEFINE poison == {e \in S : Up!OverCeiling(Up!Attempted(attempt_count[e]))}
<1>2. PICK q \in Up!SetToSeqs(S \ poison) : batch' = [batch EXCEPT ![u] = @ \o q]
    BY <1>1 DEF Up!ClaimRows
<1>3. /\ UNCHANGED <<lead, hashed, outbox, queue, worker, accepted, late>>
      /\ DOMAIN status' = Event
      /\ \A e \in Event : e \notin S => status'[e] = status[e]
      /\ \A e \in S : status'[e] # "ABSENT"
    BY <1>1 DEF Uploads, intake, Up!ClaimRows, Up!platform
<1>4. \A e \in S : Waits(e)
    BY <1>1 DEF Up!ClaimRows, Up!Ready, Up!Stale, Waits
<1>5. q \in Seq(S)
    <2>1. IsFiniteSet(S \ poison)
        BY EventAssumption, FS_Subset
    <2>2. q \in Seq(S \ poison)
        BY <2>1, OrdersHoldTheRows
    <2> QED BY <2>2
<1> DEFINE longer == batch[u] \o q
<1>6. /\ longer \in Seq(Event)
      /\ \A i \in DOMAIN longer :
            (\E j \in DOMAIN batch[u] : longer[i] = batch[u][j]) \/ longer[i] \in S
    BY <1>5, RowsAppended DEF Inv, Shape
<1>7. /\ DOMAIN batch' = Uploaders /\ batch'[u] = longer
      /\ \A v \in Uploaders : v # u => batch'[v] = batch[v]
    BY <1>2 DEF Inv, Shape
<1> HIDE DEF longer
<1>8. ASSUME NEW v \in Uploaders
      PROVE  Up!RowsOf(v)' \subseteq Sent \cup S
    <2>1. CASE v = u
        <3>1. \A i \in DOMAIN longer : longer[i] \in Up!RowsOf(u) \cup S
            BY <1>6 DEF Up!RowsOf
        <3> QED BY <1>7, <2>1, <3>1, RowsAreSent DEF Up!RowsOf
    <2>2. CASE v # u
        <3>1. Up!RowsOf(v)' = Up!RowsOf(v)
            BY <1>7, <2>2 DEF Up!RowsOf
        <3> QED BY <3>1, RowsAreSent
    <2> QED BY <2>1, <2>2
<1>9. Sent' \subseteq Sent \cup S
    BY <1>3, <1>8 DEF Sent
<1>10. \A v \in Uploaders : batch'[v] \in Seq(Event)
    BY <1>6, <1>7 DEF Inv, Shape
<1> QED
    BY <1>3, <1>4, <1>7, <1>9, <1>10
    DEF Uploading, Handled, Inv, ClearedStayFit

(* Every other step of an uploader works on the rows it has: it keeps its  *)
(* batch or lays it down, and what the platform has or may yet take comes  *)
(* from a batch.                                                           *)
Works ==
    /\ UNCHANGED <<lead, hashed, outbox, queue, worker>>
    /\ DOMAIN batch' = Uploaders
    /\ \A u \in Uploaders : batch'[u] = batch[u] \/ batch'[u] = <<>>
    /\ accepted' \subseteq Sent /\ late' \subseteq Sent
    /\ DOMAIN status' = Event
    /\ \A e \in Event :
        status'[e] = status[e] \/ (e \in Sent /\ status'[e] # "ABSENT")

LEMMA WorksIsUploading ==
    ASSUME Inv, Works
    PROVE  Uploading
<1>1. ASSUME NEW u \in Uploaders
      PROVE  batch'[u] \in Seq(Event) /\ Up!RowsOf(u)' \subseteq Sent
    <2>1. CASE batch'[u] = batch[u]
        BY <2>1, RowsAreSent DEF Up!RowsOf, Inv, Shape
    <2>2. CASE batch'[u] = <<>>
        BY <2>2 DEF Up!RowsOf
    <2> QED BY <2>1, <2>2 DEF Works
<1>2. Sent' \subseteq Sent
    BY <1>1 DEF Works, Sent
<1> QED
    BY <1>1, <1>2 DEF Works, Uploading, Handled, Inv, ClearedStayFit

(* The batch is laid down.                                                 *)
LEMMA FinishLaysDown ==
    ASSUME Inv, NEW u \in Uploaders, NEW where, Up!Finish(u, where)
    PROVE  /\ DOMAIN batch' = Uploaders
           /\ \A v \in Uploaders : batch'[v] = batch[v] \/ batch'[v] = <<>>
BY DEF Inv, Shape, Up!Finish

LEMMA SentNow == accepted \subseteq Sent /\ late \subseteq Sent
BY DEF Sent

(* The outcome a row gets is one transition allows, so it is a status.     *)
LEMMA OutcomeIsStatus ==
    ASSUME NEW u \in Uploaders, Up!ApplyAllowed(u), NEW i \in DOMAIN batch[u]
    PROVE  Up!Outcome[Up!ResultAt(u, i)] # "ABSENT"
<1>1. Up!CanMove(Up!StatusBefore(u, i), Up!Outcome[Up!ResultAt(u, i)])
    BY DEF Up!ApplyAllowed
<1> QED BY <1>1 DEF Up!CanMove, Up!AllowedTransitions

LEMMA RequestWorks ==
    ASSUME Inv, NEW u \in Uploaders, Uploads(Up!Request(u))
    PROVE  Works
<1>1. /\ UNCHANGED <<lead, hashed, outbox, queue, worker, status, batch>>
      /\ late' = late \/ late' = late \cup Up!RowsOf(u)
      /\ accepted' = accepted \/ accepted' \subseteq accepted \cup Up!RowsOf(u)
    <2>1. CASE Up!Respond(u)
        <3>1. accepted' \subseteq accepted \cup Up!RowsOf(u)
            BY <2>1 DEF Up!Respond, Up!RowsOf
        <3> QED BY <2>1, <3>1 DEF Uploads, intake, Up!Respond, Up!ledger
    <2>2. CASE Up!Unavailable(u) \/ Up!NoAnswer(u) \/ Up!Refuse(u)
        BY <2>2 DEF Uploads, intake, Up!Unavailable, Up!NoAnswer, Up!Refuse,
            Up!ledger, Up!platform
    <2> QED BY <2>1, <2>2 DEF Uploads, Up!Request
<1> QED BY <1>1, SentNow, RowsAreSent DEF Works, Inv, Shape

LEMMA CommitWorks ==
    ASSUME Inv, NEW u \in Uploaders, Uploads(Up!Commit(u))
    PROVE  Works
<1>1. Up!RowsOf(u) \subseteq Sent
    BY RowsAreSent
<1>2. CASE Up!CommitRetry(u)
    BY <1>2, SentNow
    DEF Uploads, intake, Up!CommitRetry, Up!platform, Works, Inv, Shape
<1>3. CASE Up!Illegal(u)
    BY <1>3, SentNow, FinishLaysDown
    DEF Uploads, intake, Up!Illegal, Up!ledger, Up!platform, Works, Inv, Shape
<1>4. CASE Up!CommitDead(u)
    BY <1>1, <1>4, SentNow, FinishLaysDown
    DEF Uploads, intake, Up!CommitDead, Up!platform, Works
<1>5. CASE Up!CommitApply(u)
    <2>1. PICK last \in Up!LastPositions(u) :
            status' = [e \in Event |->
                IF e \in Up!RowsOf(u) THEN Up!Outcome[Up!ResultAt(u, last[e])]
                ELSE status[e]]
        BY <1>5 DEF Up!CommitApply
    <2>2. \A e \in Up!RowsOf(u) : last[e] \in DOMAIN batch[u]
        BY <2>1 DEF Up!LastPositions
    <2>3. \A e \in Up!RowsOf(u) : Up!Outcome[Up!ResultAt(u, last[e])] # "ABSENT"
        BY <1>5, <2>2, OutcomeIsStatus DEF Up!CommitApply
    <2>4. /\ DOMAIN status' = Event
          /\ \A e \in Event :
                status'[e] = status[e] \/ (e \in Sent /\ status'[e] # "ABSENT")
        BY <1>1, <2>1, <2>3
    <2>5. /\ UNCHANGED <<lead, hashed, outbox, queue, worker, accepted, late>>
          /\ Up!Finish(u, "idle")
        BY <1>5 DEF Uploads, intake, Up!CommitApply, Up!platform
    <2> QED BY <2>4, <2>5, SentNow, FinishLaysDown DEF Works
<1> QED BY <1>2, <1>3, <1>4, <1>5 DEF Uploads, Up!Commit

LEMMA ProgressWorks ==
    ASSUME Inv, NEW u \in Uploaders, Uploads(Up!Progress(u))
    PROVE  Works
<1>1. CASE Up!FlushIfDue(u) \/ Up!Load(u)
    BY <1>1, SentNow
    DEF Uploads, intake, Up!FlushIfDue, Up!Load, Up!ledger, Up!platform, Works, Inv, Shape
<1> QED BY <1>1, RequestWorks, CommitWorks DEF Uploads, Up!Progress

LEMMA StopWorks ==
    ASSUME Inv, NEW u \in Uploaders, Uploads(Up!Crash(u) \/ Up!Restart(u))
    PROVE  Works
<1>1. CASE Up!Crash(u)
    BY <1>1, SentNow, RowsAreSent, FinishLaysDown
    DEF Uploads, intake, Up!Crash, Up!ledger, Works, Inv, Shape
<1>2. CASE Up!Restart(u)
    BY <1>2, SentNow
    DEF Uploads, intake, Up!Restart, Up!ledger, Up!platform, Works, Inv, Shape
<1> QED BY <1>1, <1>2 DEF Uploads

LEMMA LateWorks ==
    ASSUME Inv, NEW e \in Event, Uploads(Up!LateAccept(e))
    PROVE  Works
BY SentNow DEF Uploads, intake, Up!LateAccept, Up!ledger, Up!process, Works, Inv, Shape

-----------------------------------------------------------------------------
(* The gateway                                                             *)

LEMMA InitInv == Init => Inv
<1> SUFFICES ASSUME Init PROVE Inv
    OBVIOUS
<1> USE DEF Init
<1>1. Sent = {}
    BY DEF Sent, Up!RowsOf
<1>2. Shape /\ MessagesSpeak
    BY DEF Shape, MessagesSpeak, In!Resting
<1>3. BlanksHaveClicks
    BY DEF BlanksHaveClicks, RowOK, JobOK, In!HashedKinds, In!Resting
<1>4. ClearedStayFit
    BY <1>1 DEF ClearedStayFit, Waits
<1> QED BY <1>2, <1>3, <1>4 DEF Inv

LEMMA NextInv == Inv /\ [Next]_vars => Inv'
<1> SUFFICES ASSUME Inv, [Next]_vars PROVE Inv'
    OBVIOUS
<1>1. ASSUME NEW e \in Event, Intakes(In!Ingest(e)) PROVE Inv'
    BY <1>1, IngestKeepsInv
<1>2. ASSUME NEW w \in Workers, Intakes(In!Work(w)) PROVE Inv'
    BY <1>2, WorkKeepsInv
<1>3. CASE Intakes(In!Reconcile)
    BY <1>3, ReconcileKeepsInv
<1>4. ASSUME NEW o \in Operators,
             \/ Intakes(In!ReplayRead(o) \/ In!ReplayPublish(o) \/ In!ReplayAbort(o))
             \/ ReplayCommit(o)
      PROVE  Inv'
    BY <1>4, ReplayStartKeepsInv, ReplayKeepsInv
<1>5. ASSUME NEW u \in Uploaders,
             Uploads(Up!Claim(u) \/ Up!Progress(u) \/ Up!Crash(u) \/ Up!Restart(u))
      PROVE  Inv'
    <2>1. Uploading
        BY <1>5, ClaimTakesWaiting, ProgressWorks, StopWorks, WorksIsUploading DEF Uploads
    <2> QED BY <2>1, UploadingKeepsInv
<1>6. ASSUME NEW e \in Event, Uploads(Up!LateAccept(e)) PROVE Inv'
    BY <1>6, LateWorks, WorksIsUploading, UploadingKeepsInv
<1>7. CASE UNCHANGED vars
    <2>1. UNCHANGED <<status, lead, hashed, worker, upload, outbox, queue>>
        BY <1>7 DEF vars, intake
    <2> QED BY <2>1, QueueKeepsInv
<1> QED BY <1>1, <1>2, <1>3, <1>4, <1>5, <1>6, <1>7 DEF Next

(* Every event the platform has, may yet take or is about to be sent has   *)
(* both consents and something to match it by, whatever is republished and *)
(* replayed and however workers and uploaders overlap                      *)
(* (processor.process_message, Uploader.upload_batch).                     *)
THEOREM OnlyPermittedReachesPlatform == Spec => []OnlyPermittedIsSent
<1>1. Inv => OnlyPermittedIsSent
    BY DEF Inv, ClearedStayFit, Sent, Sendable, OnlyPermittedIsSent
<1> QED BY InitInv, NextInv, <1>1, PTL DEF Spec

=============================================================================
