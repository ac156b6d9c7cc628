---------------------------- MODULE IntakeProofs ----------------------------
(***************************************************************************)
(* Proofs about the intake stage for any number of events, workers and     *)
(* operators: what races between workers and operators cannot break.       *)
(***************************************************************************)
EXTENDS Intake, TLAPS

-----------------------------------------------------------------------------
(* The inductive invariant                                                 *)

(* A row is blank until a request creates it, past REJECTED only if a      *)
(* valid request did, and has empty digests only beside a click id.        *)
RowSound(e) ==
    /\ status[e] = "ABSENT" => lead[e] = NoLead /\ hashed[e] = "null"
    /\ status[e] \notin {"ABSENT", "REJECTED"} => lead[e] \in Leads
    /\ hashed[e] = "blank" => lead[e].click
    /\ e \in outbox => lead[e] \in Leads
    /\ e \in stuck => lead[e] \in Leads /\ Recoverable(e)

(* A message says what the lead said, or nothing; one that says less than  *)
(* its lead did was only sent because the row makes up for it.             *)
MessageSound(m, digests) ==
    /\ lead[m.event] \in Leads
    /\ m.ids \in {lead[m.event].ids, "none"}
    /\ m.ids = "none" /\ lead[m.event].ids # "none" =>
            lead[m.event].click \/ digests # "null"

JobSound(w) ==
    worker[w].step = "read" =>
        /\ MessageSound(worker[w].message, worker[w].hashed)
        /\ worker[w].hashed = "blank" => lead[worker[w].message.event].click

ReplaySound(o) ==
    ~Idle(operator[o]) =>
        lead[operator[o].event] \in Leads /\ Recoverable(operator[o].event)

(* What the platform may be sent.                                          *)
Fit(e) ==
    /\ lead[e] \in Leads
    /\ lead[e].consent.ad_user_data = "GRANTED"
    /\ lead[e].consent.ad_personalization = "GRANTED"
    /\ lead[e].click \/ hashed[e] = "digests"

(* An uploader writes over a row whatever it has become since; it stays    *)
(* fit for what is written.                                                *)
LoadedSound(u) == \A e \in loaded[u] : Fit(e)

Sound ==
    /\ \A e \in Event : RowSound(e)
    /\ \A m \in queue : MessageSound(m, hashed[m.event])
    /\ \A w \in Workers : JobSound(w)
    /\ \A o \in Operators : ReplaySound(o)
    /\ \A u \in Uploaders : LoadedSound(u)

Safe == TypeOK /\ Sound /\ ConsentGate /\ MatchKeyPresent /\ RejectedForCause

-----------------------------------------------------------------------------
(* Facts about rows, jobs and replays                                      *)

(* The gate fails closed: only two GRANTED signals pass                    *)
(* (consent.gate.evaluate_consent).                                        *)
LEMMA GateFailsClosed ==
    ASSUME NEW consent, Permitted(consent)
    PROVE  /\ consent.ad_user_data = "GRANTED"
           /\ consent.ad_personalization = "GRANTED"
BY DEF Permitted, Decision, Blocks

(* What a valid lead is made of.                                           *)
LEMMA LeadFields ==
    ASSUME NEW l \in Leads
    PROVE  /\ l.consent \in Consents /\ l.click \in BOOLEAN /\ l.ids \in IdKinds
           /\ l # NoLead /\ l # Garbage
<1>1. l \in LeadType
  BY LeadsAssumption
<1>2. NoLead.ids = "no row" /\ Garbage.ids = "invalid"
  BY DEF NoLead, Garbage, Blank
<1>3. l.consent \in Consents /\ l.click \in BOOLEAN /\ l.ids \in IdKinds
  BY <1>1 DEF LeadType
<1>4. l.ids # "no row" /\ l.ids # "invalid"
  BY <1>3 DEF IdKinds
<1> QED
  BY <1>2, <1>3, <1>4

(* What a worker holds between its read and its commit.                    *)
LEMMA JobFields ==
    ASSUME TypeOK, NEW w \in Workers, worker[w].step = "read"
    PROVE  /\ worker[w].message \in Messages
           /\ worker[w].message.event \in Event
           /\ worker[w].message.ids \in IdKinds
           /\ worker[w].status \in Statuses \cup {"ABSENT"}
           /\ worker[w].hashed \in HashedKinds
<1>1. worker[w] \in [step : {"read"}, message : Messages,
                     status : Statuses \cup {"ABSENT"}, hashed : HashedKinds]
  BY DEF TypeOK, Jobs, Resting
<1> QED
  BY <1>1 DEF Messages

(* What a worker holds until its acknowledgement.                          *)
LEMMA AckFields ==
    ASSUME TypeOK, NEW w \in Workers, worker[w].step = "ack"
    PROVE  worker[w].message \in Messages
BY DEF TypeOK, Jobs, Resting

(* What a replay holds between its read and its commit.                    *)
LEMMA ReplayFields ==
    ASSUME TypeOK, NEW o \in Operators, ~Idle(operator[o])
    PROVE  /\ operator[o].event \in Event /\ operator[o].row \in Nat
           /\ operator[o] \in [step : {"read", "published"}, event : Event, row : Nat]
BY DEF TypeOK, Replays, Resting, Idle

(* No step changes what a valid row was created from, or takes its digests *)
(* away altogether.                                                        *)
RowsGrow ==
    \A e \in Event : /\ lead[e] \in Leads => lead'[e] = lead[e]
                     /\ hashed[e] # "null" => hashed'[e] # "null"

(* What was sound before such a step, and is left alone by it, stays so.   *)
LEMMA MessageStaysSound ==
    ASSUME RowsGrow, NEW m \in Messages, MessageSound(m, hashed[m.event])
    PROVE  MessageSound(m, hashed[m.event])'
<1>1. m.event \in Event
  BY DEF Messages
<1> QED
  BY <1>1 DEF RowsGrow, MessageSound

(* What a worker already holds outlives such a step.                       *)
LEMMA JobStaysSound ==
    ASSUME TypeOK, RowsGrow, NEW w \in Workers, JobSound(w), worker'[w] = worker[w]
    PROVE  JobSound(w)'
<1>1. SUFFICES ASSUME worker[w].step = "read" PROVE JobSound(w)'
  BY DEF JobSound
<1>2. worker[w].message.event \in Event
  BY <1>1, JobFields
<1> QED
  BY <1>1, <1>2 DEF RowsGrow, MessageSound, JobSound

(* So does a replay under way.                                             *)
LEMMA ReplayStaysSound ==
    ASSUME TypeOK, RowsGrow, NEW o \in Operators, ReplaySound(o),
           operator'[o] = operator[o]
    PROVE  ReplaySound(o)'
<1>1. SUFFICES ASSUME ~Idle(operator[o]) PROVE ReplaySound(o)'
  BY DEF ReplaySound, Idle
<1>2. operator[o].event \in Event
  BY <1>1, ReplayFields
<1> QED
  BY <1>1, <1>2 DEF RowsGrow, ReplaySound, Recoverable

(* So do the rows an uploader has read, if their digests are left alone.   *)
LEMMA LoadedStaysSound ==
    ASSUME TypeOK, RowsGrow, UNCHANGED hashed, NEW u \in Uploaders, LoadedSound(u),
           loaded'[u] \subseteq loaded[u]
    PROVE  LoadedSound(u)'
<1>1. ASSUME NEW e \in loaded'[u] PROVE Fit(e)'
  <2>1. e \in Event /\ Fit(e)
    BY <1>1 DEF TypeOK, LoadedSound
  <2> QED
    BY <2>1 DEF RowsGrow, Fit
<1> QED
  BY <1>1 DEF LoadedSound

-----------------------------------------------------------------------------
(* Each action preserves the invariant                                     *)

(* A step that leaves the rows alone, sends nothing unsound and takes      *)
(* nothing unsound in hand.                                                *)
LEMMA QuietStep ==
    ASSUME Safe, TypeOK', UNCHANGED <<status, lead, hashed>>,
           outbox' \subseteq outbox,
           \A e \in stuck' : e \in stuck \/ (lead[e] \in Leads /\ Recoverable(e)),
           \A m \in queue' : m \in queue \/ MessageSound(m, hashed[m.event]),
           \A w \in Workers : worker'[w] = worker[w] \/ JobSound(w)',
           \A o \in Operators : operator'[o] = operator[o] \/ ReplaySound(o)',
           \A u \in Uploaders : loaded'[u] \subseteq loaded[u] \/ LoadedSound(u)'
    PROVE  Safe'
<1> USE DEF Safe
<1>1. RowsGrow
  BY DEF RowsGrow
<1>2. ConsentGate' /\ MatchKeyPresent' /\ RejectedForCause'
  BY DEF ConsentGate, MatchKeyPresent, RejectedForCause
<1>3. ASSUME NEW e \in Event PROVE RowSound(e)'
  BY DEF Sound, RowSound, Recoverable
<1>4. ASSUME NEW m \in queue' PROVE MessageSound(m, hashed[m.event])'
  BY DEF Sound, MessageSound
<1>5. ASSUME NEW w \in Workers PROVE JobSound(w)'
  BY <1>1, JobStaysSound DEF Sound
<1>6. ASSUME NEW o \in Operators PROVE ReplaySound(o)'
  BY <1>1, ReplayStaysSound DEF Sound
<1>7. ASSUME NEW u \in Uploaders PROVE LoadedSound(u)'
  BY <1>1, LoadedStaysSound DEF Sound
<1> QED
  BY <1>2, <1>3, <1>4, <1>5, <1>6, <1>7 DEF Sound

(* Nothing exists at first.                                                *)
LEMMA InitSafe == Init => Safe
<1> SUFFICES ASSUME Init PROVE Safe
  OBVIOUS
<1>1. TypeOK
  BY DEF Init, TypeOK, Jobs, Replays, HashedKinds
<1>2. Sound
  BY DEF Init, Sound, RowSound, JobSound, ReplaySound, LoadedSound, Resting, Idle, Statuses
<1>3. ConsentGate /\ MatchKeyPresent /\ RejectedForCause
  BY DEF Init, ConsentGate, MatchKeyPresent, RejectedForCause, PastGate
<1> QED
  BY <1>1, <1>2, <1>3 DEF Safe

(* A new row: nothing refers to it yet.                                    *)
LEMMA IngestNewSafe ==
    ASSUME Safe, NEW e \in Event, IngestNew(e)
    PROVE  Safe'
<1> USE DEF Safe
<1>1. PICK l \in Leads : lead' = [lead EXCEPT ![e] = l]
  BY DEF IngestNew
<1>2. status[e] = "ABSENT" /\ status' = [status EXCEPT ![e] = "QUEUED"]
  BY DEF IngestNew, Inserted
<1>3. TypeOK'
  BY <1>1, <1>2 DEF IngestNew, TypeOK, Statuses
<1>4. lead[e] = NoLead /\ hashed[e] = "null" /\ lead[e] \notin Leads
  BY <1>2, LeadFields DEF Sound, RowSound
<1>5. RowsGrow
  BY <1>1, <1>4 DEF RowsGrow, TypeOK, IngestNew
<1>6. ASSUME NEW x \in Event PROVE RowSound(x)'
  BY <1>1, <1>2, <1>4, <1>6 DEF Sound, RowSound, Recoverable, TypeOK, IngestNew
<1>7. ASSUME NEW m \in queue' PROVE MessageSound(m, hashed[m.event])'
  BY <1>5, MessageStaysSound DEF Sound, TypeOK, IngestNew
<1>8. ASSUME NEW w \in Workers PROVE JobSound(w)'
  BY <1>5, JobStaysSound DEF Sound, IngestNew
<1>9. ASSUME NEW o \in Operators PROVE ReplaySound(o)'
  BY <1>5, ReplayStaysSound DEF Sound, IngestNew
<1>10. ASSUME NEW u \in Uploaders PROVE LoadedSound(u)'
  BY <1>5, LoadedStaysSound DEF Sound, IngestNew
<1>11. ConsentGate' /\ MatchKeyPresent' /\ RejectedForCause'
  BY <1>1, <1>2 DEF ConsentGate, MatchKeyPresent, RejectedForCause, PastGate, TypeOK,
                    IngestNew
<1> QED
  BY <1>3, <1>6, <1>7, <1>8, <1>9, <1>10, <1>11 DEF Sound

(* A request that does not validate creates a row nothing is sent for.     *)
LEMMA IngestInvalidSafe ==
    ASSUME Safe, NEW e \in Event, IngestInvalid(e)
    PROVE  Safe'
<1> USE DEF Safe
<1>1. CASE status[e] # "ABSENT"
  <2>1. UNCHANGED <<ledger, outbox, queue, stuck, worker, operator, loaded>>
    BY <1>1 DEF IngestInvalid, ledger
  <2>2. TypeOK'
    BY <2>1 DEF IngestInvalid, TypeOK, ledger
  <2> QED
    BY <2>1, <2>2, QuietStep DEF ledger
<1>2. CASE status[e] = "ABSENT"
  <2>1. /\ status' = [status EXCEPT ![e] = "REJECTED"]
        /\ lead' = [lead EXCEPT ![e] = Garbage]
    BY <1>2 DEF IngestInvalid
  <2>2. TypeOK'
    BY <2>1 DEF IngestInvalid, TypeOK, Statuses
  <2>3. lead[e] = NoLead /\ hashed[e] = "null" /\ lead[e] \notin Leads
    BY <1>2, LeadFields DEF Sound, RowSound
  <2>4. RowsGrow
    BY <2>1, <2>3 DEF RowsGrow, TypeOK, IngestInvalid
  <2>5. ASSUME NEW x \in Event PROVE RowSound(x)'
    BY <1>2, <2>1, <2>3 DEF Sound, RowSound, Recoverable, TypeOK, IngestInvalid
  <2>6. ASSUME NEW m \in queue' PROVE MessageSound(m, hashed[m.event])'
    BY <2>4, MessageStaysSound DEF Sound, TypeOK, IngestInvalid
  <2>7. ASSUME NEW w \in Workers PROVE JobSound(w)'
    BY <2>4, JobStaysSound DEF Sound, IngestInvalid
  <2>8. ASSUME NEW o \in Operators PROVE ReplaySound(o)'
    BY <2>4, ReplayStaysSound DEF Sound, IngestInvalid
  <2>9. ASSUME NEW u \in Uploaders PROVE LoadedSound(u)'
    BY <2>4, LoadedStaysSound DEF Sound, IngestInvalid
  <2>10. ConsentGate' /\ MatchKeyPresent' /\ RejectedForCause'
    BY <2>1 DEF ConsentGate, MatchKeyPresent, RejectedForCause, PastGate, TypeOK,
                IngestInvalid
  <2> QED
    BY <2>2, <2>5, <2>6, <2>7, <2>8, <2>9, <2>10 DEF Sound
<1> QED
  BY <1>1, <1>2

(* The first message of an event says what its lead said.                  *)
LEMMA SendSafe ==
    ASSUME Safe, NEW e \in Event, Publish(e) \/ ApiCrash(e)
    PROVE  Safe'
<1> USE DEF Safe
<1>1. e \in outbox /\ Send(e) /\ UNCHANGED <<ledger, stuck, worker, operator, loaded>>
  BY DEF Publish, ApiCrash
<1>2. lead[e] \in Leads
  BY <1>1 DEF Sound, RowSound
<1> DEFINE first == [event |-> e, ids |-> lead[e].ids]
<1>3. first \in Messages /\ MessageSound(first, hashed[first.event])
  BY <1>2, LeadFields DEF Messages, MessageSound
<1>4. queue' = queue \cup {first} \/ queue' = queue
  BY <1>1 DEF Send
<1>5. outbox' \subseteq outbox
  BY <1>1 DEF Send
<1>6. lost' \subseteq Event /\ told' \in [Event -> {"nothing", "200", "202", "422"}]
  BY DEF Publish, ApiCrash, Send, TypeOK
<1>7. TypeOK'
  BY <1>1, <1>3, <1>4, <1>5, <1>6 DEF TypeOK, ledger
<1> QED
  BY <1>1, <1>3, <1>4, <1>5, <1>7, QuietStep DEF ledger

(* A worker takes a sound message and the row beside it.                   *)
LEMMA ReceiveSafe ==
    ASSUME Safe, NEW w \in Workers, NEW m \in queue, Receive(w, m)
    PROVE  Safe'
<1> USE DEF Safe
<1> DEFINE job == [step |-> "read", message |-> m, status |-> status[m.event],
                   hashed |-> hashed[m.event]]
<1>1. m \in Messages /\ m.event \in Event
  BY DEF TypeOK, Messages
<1>2. worker' = [worker EXCEPT ![w] = job]
  BY DEF Receive
<1>3. job \in Jobs
  BY <1>1 DEF TypeOK, Jobs
<1>4. TypeOK'
  BY <1>2, <1>3 DEF Receive, TypeOK, ledger
<1>5. UNCHANGED <<status, lead, hashed, outbox, stuck, queue, operator, loaded>>
  BY DEF Receive, ledger
<1>6. worker'[w] = job
  BY <1>2 DEF TypeOK
<1>7. JobSound(w)'
  BY <1>1, <1>5, <1>6 DEF Sound, RowSound, JobSound, MessageSound
<1>8. \A v \in Workers : worker'[v] = worker[v] \/ JobSound(v)'
  BY <1>2, <1>7
<1> QED
  BY <1>4, <1>5, <1>8, QuietStep

(* A worker that writes nothing leaves everything sound.                   *)
LEMMA WorkerRestsSafe ==
    ASSUME Safe, NEW w \in Workers, Skip(w) \/ Ack(w) \/ Redeliver(w)
    PROVE  Safe'
<1> USE DEF Safe
<1>1. PICK job \in Jobs : worker' = [worker EXCEPT ![w] = job] /\ job.step # "read"
  <2>1. CASE Skip(w)
    <3>1. worker[w].message \in Messages
      BY <2>1, JobFields DEF Skip
    <3> DEFINE next == [step |-> "ack", message |-> worker[w].message]
    <3>2. next \in Jobs /\ next.step # "read"
      BY <3>1 DEF Jobs
    <3>3. worker' = [worker EXCEPT ![w] = next]
      BY <2>1 DEF Skip
    <3> HIDE DEF next
    <3> QED
      BY <3>2, <3>3
  <2>2. CASE Ack(w) \/ Redeliver(w)
    <3>1. Resting \in Jobs /\ Resting.step # "read"
      BY DEF Jobs, Resting
    <3>2. worker' = [worker EXCEPT ![w] = Resting]
      BY <2>2 DEF Ack, Redeliver
    <3> QED
      BY <3>1, <3>2
  <2> QED
    BY <2>1, <2>2
<1>2. UNCHANGED <<ledger, outbox, lost, told, stuck, operator, loaded>> /\ queue' \subseteq queue
  BY DEF Skip, Ack, Redeliver
<1>3. TypeOK'
  BY <1>1, <1>2 DEF TypeOK, ledger
<1>4. \A v \in Workers : worker'[v] = worker[v] \/ JobSound(v)'
  BY <1>1 DEF JobSound, TypeOK
<1> QED
  BY <1>2, <1>3, <1>4, QuietStep DEF ledger

(* process_message writes over the row what it decided from the row it     *)
(* read; the lead it decides by never changes.                             *)
LEMMA ProcessSafe ==
    ASSUME Safe, NEW w \in Workers, Process(w)
    PROVE  Safe'
<1> USE DEF Safe
<1> DEFINE job == worker[w]
           e == job.message.event
           to == Verdict(job, lead[e])
<1>1. /\ job.step = "read"
      /\ status' = [status EXCEPT ![e] = to]
      /\ hashed' = IF to = "PROCESSED" THEN [hashed EXCEPT ![e] = Digests(job)] ELSE hashed
      /\ worker' = [worker EXCEPT ![w] = [step |-> "ack", message |-> job.message]]
      /\ UNCHANGED <<lead, dead_letters, open_dlq, outbox, queue, lost, told, stuck,
                     operator, loaded>>
  BY DEF Process
<1>2. /\ job.message \in Messages /\ e \in Event /\ job.message.ids \in IdKinds
      /\ job.hashed \in HashedKinds
  BY <1>1, JobFields
<1>3. /\ MessageSound(job.message, job.hashed)
      /\ job.hashed = "blank" => lead[e].click
  BY <1>1 DEF Sound, JobSound
<1>4. lead[e] \in Leads /\ lead[e].click \in BOOLEAN /\ lead[e].ids \in IdKinds
  BY <1>3, LeadFields DEF MessageSound
<1>5. to \in {"SUPPRESSED", "PROCESSED", "REJECTED"}
  BY DEF Verdict
<1>6. Digests(job) \in {"digests", "blank"}
  BY <1>2 DEF Digests, Reuses, HashedKinds
<1>7. to = "PROCESSED" =>
        Permitted(lead[e].consent) /\ (lead[e].click \/ Digests(job) = "digests")
  BY <1>2, <1>3, <1>4 DEF Verdict, Digests, Reuses, Rejects, IdKinds, HashedKinds
<1>8. to = "REJECTED" =>
        \/ lead[e].ids = "bad"
        \/ lead[e].ids \in {"keyless", "none"} /\ ~lead[e].click
  BY <1>2, <1>3, <1>4 DEF Verdict, Reuses, Rejects, MessageSound, IdKinds
<1>9. TypeOK'
  <2>1. [step |-> "ack", message |-> job.message] \in Jobs
    BY <1>2 DEF Jobs
  <2> QED
    BY <1>1, <1>2, <1>5, <1>6, <2>1 DEF TypeOK, Statuses, HashedKinds
<1>10. RowsGrow
  BY <1>1, <1>2, <1>6 DEF RowsGrow, TypeOK
<1>11. ASSUME NEW x \in Event PROVE RowSound(x)'
  BY <1>1, <1>2, <1>4, <1>5, <1>6, <1>7 DEF Sound, RowSound, Recoverable, TypeOK
<1>12. ASSUME NEW m \in queue' PROVE MessageSound(m, hashed[m.event])'
  BY <1>1, <1>10, MessageStaysSound DEF Sound, TypeOK
<1>13. ASSUME NEW v \in Workers PROVE JobSound(v)'
  <2>1. CASE v = w
    BY <1>1, <2>1 DEF JobSound, TypeOK
  <2>2. CASE v # w
    BY <1>1, <1>10, <2>2, JobStaysSound DEF Sound, TypeOK
  <2> QED
    BY <2>1, <2>2
<1>14. ASSUME NEW o \in Operators PROVE ReplaySound(o)'
  BY <1>1, <1>10, ReplayStaysSound DEF Sound
<1>15. ASSUME NEW u \in Uploaders PROVE LoadedSound(u)'
  <2>1. \A x \in loaded[u] : x \in Event /\ Fit(x)
    BY DEF Sound, LoadedSound, TypeOK
  <2>2. lead[e].click \/ Digests(job) = "digests" \/ hashed' = hashed
    BY <1>1, <1>7
  <2>3. \A x \in loaded[u] : Fit(x)'
    BY <1>1, <1>2, <2>1, <2>2 DEF Fit, TypeOK
  <2> QED
    BY <1>1, <2>3 DEF LoadedSound
<1>16. ConsentGate'
  <2>1. ASSUME NEW x \in Event, x # e
        PROVE  status'[x] = status[x] /\ lead'[x] = lead[x]
    BY <1>1, <1>2, <2>1 DEF TypeOK
  <2>2. status'[e] = to /\ lead'[e] = lead[e]
    BY <1>1, <1>2 DEF TypeOK
  <2>3. to \in PastGate => /\ lead[e].consent.ad_user_data = "GRANTED"
                          /\ lead[e].consent.ad_personalization = "GRANTED"
    BY <1>5, <1>7, GateFailsClosed DEF PastGate
  <2> QED
    BY <1>1, <1>4, <2>1, <2>2, <2>3 DEF ConsentGate
<1>17. MatchKeyPresent'
  BY <1>1, <1>2, <1>5, <1>7 DEF MatchKeyPresent, PastGate, TypeOK
<1>18. RejectedForCause'
  BY <1>1, <1>2, <1>5, <1>8 DEF RejectedForCause, TypeOK
<1> QED
  BY <1>9, <1>11, <1>12, <1>13, <1>14, <1>15, <1>16, <1>17, <1>18 DEF Sound

(* One write of an uploader, row by row.                                  *)
LEMMA WriteMoves ==
    ASSUME TypeOK, NEW moves, DOMAIN moves \subseteq Event, Writes(moves),
           \A e \in DOMAIN moves : moves[e] \in {"UPLOADING", "UPLOADED", "DEAD_LETTERED"}
    PROVE  /\ UNCHANGED <<lead, hashed, outbox, queue, lost, told, stuck, worker, operator>>
           /\ status' \in [Event -> Statuses \cup {"ABSENT"}]
           /\ \A e \in Event :
                \/ status'[e] = status[e] /\ dead_letters'[e] = dead_letters[e]
                \/ /\ e \in DOMAIN moves /\ status'[e] \in {"UPLOADING", "UPLOADED"}
                   /\ dead_letters'[e] = dead_letters[e]
                \/ /\ e \in DOMAIN moves /\ status'[e] = "DEAD_LETTERED"
                   /\ dead_letters'[e] = dead_letters[e] + 1
           /\ dead_letters' \in [Event -> Nat] /\ open_dlq' \in [Event -> SUBSET Nat]
<1>1. UNCHANGED <<lead, hashed, outbox, queue, lost, told, stuck, worker, operator>>
  BY DEF Writes
<1>2. status' = [e \in Event |-> IF e \in DOMAIN moves THEN moves[e] ELSE status[e]]
  BY DEF Writes
<1>3. status' \in [Event -> Statuses \cup {"ABSENT"}]
  BY <1>2 DEF TypeOK, Statuses
<1> DEFINE dead == {e \in DOMAIN moves : moves[e] = "DEAD_LETTERED"}
<1>4. /\ dead_letters' = [e \in Event |->
            IF e \in dead THEN dead_letters[e] + 1 ELSE dead_letters[e]]
      /\ open_dlq' = [e \in Event |->
            IF e \in dead THEN open_dlq[e] \cup {dead_letters[e] + 1} ELSE open_dlq[e]]
  BY DEF Writes, DeadLettered
<1>5. dead_letters' \in [Event -> Nat] /\ open_dlq' \in [Event -> SUBSET Nat]
  BY <1>4 DEF TypeOK
<1>6. ASSUME NEW e \in Event
      PROVE  \/ status'[e] = status[e] /\ dead_letters'[e] = dead_letters[e]
             \/ /\ e \in DOMAIN moves /\ status'[e] \in {"UPLOADING", "UPLOADED"}
                /\ dead_letters'[e] = dead_letters[e]
             \/ /\ e \in DOMAIN moves /\ status'[e] = "DEAD_LETTERED"
                /\ dead_letters'[e] = dead_letters[e] + 1
  BY <1>2, <1>4
<1> QED
  BY <1>1, <1>3, <1>5, <1>6

(* An uploader that writes only rows fit for it leaves alone what the      *)
(* processor decided from, whatever status it writes over.                 *)
LEMMA WritesSafe ==
    ASSUME Safe, NEW moves, DOMAIN moves \subseteq Event, Writes(moves),
           \A e \in DOMAIN moves : moves[e] \in {"UPLOADING", "UPLOADED", "DEAD_LETTERED"},
           \A e \in DOMAIN moves : Fit(e),
           loaded' \in [Uploaders -> SUBSET Event],
           \A u \in Uploaders : loaded'[u] \subseteq loaded[u]
    PROVE  Safe'
<1> USE DEF Safe
<1>1. \A e \in Event :
        \/ status'[e] = status[e]
        \/ Fit(e) /\ status'[e] \in {"UPLOADING", "UPLOADED", "DEAD_LETTERED"}
  BY WriteMoves
<1>2. UNCHANGED <<lead, hashed, outbox, queue, lost, told, stuck, worker, operator>>
  BY WriteMoves
<1>3. TypeOK'
  BY <1>2, WriteMoves DEF TypeOK
<1>4. RowsGrow
  BY <1>2 DEF RowsGrow
<1>5. ASSUME NEW x \in Event PROVE RowSound(x)'
  BY <1>1, <1>2 DEF Sound, RowSound, Recoverable, Fit, TypeOK
<1>6. ASSUME NEW m \in queue' PROVE MessageSound(m, hashed[m.event])'
  BY <1>2, <1>4, MessageStaysSound DEF Sound, TypeOK
<1>7. ASSUME NEW w \in Workers PROVE JobSound(w)'
  BY <1>2, <1>4, JobStaysSound DEF Sound
<1>8. ASSUME NEW o \in Operators PROVE ReplaySound(o)'
  BY <1>2, <1>4, ReplayStaysSound DEF Sound
<1>9. ASSUME NEW u \in Uploaders PROVE LoadedSound(u)'
  BY <1>2, <1>4, LoadedStaysSound DEF Sound
<1>10. ConsentGate' /\ MatchKeyPresent' /\ RejectedForCause'
  BY <1>1, <1>2 DEF ConsentGate, MatchKeyPresent, RejectedForCause, PastGate, Fit, TypeOK
<1> QED
  BY <1>3, <1>5, <1>6, <1>7, <1>8, <1>9, <1>10 DEF Sound

(* A claim takes rows past the gate, a commit the rows that were read so.  *)
LEMMA UploadWrites ==
    ASSUME Safe, NEW u \in Uploaders, Claim(u) \/ Settle(u)
    PROVE  \E S \in SUBSET Event :
             \E moves \in [S -> {"UPLOADING", "UPLOADED", "DEAD_LETTERED"}] :
                /\ Writes(moves)
                /\ \A e \in S : Fit(e)
                /\ loaded' \in [Uploaders -> SUBSET Event]
                /\ \A v \in Uploaders : loaded'[v] \subseteq loaded[v]
<1> USE DEF Safe
<1>1. CASE Claim(u)
  <2>1. PICK S \in SUBSET Event : /\ \A e \in S : Claimable(e)
                                  /\ \E moves \in [S -> {"UPLOADING", "DEAD_LETTERED"}] :
                                        Writes(moves)
    BY <1>1 DEF Claim
  <2>2. PICK moves \in [S -> {"UPLOADING", "DEAD_LETTERED"}] : Writes(moves)
    BY <2>1
  <2>3. moves \in [S -> {"UPLOADING", "UPLOADED", "DEAD_LETTERED"}]
    BY <2>2
  <2>4. \A e \in S : Fit(e)
    BY <2>1 DEF Claimable, ConsentGate, MatchKeyPresent, PastGate, Fit
  <2>5. loaded' = loaded
    BY <1>1 DEF Claim
  <2> QED
    BY <2>2, <2>3, <2>4, <2>5 DEF TypeOK
<1>2. CASE Settle(u)
  <2>1. PICK moves \in [loaded[u] -> {"UPLOADED", "UPLOADING", "DEAD_LETTERED"}] :
            Writes(moves)
    BY <1>2 DEF Settle
  <2>2. moves \in [loaded[u] -> {"UPLOADING", "UPLOADED", "DEAD_LETTERED"}]
    BY <2>1
  <2>3. loaded[u] \in SUBSET Event /\ \A e \in loaded[u] : Fit(e)
    BY DEF TypeOK, Sound, LoadedSound
  <2>4. loaded' = [loaded EXCEPT ![u] = {}]
    BY <1>2 DEF Settle
  <2>5. /\ loaded' \in [Uploaders -> SUBSET Event]
        /\ \A v \in Uploaders : loaded'[v] \subseteq loaded[v]
    BY <2>4 DEF TypeOK
  <2> QED
    BY <2>1, <2>2, <2>3, <2>5
<1> QED
  BY <1>1, <1>2

(* What an uploader reads is past the gate.                                *)
LEMMA UploadReads ==
    ASSUME Safe, NEW u \in Uploaders, Load(u) \/ Drop(u)
    PROVE  /\ UNCHANGED <<ledger, outbox, queue, lost, told, stuck, worker, operator>>
           /\ loaded' \in [Uploaders -> SUBSET Event]
           /\ \A v \in Uploaders : loaded'[v] \subseteq loaded[v] \/ LoadedSound(v)'
<1> USE DEF Safe
<1>1. UNCHANGED <<ledger, outbox, queue, lost, told, stuck, worker, operator>>
  BY DEF Load, Drop
<1>2. PICK S \in SUBSET Event : /\ loaded' = [loaded EXCEPT ![u] = S]
                                /\ \A e \in S : status[e] = "UPLOADING"
  BY DEF Load, Drop
<1>3. \A e \in S : Fit(e)'
  BY <1>1, <1>2 DEF ConsentGate, MatchKeyPresent, PastGate, Fit, ledger
<1>4. LoadedSound(u)'
  BY <1>2, <1>3 DEF LoadedSound, TypeOK
<1> QED
  BY <1>1, <1>2, <1>4 DEF TypeOK

(* So an uploader disturbs nothing.                                        *)
LEMMA UploadSafe ==
    ASSUME Safe, NEW u \in Uploaders, Upload(u)
    PROVE  Safe'
<1>1. CASE Claim(u) \/ Settle(u)
  <2>1. PICK S \in SUBSET Event :
            \E moves \in [S -> {"UPLOADING", "UPLOADED", "DEAD_LETTERED"}] :
                /\ Writes(moves)
                /\ \A e \in S : Fit(e)
                /\ loaded' \in [Uploaders -> SUBSET Event]
                /\ \A v \in Uploaders : loaded'[v] \subseteq loaded[v]
    BY <1>1, UploadWrites
  <2>2. PICK moves \in [S -> {"UPLOADING", "UPLOADED", "DEAD_LETTERED"}] : Writes(moves)
    BY <2>1
  <2> QED
    BY <2>1, <2>2, WritesSafe
<1>2. CASE Load(u) \/ Drop(u)
  <2>1. /\ UNCHANGED <<ledger, outbox, queue, lost, told, stuck, worker, operator>>
        /\ loaded' \in [Uploaders -> SUBSET Event]
        /\ \A v \in Uploaders : loaded'[v] \subseteq loaded[v] \/ LoadedSound(v)'
    BY <1>2, UploadReads
  <2>2. TypeOK'
    BY <2>1 DEF Safe, TypeOK, ledger
  <2> QED
    BY <2>1, <2>2, QuietStep DEF ledger
<1> QED
  BY <1>1, <1>2 DEF Upload

(* An empty message is sound for a row that makes up for it.               *)
LEMMA EmptyMessageSound ==
    ASSUME NEW e \in Event, lead[e] \in Leads, Recoverable(e)
    PROVE  /\ EmptyMessage(e) \in Messages
           /\ EmptyMessage(e).event = e
           /\ MessageSound(EmptyMessage(e), hashed[e])
BY DEF EmptyMessage, Messages, IdKinds, MessageSound, Recoverable

(* reconcile republishes only rows that make up for an empty message.      *)
LEMMA ReconcileSafe ==
    ASSUME Safe, Reconcile
    PROVE  Safe'
<1> USE DEF Safe
<1>1. CASE \E e \in Event : ReconcileRead(e)
  <2>1. PICK e \in Event : ReconcileRead(e)
    BY <1>1
  <2>2. status[e] = "QUEUED" /\ Recoverable(e) /\ stuck' = stuck \cup {e}
        /\ UNCHANGED <<ledger, outbox, queue, lost, told, worker, operator, loaded>>
    BY <2>1 DEF ReconcileRead
  <2>3. lead[e] \in Leads
    BY <2>2 DEF Sound, RowSound
  <2>4. TypeOK'
    BY <2>2 DEF TypeOK, ledger
  <2> QED
    BY <2>2, <2>3, <2>4, QuietStep DEF ledger
<1>2. CASE \E e \in Event : ReconcilePublish(e)
  <2>1. PICK e \in Event : ReconcilePublish(e)
    BY <1>2
  <2>2. e \in stuck /\ stuck' = stuck \ {e} /\ queue' = queue \cup {EmptyMessage(e)}
        /\ UNCHANGED <<ledger, outbox, lost, told, worker, operator, loaded>>
    BY <2>1 DEF ReconcilePublish
  <2>3. lead[e] \in Leads /\ Recoverable(e)
    BY <2>2 DEF Sound, RowSound
  <2>4. /\ EmptyMessage(e) \in Messages /\ EmptyMessage(e).event = e
        /\ MessageSound(EmptyMessage(e), hashed[e])
    BY <2>3, EmptyMessageSound
  <2>5. TypeOK'
    BY <2>2, <2>4 DEF TypeOK, ledger
  <2> QED
    BY <2>2, <2>4, <2>5, QuietStep DEF ledger
<1>3. CASE ReconcileAbort
  <2>1. /\ stuck' = {}
        /\ UNCHANGED <<ledger, outbox, queue, lost, told, worker, operator, loaded>>
    BY <1>3 DEF ReconcileAbort
  <2>2. TypeOK'
    BY <2>1 DEF TypeOK, ledger
  <2> QED
    BY <2>1, <2>2, QuietStep DEF ledger
<1> QED
  BY <1>1, <1>2, <1>3 DEF Reconcile

(* A replay sends an empty message for a row the gate let through before.  *)
LEMMA ReplaySafe ==
    ASSUME Safe, NEW o \in Operators, Replay(o)
    PROVE  Safe'
<1> USE DEF Safe
<1>1. CASE ReplayRead(o)
  <2>1. PICK e \in Event, d \in Nat :
            /\ status[e] = "DEAD_LETTERED"
            /\ operator' = [operator EXCEPT ![o] =
                    [step |-> "read", event |-> e, row |-> d]]
    BY <1>1 DEF ReplayRead, TypeOK
  <2>2. UNCHANGED <<ledger, outbox, queue, lost, told, stuck, worker, loaded>>
    BY <1>1 DEF ReplayRead
  <2>3. [step |-> "read", event |-> e, row |-> d] \in Replays
    BY <2>1 DEF Replays
  <2>4. TypeOK'
    BY <2>1, <2>2, <2>3 DEF TypeOK, ledger
  <2>5. lead[e] \in Leads /\ Recoverable(e)
    BY <2>1 DEF Sound, RowSound, MatchKeyPresent, PastGate, Recoverable
  <2>6. operator'[o].event = e
    BY <2>1 DEF TypeOK
  <2>7. ReplaySound(o)'
    BY <2>2, <2>5, <2>6 DEF ReplaySound, Recoverable, ledger
  <2>8. \A p \in Operators : operator'[p] = operator[p] \/ ReplaySound(p)'
    BY <2>1, <2>7
  <2> QED
    BY <2>2, <2>4, <2>8, QuietStep DEF ledger
<1>2. CASE ReplayPublish(o)
  <2> DEFINE e == operator[o].event
  <2>1. /\ operator[o].step = "read"
        /\ queue' = queue \cup {EmptyMessage(e)}
        /\ operator' = [operator EXCEPT ![o].step = "published"]
        /\ UNCHANGED <<ledger, outbox, lost, told, stuck, worker, loaded>>
    BY <1>2 DEF ReplayPublish
  <2>2. ~Idle(operator[o])
    BY <2>1 DEF Idle
  <2>3. /\ e \in Event /\ operator[o].row \in Nat
        /\ operator[o] \in [step : {"read", "published"}, event : Event, row : Nat]
    BY <2>2, ReplayFields
  <2>4. lead[e] \in Leads /\ Recoverable(e)
    BY <2>2 DEF Sound, ReplaySound
  <2>5. /\ EmptyMessage(e) \in Messages /\ EmptyMessage(e).event = e
        /\ MessageSound(EmptyMessage(e), hashed[e])
    BY <2>3, <2>4, EmptyMessageSound
  <2>6. operator'[o] \in [step : {"read", "published"}, event : Event, row : Nat]
        /\ operator'[o].event = e
    BY <2>1, <2>3 DEF TypeOK
  <2>7. operator' \in [Operators -> Replays]
    BY <2>1, <2>6 DEF TypeOK, Replays
  <2>8. TypeOK'
    BY <2>1, <2>5, <2>7 DEF TypeOK, ledger
  <2>9. ReplaySound(o)'
    BY <2>1, <2>4, <2>6 DEF ReplaySound, Recoverable, ledger
  <2>10. \A p \in Operators : operator'[p] = operator[p] \/ ReplaySound(p)'
    BY <2>1, <2>9
  <2> HIDE DEF e
  <2> QED
    BY <2>1, <2>5, <2>8, <2>10, QuietStep DEF ledger
<1>3. CASE ReplayCommit(o)
  <2> DEFINE e == operator[o].event
  <2>1. /\ operator[o].step = "published"
        /\ status' = [status EXCEPT ![e] = "QUEUED"]
        /\ open_dlq' = [open_dlq EXCEPT ![e] = @ \ {operator[o].row}]
        /\ operator' = [operator EXCEPT ![o] = Resting]
        /\ UNCHANGED <<lead, hashed, dead_letters, outbox, queue, lost, told, stuck,
                       worker, loaded>>
    BY <1>3 DEF ReplayCommit
  <2>2. ~Idle(operator[o])
    BY <2>1 DEF Idle
  <2>3. e \in Event /\ lead[e] \in Leads
    BY <2>2, ReplayFields DEF Sound, ReplaySound
  <2>4. TypeOK'
    BY <2>1, <2>3 DEF TypeOK, Statuses, Replays
  <2>5. RowsGrow
    BY <2>1 DEF RowsGrow
  <2>6. ASSUME NEW x \in Event PROVE RowSound(x)'
    BY <2>1, <2>3 DEF Sound, RowSound, Recoverable, TypeOK
  <2>7. ASSUME NEW m \in queue' PROVE MessageSound(m, hashed[m.event])'
    BY <2>1, <2>5, MessageStaysSound DEF Sound, TypeOK
  <2>8. ASSUME NEW w \in Workers PROVE JobSound(w)'
    BY <2>1, <2>5, JobStaysSound DEF Sound
  <2>9. ASSUME NEW p \in Operators PROVE ReplaySound(p)'
    <3>1. CASE p = o
      BY <2>1, <3>1 DEF ReplaySound, Resting, Idle, TypeOK
    <3>2. CASE p # o
      BY <2>1, <2>5, <3>2, ReplayStaysSound DEF Sound, TypeOK
    <3> QED
      BY <3>1, <3>2
  <2>10. ASSUME NEW u \in Uploaders PROVE LoadedSound(u)'
    BY <2>1, <2>5, LoadedStaysSound DEF Sound
  <2>11. ConsentGate' /\ MatchKeyPresent' /\ RejectedForCause'
    BY <2>1, <2>3 DEF ConsentGate, MatchKeyPresent, RejectedForCause, PastGate, TypeOK
  <2> QED
    BY <2>4, <2>6, <2>7, <2>8, <2>9, <2>10, <2>11 DEF Sound
<1>4. CASE ReplayAbort(o)
  <2>1. /\ operator' = [operator EXCEPT ![o] = Resting]
        /\ UNCHANGED <<ledger, outbox, queue, lost, told, stuck, worker, loaded>>
    BY <1>4 DEF ReplayAbort
  <2>2. TypeOK'
    BY <2>1 DEF TypeOK, ledger, Replays
  <2>3. \A p \in Operators : operator'[p] = operator[p] \/ ReplaySound(p)'
    BY <2>1 DEF ReplaySound, Resting, Idle, TypeOK
  <2> QED
    BY <2>1, <2>2, <2>3, QuietStep DEF ledger
<1> QED
  BY <1>1, <1>2, <1>3, <1>4 DEF Replay

-----------------------------------------------------------------------------
(* The invariant and what follows from it                                  *)

(* Every step of the intake stage preserves the invariant.                 *)
LEMMA StepSafe == Safe /\ [Next]_vars => Safe'
<1> SUFFICES ASSUME Safe, [Next]_vars PROVE Safe'
  OBVIOUS
<1>1. CASE \E e \in Event : IngestNew(e) \/ IngestInvalid(e)
  BY <1>1, IngestNewSafe, IngestInvalidSafe
<1>2. CASE \E e \in Event : IngestDuplicate(e)
  <2>1. TypeOK' /\ UNCHANGED <<ledger, outbox, queue, lost, stuck, worker, operator, loaded>>
    BY <1>2 DEF IngestDuplicate, Safe, TypeOK, ledger
  <2> QED
    BY <2>1, QuietStep DEF ledger
<1>3. CASE \E e \in Event : Publish(e) \/ ApiCrash(e)
  BY <1>3, SendSafe
<1>4. CASE \E u \in Uploaders : Upload(u)
  BY <1>4, UploadSafe
<1>5. CASE \E w \in Workers : Work(w)
  BY <1>5, ReceiveSafe, ProcessSafe, WorkerRestsSafe DEF Work
<1>6. CASE Reconcile
  BY <1>6, ReconcileSafe
<1>7. CASE \E o \in Operators : Replay(o)
  BY <1>7, ReplaySafe
<1>8. CASE UNCHANGED vars
  <2>1. TypeOK' /\ UNCHANGED <<ledger, outbox, queue, lost, stuck, worker, operator, loaded>>
    BY <1>8 DEF vars, Safe, TypeOK, ledger
  <2> QED
    BY <2>1, QuietStep DEF ledger
<1> QED
  BY <1>1, <1>2, <1>3, <1>4, <1>5, <1>6, <1>7, <1>8 DEF Next, Ingest

(* The invariant holds throughout.                                         *)
THEOREM AlwaysSafe == Spec => []Safe
BY InitSafe, StepSafe, PTL DEF Spec

(* Type correctness of the intake stage.                                   *)
THEOREM IntakeTypeCorrect == Spec => []TypeOK
<1>1. Safe => TypeOK
  BY DEF Safe
<1> QED
  BY <1>1, AlwaysSafe, PTL

(* However many workers and operators race, and whatever is delivered      *)
(* twice, republished or replayed, an event gets past the processor only   *)
(* with both consent signals GRANTED (processor.process_message).          *)
THEOREM ConsentAlwaysGates == Spec => []ConsentGate
<1>1. Safe => ConsentGate
  BY DEF Safe
<1> QED
  BY <1>1, AlwaysSafe, PTL

(* ... and only with something the platform can match it by: digests, or a *)
(* click id (processor.process_message, cli.reconcile).                    *)
THEOREM AlwaysMatchable == Spec => []MatchKeyPresent
<1>1. Safe => MatchKeyPresent
  BY DEF Safe
<1> QED
  BY <1>1, AlwaysSafe, PTL

(* Republishing or replaying an event without its identifiers never gets   *)
(* it rejected for lacking them (cli.reconcile, dlq.replay).               *)
THEOREM NeverRejectedForReplay == Spec => []RejectedForCause
<1>1. Safe => RejectedForCause
  BY DEF Safe
<1> QED
  BY <1>1, AlwaysSafe, PTL

-----------------------------------------------------------------------------
(* Acknowledgements never outrun commits                                   *)

(* An event at a worker that needs nothing more of its message: the row    *)
(* was handled, or was found handled, and has not been restarted.          *)
NotWanted(w) ==
    LET e == worker[w].message.event IN
    ~Idle(worker[w]) =>
        /\ lead[e] \in Leads
        /\ (worker[w].step = "ack" \/ worker[w].status # "QUEUED") /\ dead_letters[e] = 0
                => status[e] # "QUEUED"

Delivered ==
    /\ QueuedHasMessage
    /\ \A e \in Event : status[e] = "DEAD_LETTERED" => dead_letters[e] > 0
    /\ \A o \in Operators :
            ~Idle(operator[o]) => dead_letters[operator[o].event] > 0
    /\ \A w \in Workers : NotWanted(w)

(* What a worker holds is a message of a known event.                      *)
LEMMA HeldFields ==
    ASSUME TypeOK, NEW w \in Workers, ~Idle(worker[w])
    PROVE  /\ worker[w].message \in Messages /\ worker[w].message.event \in Event
           /\ worker[w].step \in {"read", "ack"}
<1>1. \/ worker[w] \in [step : {"read"}, message : Messages,
                       status : Statuses \cup {"ABSENT"}, hashed : HashedKinds]
      \/ worker[w] \in [step : {"ack"}, message : Messages]
  BY DEF TypeOK, Jobs, Resting, Idle
<1> QED
  BY <1>1 DEF Messages

(* A row that is not there has no lead; one with a lead is never created   *)
(* again.                                                                  *)
LEMMA LeadMeansRow ==
    ASSUME Safe, NEW e \in Event, lead[e] \in Leads
    PROVE  status[e] # "ABSENT"
BY LeadFields DEF Safe, Sound, RowSound

(* No step starts a row over except a request for a new id and a replay of *)
(* one that was dead-lettered, and none forgets a dead letter.             *)
RowsRestartOnce ==
    \A e \in Event :
        /\ dead_letters[e] > 0 => dead_letters'[e] > 0
        /\ lead[e] \in Leads => lead'[e] = lead[e]
        /\ status'[e] = "QUEUED" =>
                \/ status[e] = "QUEUED"
                \/ status[e] = "ABSENT" /\ e \in outbox'
                \/ dead_letters[e] > 0

(* What a worker already holds outlives such a step.                       *)
LEMMA NotWantedStays ==
    ASSUME Safe, TypeOK', RowsRestartOnce, NEW w \in Workers, NotWanted(w),
           worker'[w] = worker[w]
    PROVE  NotWanted(w)'
<1>1. SUFFICES ASSUME ~Idle(worker[w]) PROVE NotWanted(w)'
  BY DEF NotWanted, Idle
<1> DEFINE e == worker[w].message.event
<1>2. e \in Event
  BY <1>1, HeldFields DEF Safe
<1>3. lead[e] \in Leads /\ lead'[e] = lead[e] /\ status[e] # "ABSENT"
  BY <1>1, <1>2, LeadMeansRow DEF NotWanted, RowsRestartOnce
<1>4. dead_letters'[e] = 0 => dead_letters[e] = 0
  BY <1>2 DEF RowsRestartOnce, Safe, TypeOK
<1>5. dead_letters[e] = 0 /\ status'[e] = "QUEUED" => status[e] = "QUEUED"
  BY <1>2, <1>3 DEF RowsRestartOnce
<1> QED
  BY <1>1, <1>3, <1>4, <1>5 DEF NotWanted

(* A step that takes no message away, and nothing in hand but what is      *)
(* wanted or handled, keeps every QUEUED row supplied.                     *)
LEMMA SupplyStep ==
    ASSUME Safe, TypeOK', Delivered, RowsRestartOnce,
           \A e \in Event : e \in outbox \cup lost =>
                e \in outbox' \cup lost' \/ \E m \in queue' : m.event = e,
           \A m \in queue : m \in queue' \/
                (dead_letters[m.event] = 0 => status[m.event] # "QUEUED"),
           \A e \in Event : status'[e] = "DEAD_LETTERED" =>
                status[e] = "DEAD_LETTERED" \/ dead_letters'[e] > 0,
           \A w \in Workers : worker'[w] = worker[w] \/ NotWanted(w)',
           \A o \in Operators : operator'[o] = operator[o] \/ Idle(operator'[o]) \/
                dead_letters'[operator'[o].event] > 0
    PROVE  Delivered'
<1>1. QueuedHasMessage'
  <2> SUFFICES ASSUME NEW e \in Event, status'[e] = "QUEUED", dead_letters'[e] = 0,
                      e \notin outbox' \cup lost'
               PROVE  \E m \in queue' : m.event = e
    BY DEF QueuedHasMessage
  <2>1. dead_letters[e] = 0
    BY DEF RowsRestartOnce, Safe, TypeOK
  <2>2. status[e] = "QUEUED"
    BY <2>1 DEF RowsRestartOnce
  <2>3. CASE e \in outbox \cup lost
    BY <2>3
  <2>4. CASE e \notin outbox \cup lost
    <3>1. PICK m \in queue : m.event = e
      BY <2>1, <2>2, <2>4 DEF Delivered, QueuedHasMessage
    <3> QED
      BY <2>1, <2>2, <3>1
  <2> QED
    BY <2>3, <2>4
<1>2. ASSUME NEW e \in Event, status'[e] = "DEAD_LETTERED" PROVE dead_letters'[e] > 0
  BY <1>2 DEF Delivered, RowsRestartOnce
<1>3. ASSUME NEW o \in Operators, ~Idle(operator'[o])
      PROVE  dead_letters'[operator'[o].event] > 0
  <2>1. CASE operator'[o] = operator[o]
    <3>1. operator[o].event \in Event
      BY <1>3, <2>1, ReplayFields DEF Safe
    <3> QED
      BY <1>3, <2>1, <3>1 DEF Delivered, RowsRestartOnce
  <2> QED
    BY <1>3, <2>1
<1>4. ASSUME NEW w \in Workers PROVE NotWanted(w)'
  BY NotWantedStays DEF Delivered
<1> QED
  BY <1>1, <1>2, <1>3, <1>4 DEF Delivered, Idle

(* Requests: a new row waits in the outbox, and what leaves the outbox is  *)
(* sent or lost.                                                           *)
LEMMA IngestDelivers ==
    ASSUME Safe, Safe', Delivered, NEW e \in Event, Ingest(e)
    PROVE  Delivered'
<1> USE DEF Safe
<1>1. \A x \in Event : lead[x] \in Leads => status[x] # "ABSENT"
  BY LeadMeansRow
<1>2. UNCHANGED <<dead_letters, worker, operator>> /\ queue \subseteq queue'
  BY DEF Ingest, IngestNew, IngestDuplicate, IngestInvalid, Publish, ApiCrash, Send, ledger
<1>3. /\ \A x \in Event : lead[x] \in Leads => lead'[x] = lead[x]
      /\ \A x \in Event : status'[x] # status[x] =>
              \/ status[x] = "ABSENT" /\ status'[x] = "QUEUED" /\ x \in outbox'
              \/ status'[x] = "REJECTED"
  <2>1. CASE IngestNew(e)
    BY <1>1, <2>1 DEF IngestNew, Inserted, TypeOK
  <2>2. CASE IngestInvalid(e)
    BY <1>1, <2>2 DEF IngestInvalid, TypeOK
  <2>3. CASE IngestDuplicate(e) \/ Publish(e) \/ ApiCrash(e)
    BY <2>3 DEF IngestDuplicate, Publish, ApiCrash, ledger
  <2> QED
    BY <2>1, <2>2, <2>3 DEF Ingest
<1>4. RowsRestartOnce
  BY <1>2, <1>3 DEF RowsRestartOnce
<1>5. ASSUME NEW x \in outbox \cup lost
      PROVE  x \in outbox' \cup lost' \/ \E m \in queue' : m.event = x
  <2>1. CASE Publish(e) \/ ApiCrash(e)
    <3>1. Send(e)
      BY <2>1 DEF Publish, ApiCrash
    <3>2. CASE x # e
      BY <3>1, <3>2 DEF Send
    <3>3. CASE x = e /\ e \in lost'
      BY <3>3
    <3>4. CASE x = e /\ e \notin lost'
      <4> DEFINE first == [event |-> e, ids |-> lead[e].ids]
      <4>1. first \in queue'
        BY <3>1, <3>4 DEF Send
      <4>2. first.event = x
        BY <3>4
      <4> QED
        BY <4>1, <4>2
    <3> QED
      BY <3>2, <3>3, <3>4
  <2>2. CASE IngestNew(e) \/ IngestDuplicate(e) \/ IngestInvalid(e)
    BY <2>2 DEF IngestNew, IngestDuplicate, IngestInvalid
  <2> QED
    BY <2>1, <2>2 DEF Ingest
<1>6. \A x \in Event : status'[x] = "DEAD_LETTERED" => status[x] = "DEAD_LETTERED"
  BY <1>3
<1> QED
  BY <1>2, <1>4, <1>5, <1>6, SupplyStep

(* Workers: a message goes only after its row was handled.                 *)
LEMMA WorkDelivers ==
    ASSUME Safe, Safe', Delivered, NEW w \in Workers, Work(w)
    PROVE  Delivered'
<1> USE DEF Safe
<1>1. UNCHANGED <<lead, dead_letters, outbox, lost, operator>>
  BY DEF Work, Receive, Process, Skip, Ack, Redeliver, ledger
<1>2. \A v \in Workers : v # w => worker'[v] = worker[v]
  BY DEF Work, Receive, Process, Skip, Ack, Redeliver, TypeOK
<1>3. CASE \E m \in queue : Receive(w, m)
  <2>1. PICK m \in queue : Receive(w, m)
    BY <1>3
  <2>2. /\ worker'[w] = [step |-> "read", message |-> m, status |-> status[m.event],
                         hashed |-> hashed[m.event]]
        /\ UNCHANGED <<status, queue>>
    BY <2>1 DEF Receive, TypeOK, ledger
  <2>3. lead[m.event] \in Leads
    BY DEF Sound, MessageSound
  <2>4. NotWanted(w)'
    BY <1>1, <2>2, <2>3 DEF NotWanted
  <2>5. RowsRestartOnce
    BY <1>1, <2>2 DEF RowsRestartOnce
  <2> QED
    BY <1>1, <1>2, <2>2, <2>4, <2>5, SupplyStep
<1>4. CASE Process(w)
  <2> DEFINE e == worker[w].message.event
             to == Verdict(worker[w], lead[e])
  <2>1. /\ worker[w].step = "read" /\ queue' = queue
        /\ status' = [status EXCEPT ![e] = to]
        /\ worker' = [worker EXCEPT ![w] = [step |-> "ack", message |-> worker[w].message]]
    BY <1>4 DEF Process
  <2>2. e \in Event
    BY <2>1, JobFields
  <2>3. to \in {"SUPPRESSED", "PROCESSED", "REJECTED"}
    BY DEF Verdict
  <2>4. status'[e] = to /\ \A x \in Event : x # e => status'[x] = status[x]
    BY <2>1, <2>2 DEF TypeOK
  <2>5. worker'[w] = [step |-> "ack", message |-> worker[w].message]
    BY <2>1 DEF TypeOK
  <2>6. lead[e] \in Leads
    BY <2>1 DEF Sound, JobSound, MessageSound
  <2> HIDE DEF to
  <2>7. NotWanted(w)'
    BY <1>1, <2>3, <2>4, <2>5, <2>6 DEF NotWanted
  <2>8. RowsRestartOnce
    BY <1>1, <2>3, <2>4 DEF RowsRestartOnce
  <2>9. \A x \in Event : status'[x] = "DEAD_LETTERED" => status[x] = "DEAD_LETTERED"
    BY <2>3, <2>4
  <2> HIDE DEF e
  <2> QED
    BY <1>1, <1>2, <2>1, <2>7, <2>8, <2>9, SupplyStep
<1>5. CASE Skip(w)
  <2>1. /\ worker[w].step = "read" /\ worker[w].status # "QUEUED"
        /\ worker'[w] = [step |-> "ack", message |-> worker[w].message]
        /\ UNCHANGED <<status, queue>>
    BY <1>5 DEF Skip, TypeOK, ledger
  <2>2. NotWanted(w)'
    BY <1>1, <2>1 DEF Delivered, NotWanted, Idle
  <2>3. RowsRestartOnce
    BY <1>1, <2>1 DEF RowsRestartOnce
  <2> QED
    BY <1>1, <1>2, <2>1, <2>2, <2>3, SupplyStep
<1>6. CASE Ack(w) \/ Redeliver(w)
  <2>1. worker'[w] = Resting /\ status' = status
    BY <1>6 DEF Ack, Redeliver, TypeOK, ledger
  <2>2. NotWanted(w)'
    BY <2>1 DEF NotWanted, Resting, Idle
  <2>3. ASSUME NEW m \in queue, m \notin queue', dead_letters[m.event] = 0
        PROVE  status[m.event] # "QUEUED"
    <3>1. worker[w].step = "ack" /\ m = worker[w].message
      BY <1>6, <2>3 DEF Ack, Redeliver
    <3> QED
      BY <2>3, <3>1 DEF Delivered, NotWanted, Idle
  <2>4. RowsRestartOnce
    BY <1>1, <2>1 DEF RowsRestartOnce
  <2> QED
    BY <1>1, <1>2, <2>1, <2>2, <2>3, <2>4, SupplyStep
<1> QED
  BY <1>3, <1>4, <1>5, <1>6 DEF Work

(* An uploader counts a dead letter for every row it buries, and sends     *)
(* none back to QUEUED.                                                    *)
LEMMA UploadDelivers ==
    ASSUME Safe, Safe', Delivered, NEW u \in Uploaders, Upload(u)
    PROVE  Delivered'
<1> USE DEF Safe
<1>1. /\ UNCHANGED <<lead, outbox, queue, lost, worker, operator>>
      /\ \A e \in Event :
            \/ status'[e] = status[e] /\ dead_letters'[e] = dead_letters[e]
            \/ /\ status'[e] \in {"UPLOADING", "UPLOADED"}
               /\ dead_letters'[e] = dead_letters[e]
            \/ /\ status'[e] = "DEAD_LETTERED"
               /\ dead_letters'[e] = dead_letters[e] + 1
  <2>1. CASE Claim(u) \/ Settle(u)
    <3>1. PICK S \in SUBSET Event :
            \E moves \in [S -> {"UPLOADING", "UPLOADED", "DEAD_LETTERED"}] : Writes(moves)
      BY <2>1, UploadWrites
    <3>2. PICK moves \in [S -> {"UPLOADING", "UPLOADED", "DEAD_LETTERED"}] : Writes(moves)
      BY <3>1
    <3> QED
      BY <3>2, WriteMoves
  <2>2. CASE Load(u) \/ Drop(u)
    BY <2>2, UploadReads DEF ledger
  <2> QED
    BY <2>1, <2>2 DEF Upload
<1>2. \A x \in Event : dead_letters[x] > 0 => dead_letters'[x] > 0
  BY <1>1 DEF TypeOK
<1>3. RowsRestartOnce
  BY <1>1, <1>2 DEF RowsRestartOnce, TypeOK
<1>4. \A x \in Event : status'[x] = "DEAD_LETTERED" =>
            status[x] = "DEAD_LETTERED" \/ dead_letters'[x] > 0
  BY <1>1 DEF TypeOK
<1> QED
  BY <1>1, <1>3, <1>4, SupplyStep

(* Operators: reconcile only adds messages, and a replay restarts only     *)
(* what was dead-lettered.                                                 *)
LEMMA OperatorDelivers ==
    ASSUME Safe, Safe', Delivered, Reconcile \/ \E o \in Operators : Replay(o)
    PROVE  Delivered'
<1> USE DEF Safe
<1>1. CASE Reconcile
  <2>1. UNCHANGED <<ledger, outbox, lost, worker, operator>> /\ queue \subseteq queue'
    BY <1>1 DEF Reconcile, ReconcileRead, ReconcilePublish, ReconcileAbort
  <2>2. RowsRestartOnce
    BY <2>1 DEF RowsRestartOnce, ledger
  <2> QED
    BY <2>1, <2>2, SupplyStep DEF ledger
<1>2. ASSUME NEW o \in Operators, Replay(o)
      PROVE  Delivered'
  <2>1. UNCHANGED <<lead, dead_letters, outbox, lost, worker>> /\ queue \subseteq queue'
    BY <1>2 DEF Replay, ReplayRead, ReplayPublish, ReplayCommit, ReplayAbort, ledger
  <2>2. \A p \in Operators : p # o => operator'[p] = operator[p]
    BY <1>2 DEF Replay, ReplayRead, ReplayPublish, ReplayCommit, ReplayAbort, TypeOK
  <2>3. Idle(operator'[o]) \/ dead_letters'[operator'[o].event] > 0
    <3>1. CASE ReplayRead(o)
      BY <2>1, <3>1 DEF ReplayRead, Delivered, TypeOK
    <3>2. CASE ReplayPublish(o)
      <4>1. ~Idle(operator[o]) /\ operator' = [operator EXCEPT ![o].step = "published"]
        BY <3>2 DEF ReplayPublish, Idle
      <4>2. operator'[o].event = operator[o].event
        BY <4>1, ReplayFields DEF TypeOK
      <4> QED
        BY <2>1, <4>1, <4>2 DEF Delivered
    <3>3. CASE ReplayCommit(o) \/ ReplayAbort(o)
      BY <3>3 DEF ReplayCommit, ReplayAbort, Resting, Idle, TypeOK
    <3> QED
      BY <1>2, <3>1, <3>2, <3>3 DEF Replay
  <2>4. \A x \in Event : status'[x] # status[x] =>
              status'[x] = "QUEUED" /\ dead_letters[x] > 0
    <3>1. CASE ReplayCommit(o)
      <4>1. ~Idle(operator[o]) /\ status' = [status EXCEPT ![operator[o].event] = "QUEUED"]
        BY <3>1 DEF ReplayCommit, Idle
      <4> QED
        BY <4>1 DEF Delivered, TypeOK
    <3>2. CASE ~ReplayCommit(o)
      BY <1>2, <3>2 DEF Replay, ReplayRead, ReplayPublish, ReplayAbort, ledger
    <3> QED
      BY <3>1, <3>2
  <2>5. RowsRestartOnce
    BY <2>1, <2>4 DEF RowsRestartOnce
  <2> QED
    BY <2>1, <2>2, <2>3, <2>4, <2>5, SupplyStep
<1> QED
  BY <1>1, <1>2

(* Every step keeps QUEUED rows supplied.                                  *)
LEMMA StepDelivers == Safe /\ Safe' /\ Delivered /\ [Next]_vars => Delivered'
<1> SUFFICES ASSUME Safe, Safe', Delivered, [Next]_vars PROVE Delivered'
  OBVIOUS
<1>1. CASE UNCHANGED vars
  <2>1. UNCHANGED <<status, lead, dead_letters, outbox, lost, queue, worker, operator>>
    BY <1>1 DEF vars, ledger
  <2> QED
    BY <2>1 DEF Delivered, QueuedHasMessage, NotWanted, Idle
<1> QED
  BY <1>1, IngestDelivers, WorkDelivers, UploadDelivers, OperatorDelivers DEF Next

(* Whatever crashes, is delivered twice or republished, and however many   *)
(* workers race, a QUEUED event that was never dead-lettered keeps a       *)
(* message on its way once its publish got through                         *)
(* (worker.handle_delivery acknowledges after the commit).                 *)
THEOREM QueuedIsSupplied == Spec => []QueuedHasMessage
<1>1. Init => Delivered
  BY DEF Init, Delivered, QueuedHasMessage, NotWanted, Resting, Idle
<1>2. Delivered => QueuedHasMessage
  BY DEF Delivered
<1> QED
  BY <1>1, <1>2, AlwaysSafe, StepDelivers, PTL DEF Spec

=============================================================================
