# TLA+ models of the conversion gateway

The gateway takes lead events from CRM webhooks, gates them on consent, hashes
their identifiers and uploads them as conversions to an ad platform. Three
kinds of process (api, worker, uploader) and an operator's command line share
one Postgres ledger and one Pub/Sub topic. What is hard about it is not any one
of them but what they do to the same row at the same time, and what is left
behind when one of them stops half-way; that is what these modules are about.

Paths below are relative to `src/src/gateway/` unless they say otherwise.

## 1. Inventory

| Component | State | Operations | Interacts with | What makes it correct |
| --- | --- | --- | --- | --- |
| Event lifecycle (`models/status.py`) | none (the allowed pairs of statuses) | `transition` tests against it | every writer of the ledger | the status column only moves along allowed pairs |
| Ledger (`ledger.py`, `models/ledger.py`) | `events`, `event_transitions`, `dead_letters` | `record_validated`, `record_rejected`, `record_processed`, `claim_for_upload`, `record_retry_attempt`, `find_stuck_queued` | shared by all processes; only the claim locks rows | a read and the write that depends on it see the same row |
| Ingest API (`api/routes.py`) | none between requests | accept, duplicate, reject; commit, then publish | ledger, queue | an accepted event is durable and gets a message; an id has one row |
| Queue (`queue/`) | ready and in-flight messages | publish, receive, ack, nack, ack deadline | API, CLI, worker | a message not acknowledged is delivered again |
| Worker and processor (`worker.py`, `processor.py`) | the message in hand | read row, consent, normalise, commit, ack or nack | queue, ledger | nothing passes without consent and a match key; a commit precedes its ack |
| Consent gate (`consent/gate.py`) | none | `evaluate_consent` | processor | fails closed |
| Normalisation (`normalise/`) | none | `build_user_identifiers` | processor | faults reject the record; a match key is required |
| Uploader (`upload/uploader.py`, `batcher.py`, `backoff.py`) | batcher, batch in flight, attempts | claim, batch, send and retry, apply per-row results, dead-letter | ledger, ad platform | one owner per row; outcomes on the right rows; every row settles |
| Upload client, classifier (`upload/client.py`, `classifier.py`) | none | send a batch, classify the answer | ad platform | a row is "ok" only if the platform accepted it; results on the right rows |
| Dead-letter store (`dlq/store.py`) | `dead_letters` | `dead_letter`, `replay` | uploader, operator, queue | status and record agree; a replay is handled once |
| Operator commands (`cli.py`) | rows listed by a running command | `reconcile`, `dlq replay` | ledger, queue | a stuck event moves on; nothing is damaged by running them |
| Conversion builder (`upload/conversion.py`) | none | `build_conversion` | uploader, ad platform | what the processor lets through is sent with what it is matched by |
| Ad platform (`src/mock_ads_api/app.py`) | failure injection, recorded uploads | inject, validate, record, answer | upload client | external; the mock is the repository's reading of it |
| Signature, mappers, schemas, settings, observability, seed, migrations | configuration only | pure functions or reports | | not modelled (section 8) |

The hard behaviours: reads and writes of one row in different steps with no
lock; at-least-once delivery with republished messages beside the original; a
commit and a publish that cannot be atomic; a claim that outlives its database
lock; requests whose answer is lost; crashes between any two of these steps;
one attempt counter shared by claims, retries
and replays; timeouts that have to fit each other; threads that wait on a
condition. `PROJECT.json` lists each at
its line.

## 2. Modules

| Module | Models |
| --- | --- |
| `EventLifecycle` | the statuses, the allowed transitions, and the test `ledger.transition` makes |
| `Consent` | the consent gate |
| `Uploader` | the upload stage: any number of uploaders, the ledger columns they write, the platform |
| `Intake` | the ingest API, the queue, the workers, `reconcile` and `dlq replay`; an uploader reduced to the rows it claims, reads and writes back |
| `Gateway` | `Intake` and `Uploader` composed over one ledger |
| `EventHistory` | abstract: what the gateway promises about an event |
| `UploadTiming` | the clocks of the upload stage: when `Uploader`'s assumption `Timely` is justified |
| `MemoryQueue` | the in-process queue, its condition and the worker threads that share it |
| `UploadClient` | abstract: what an upload client promises its caller |
| `UploadCall` | one upload request: builder, HTTP client, parsing, and the mock platform with its failure injection |
| `UploaderProofs`, `IntakeProofs`, `UploadTimingProofs`, `MemoryQueueProofs`, `UploadCallProofs` | theorems about them |
| `GatewayProofs`, `GatewayStageProofs`, `GatewayLedgerProofs` | theorems about `Gateway`: what is sent; the steps of the upload stage, and that `Gateway` implements `Intake`; those of the intake stage, and the results |
| `MCUploader`, `MCIntake`, `MCGateway`, `MCUploadTiming`, `MCMemoryQueue`, `MCUploadCall` | instances of them for TLC |

How they fit together:

```
EventHistory  <== Uploader  (its upload part; proved, and checked)
EventHistory  <== Gateway = Intake + Uploader over one ledger
                            (proved, and checked, of the behaviours
                            without the races `Unraced` excludes)
Intake        <== Gateway   (proved, and checked, of all behaviours: its
                            reduced uploader is justified)
UploadClient  <== UploadCall  (proved, and checked)
Timely, assumed by Uploader, is UploadTiming!StaleIsOrphaned
```

`A <== B` reads "B implements A": `A` is instantiated in `B` with a refinement
mapping, and `A`'s specification is a property of a run.

Operators whose comment begins "slip" are deliberate mistakes, one per
property: with the slip in place of the definition that follows it, the model
checker must find the property violated. They are used nowhere else.

### Uploader: state and steps

`status`, `attempt_count` and `open_dlq` are the ledger. `open_dlq[e]` is the
sequence of failure classes of the row's open dead letters. `accepted` is what
the platform has recorded, and `late` what it may still record of requests whose
sender no longer waits. Per process, `pc` is the place in `run_once`, `batch`
the batcher's contents while idle and the batch in flight afterwards, `tries`
the failed requests so far, `result` the last answer by position, `why` the
failure class of a batch given up, `seen` what the open transaction has read.

- `ClaimRows` is `Uploader.claim`: one transaction that locks its rows, so one
  step, with the rows over the ceiling dead-lettered in it.
- `Respond`, `Unavailable`, `NoAnswer`, `Refuse` are the ways
  `HttpUploadClient.upload` ends. `RetryOrGiveUp` is the retry policy: the
  wall-clock ceiling may end the retries after any attempt.
- `Load` and then `CommitRetry`, `CommitApply` or `CommitDead` are the
  transactions of `on_retry`, `apply_result` and `_dead_letter_all`. They read
  without locking, so another process may write between the two steps. `_load`
  reads the rows of a batch one after the other; the model reads them in one
  step, which coarsens the interleavings inside one `_load` only. `Illegal`
  is the same transaction when `transition` raises: it rolls back and the
  process ends.
- `Crash` covers a process killed anywhere and a SIGTERM between two cycles;
  both lose the batcher. `Restart` starts with an empty one.

A batch may hold a row twice (a process can re-claim a row that sits in its own
batcher): `StatusBefore` and `LastPositions` are what `apply_result` does then.

Time is not modelled here. `Timely` stands for the one thing the code leaves to
the settings: that no live uploader lets a row's `last_attempt_at` become older
than `upload_stale_after_seconds`. `UploadTiming` says for which settings that
is so. With `Timely = FALSE` a row may be taken for stale at any time.

### Intake: state and steps

`status`, `lead`, `hashed`, `dead_letters` and `open_dlq` are the ledger; `lead`
stands for the columns a row is created with and, in `ids`, for the identifiers
that travel on the first message only: usable (`good`), with a fault (`bad`),
without a match key (`keyless`) or none. `outbox` holds the events of requests
between their commit and their publish, `queue` the messages not acknowledged
for good, `lost` the events whose first message never reached the queue, `told`
the last answer the CRM got, `stuck` what a running `reconcile` has listed.

- `IngestNew`, `IngestDuplicate`, `IngestInvalid` are the transactions of one
  request, arbitrated by the primary key; `Publish` and `ApiCrash` end a request
  that inserted a row.
- `Receive` hands a worker a message and reads its row; `Process` or `Skip` is
  the rest of `process_message` with the commit; `Ack` removes the message.
  `Redeliver` is a crash, a failed transaction (nack) or an ack that comes too
  late. The queue is a set: a second copy of an equal message is the same as the
  first not being removed, which `Redeliver` allows at every point.
- `ReconcileRead` and `ReconcilePublish`, and `ReplayRead`, `ReplayPublish` and
  `ReplayCommit`, are the commands, cut where another process can come between.
- `Upload` is an uploader, without requests and retries, cut as the real one is:
  `Claim` locks the rows it moves to UPLOADING or buries; `Load` is a transaction
  reading rows without a lock (`loaded`), `Settle` its commit, which writes
  UPLOADED, back to the pool, or DEAD_LETTERED over whatever has become of the
  rows since; `Drop` is a transaction that ends without an outcome. So a row that a
  slower worker or operator has moved meanwhile may go from PROCESSED to UPLOADED,
  or an UPLOADED one to DEAD_LETTERED, as it may in the code.

### Gateway: state and steps

`Gateway` has the variables of both stages. `status` is shared; `letters` and
`replayed` are the dead-letter table, of which `Uploader` sees every row's
failure class and `Intake` how many there are and which are open. Every step is
a step of one of the two modules with the variables of the other unchanged,
but for `ReplayCommit`: there `dlq.replay` also resets `attempt_count`. The move
that stands for the uploader in `Intake` (`Upload`) is replaced by `Uploader`'s
actions.

`ImplementsIntake` maps FAILED_RETRYABLE, which `Intake` does not know, to
UPLOADING, in the ledger and in what workers and uploaders have read of it.

`Spec` is the gateway as it is. `UnracedSpec` has the behaviours in which two
races the code leaves open do not happen (`Unraced`): two workers that have both
read one row as QUEUED, and two operators that have both read one dead letter as
replayable. There may be any number of both; they only have to be at different
events, or one after the other. Section 4 says what the races do.

### EventHistory

The fate of an event (unknown, undecided, released, suppressed, rejected,
uploaded, dead), whether it was let through to the upload stage once (`passed`),
and whether the platform has recorded it. An id is accepted or refused once; the
gate decides on what is undecided, also when the event has been let through
before; only a released event settles, and as "uploaded" only if the platform has
it; nothing is recorded that was never let through. Nothing leaves "uploaded" or
"rejected". "dead" and "suppressed" may be reopened, as `models/status.py` and
`docs/DESIGN.md` have it; what `Gateway` does of that is section 4's subject.

### UploadTiming: state and steps

Every timestamp is kept as its age, so that the state space is finite without a
bound on the run: `age` is the time since `last_attempt_at`, `waited` the time
since the batcher's `_oldest_at`, `timer` the time in the present place,
`elapsed` the time since the first request of the batch. `Cycle` is one
`run_once` up to the request; `Answer`, `Retry`, `GiveUp` end a request;
`Wake` ends the back-off. `Tick` lets time pass, as far as every running
uploader may stay where it is: `CycleTime` and `RequestTime` are the longest a
cycle and a request with the commit after it take. They stand for what the
settings do not fix: the database's time, and `ads_api_timeout_seconds`, which
httpx applies to each phase of a request and not to the whole. `Horizon` only
bounds the ages that are told apart.

### MemoryQueue: state and steps

`ready` and `inflight` are the attributes of the class, `pc` and `deliveries`
the worker loops. Each method holds the condition's lock and is one step;
`receive` is `Wait` and `Take` when it waits, because `wait` releases the lock,
and a thread that was woken has to get the lock again before it looks.
`Notified` is the nondeterminism of `notify`; `TimeOut` is `wait` returning by
itself. Messages stand for their bytes: each is published once, and the ack id
of a delivery is the message. The attempt number is left out: it is passed on
and nothing decides by it.

### UploadClient and UploadCall: state and steps

`UploadClient` lets a call end in rows, in an HTTP error (`Fail`), or without a
usable answer (`GiveUp`), after which the platform may still decide (`Judge`).
This is what `Uploader` takes for granted: `Judge` with `Return` is its
`Respond`, `Fail` its `Unavailable` and `Refuse`, `GiveUp` and a later `Judge`
its `NoAnswer` and `LateAccept`.

`UploadCall` follows one request: `Post` sends a batch of any rows the
processor lets through; the request is lost, or arrives and takes the injected
control (`Arrive`: the endpoint up to its first `await`), is decided about
(`Work`), and its answer may lack a result or an error detail (`Garble`) before
it is received (`Receive`), unless the client has timed out (`GiveUp`). A row
is reduced to which of its fields are there; a digest is a digest. `Conversion`
is what `build_conversion` makes of it, `ValidateRow` what the mock asks of it.

## 3. Runs that pass

| Run | Instance | Distinct states | Shows |
| --- | --- | --- | --- |
| `uploader_timely` | 3 rows, 2 uploaders, batch 2, 2 requests per batch, row ceiling 2, `Timely`, symmetric | 1.4 M | exclusive ownership, no illegal transition, bounded attempts, one dead letter per DEAD_LETTERED row, legal moves, the upload part of `EventHistory` |
| `uploader_stale_row` | 1 row, 2 uploaders, 2 requests, ceiling 3, not timely, fair | 154 k | crashes, failing requests and two uploaders stealing a row from each other cannot keep it from settling, nor bury it without a record |
| `intake` | 1 event, 9 kinds of lead, 2 workers, 2 operators, 1 reduced uploader, 1 replay, reconcile, symmetric | 1.3 M | consent, match key, justified rejection, and no QUEUED row without a message, whichever worker or operator is slower |
| `gateway` | 1 event, 4 kinds of lead, 2 workers, 1 operator, 1 uploader, 1 request per batch, row ceiling 1, 1 replay, `Timely`, `Unraced`, symmetric | 937 k | what is sent was permitted and can be matched; a replay starts afresh; one open letter; `EventHistory`, digests kept, legal moves |
| `gateway_settles` | 1 event, 2 kinds of lead, one process of each kind, 1 request, 1 replay, `Timely`, fair | 61 k | an event the ledger can rebuild settles, from the webhook to the platform; `Intake` is implemented |
| `upload_timing` | 3 rows, 2 uploaders, batch 2, `stale_after` 4 with every limit of `SettingsFit` reached, symmetric | 112 k | stale rows are orphans, claims exclusive, retrying ends |
| `memory_queue` | 3 threads, 5 messages of which 2 poison, 2 per receive, fair | 69 k | no missed wake-up, each message in one place, poison starves nothing |
| `upload_call` | 2 overlapping requests of up to 2 rows, 3 kinds of row, 7 initial modes and 4 injections, symmetric | 174 k | results on the right rows and `UploadClient` kept; nothing let through is refused for want of identifiers or consent |

Why these bounds are enough. Rows interact only through a shared batch, so two
rows make every per-position mistake visible and a third gives the second
uploader something to do while a batch of two is out. Events meet in the intake
stage only as work for the same process, so one event is followed through every
order of its own messages. Two uploaders, workers or operators are enough for a
lost update: it takes one reader and one writer. In `intake` a single reduced
uploader is enough to write over what the others do; with two, one could bury a
row another still holds again and again, and nothing would bound
`dead_letters`. In `gateway` a single request per batch leaves
the row ceiling, the answers and their classes to the run, and in-batch retries
to `uploader_timely`. `ImplementsIntake` is
checked of all behaviours but of one process of each kind; the theorem has any
number. Two requests per batch give one
retry and one surrender; a row ceiling of 2 or 3 is reached both by claims and
by retries. In the wiring the row ceiling and the request ceiling are one
setting; the model keeps them apart. `MaxReplays` bounds the replays of one
event; the theorems put no bound on it. The leads cover each branch
of `process_message`; consent is represented by one permitted and one missing
signal because the gate asks for nothing but GRANTED.

In `upload_timing` batch wait + cycle + request equals `stale_after`, and
back-off + request is one less, the most `SettingsFit` allows; four attempts and
`MaxElapsed` 3 make either ceiling stop the retries. In `memory_queue` two
poison messages can fill a receive while the third thread takes what is behind
them. In `upload_call` the rows are a full address alone, a click with an
e-mail and half an address under an unknown action, and half an address alone,
which must not be sent; the injections are a permanent and a transient status, a
page that is not JSON and a retryable row error, each but the first for one
request. One fault per answer bounds `Garble`. The `Control` record also allows
any row code and any count; the theorems cover those.

Deadlock checking is on in every run but `memory_queue`, where the worker loops
may all have been stopped.

## 4. Runs that disagree with a document

Each of these runs checks one sentence of the documentation or of a comment and
finds a behaviour of the code that contradicts it; `PROJECT.json` quotes the
sentence with its line.

| Run | What happens |
| --- | --- |
| `poison_accepted` | the last attempt times out, the platform accepts it all the same, the batch is dead-lettered as never accepted |
| `two_workers` | two deliveries of one message; the slower worker moves the row, which the uploader has claimed meanwhile, from UPLOADING back to PROCESSED |
| `replay_publishes_early` | a worker drops the replayed message because the replay has not committed; the row is QUEUED with nothing on its way until `reconcile` |
| `resend_recovers` | resending a stuck event under its id changes nothing, for ever |

`resend_recovers` is about an event the runbook sends the operator to the CRM
for: `Publish` may lose the message, and `IngestDuplicate` answers 200 without
one.

`two_workers` is a run of `Gateway`, with the real uploader, under `Spec`: it has
the race that `Unraced` excludes. Its cause is the unlocked read of
`process_message`. The same read lets a worker with a republished, empty message
write empty digests over those another one has just computed (`processor.py:75`
says they are reused so that this cannot happen), and `dlq.replay` reads in the
same way: of two operators the slower one moves a row that is PROCESSED again back
to QUEUED. `RUNBOOK.md:146` and `:243` allow several workers, so these are
behaviours of a permitted deployment; run `gateway` and the theorems of
`GatewayLedgerProofs` are about the others, and say so by their specification.
What section 6 proves with the races is consent, a match key, no unjustified
rejection, what is sent, and that `Intake` is implemented.

Other places where code and words part, without a run of their own:

- `DESIGN.md:190` says that suppressed events "can be replayed" once consent was
  granted and the client backfills, and `models/status.py:40` lists SUPPRESSED to
  QUEUED for it. No code does it: `dlq replay` knows only dead letters, and a
  backfill under the event's id is a duplicate, which updates no column and
  publishes nothing. `EventHistory` allows the step and `Gateway` never takes it.
- `RUNBOOK.md:202` says that on a replay "a user who has since been recorded as
  opted out is suppressed". The worker does run the gate again, and
  `EventHistory` allows its saying no, but it reads the consent columns the row was
  created with, and no code updates those: the answer is the one it gave before,
  and a replayed event is never suppressed. This is why `ConsentGate` can speak of
  the columns, and it is all the code promises: not the user's present consent.
- `claim_for_upload` says two uploaders never claim the same row. The row locks
  end with the claim's transaction, so this rests on the settings: it holds
  under `SettingsFit` (proved), and `upload_stale_after_seconds` may be set to 1.
- `_reject` answers 422 with status REJECTED also when the id already has a row
  in another status, which it rightly leaves alone.
- `parse_batch_response` says that results and error details "must agree". A
  detail for a row that succeeded is ignored, and a failed row without a detail
  counts as rejected; `UploadClient` promises no more than that.
- `build_conversion` and the client rely on the platform to deduplicate by
  `orderId`. The mock records a row as often as it is sent, so the repository
  has no test of it; the models make no use of it: `accepted` is a set.

## 5. Fairness

Liveness is checked under the weakest scheduling the code gives.

- `Uploader.Fairness`: a running process goes on with the batch it holds
  (`WF` on `Progress`; the loop in `run` never waits for another process), a
  stopped one is restarted, and a row that is ready again and again is claimed
  (`SF`): `claim_for_upload` orders by `received_at`, and rows ahead of it
  settle after boundedly many claims. Crashes, failing requests and lost answers
  are not restricted: a row that is crashed upon for ever reaches the ceiling.
- `Intake.Fairness`, which `ResendSpec` rests on: a request ends, a worker's
  step ends, a message that is available again and again is taken and does not
  fail for ever (`SF` on `Takes` and `Handles`; a worker may crash any finite
  number of times in between), and the operator runs `reconcile --republish`
  until it gets through, as the runbook's alert asks. `ResendSpec` adds a CRM
  that sends the event again, as the runbook asks it to.
- `Gateway.Fairness` is the two together. Nobody has to replay anything.
- `MemoryQueue.Fairness`: a thread that was woken, or finds a message, runs on,
  and a message that is not poison is processed in the end if it is tried again
  and again. There is none for `TimeOut`: that a sleeping thread wakes is left
  to `notify`, as the comment in the code has it ("block until something is
  published"). None either for `Wait`, `Publish` and `Stop`. `NotStarved` ends
  when every loop has been stopped.

## 6. Theorems

TLAPS checks these for every number of rows, events, uploaders, workers,
operators, threads and requests, and every setting.

`UploaderProofs`, assuming only that the set of rows is finite and the ceilings
are positive:

- `TypeCorrect`, `OnlyAcceptedIsUploaded`, `DeadLettersFound`.
  `UploadedWasAccepted` alone is not inductive: an outcome is written two steps
  after the answer. `Safe` adds `Bookkeeping`: while a batch is being applied its
  results are as many as its rows and each "ok" belongs to an accepted row.
  `DeadLetterRecorded` holds although uploaders that overlap overwrite each
  other's outcomes, because every step that writes DEAD_LETTERED records the
  letter in the same transaction, and this module has no step that closes one.
- Under the further assumption `Timely`: `RowsAreOwned`, `NeverIllegal`,
  `DeadLettersAgree`, `AttemptsStayBounded`, `OnlyLegalMoves`,
  `UploaderImplementsHistory`. `TimelySafe` adds that rows in hand are UPLOADING,
  that what a transaction has read of them is still so (`SeenIsCurrent`), and the
  attempt budget (`Budget`): a row that is held has been counted once for its
  claim and once per recorded retry. For legal moves it is also needed that a
  PROCESSED row was never claimed (`Unclaimed`), or a claim could take one over
  the ceiling. The refinement maps each action to `Record`, `Settle` or a
  stutter; that a settled row is not touched again is ownership.

`IntakeProofs`, assuming only that leads are well-formed:

- `IntakeTypeCorrect`, `ConsentAlwaysGates`, `AlwaysMatchable`,
  `NeverRejectedForReplay`. All three safety properties hold although workers
  and operators overwrite each other's statuses, and `Sound` says why: what they
  decide from never changes. The columns a row was created from are written
  once; a message in the queue or in hand says what its lead said, or nothing;
  one that says less than its lead was sent only for a row with a click id or
  digests; and digests, once there, are never taken away altogether
  (`RowsGrow`). The one thing a race can do to digests is to empty them, and
  only beside a click id.
- `QueuedIsSupplied`: a QUEUED event that was never dead-lettered has a message,
  unless its request is still under way or its message was lost. A message
  leaves the queue only with its acknowledgement, and a worker that is about to
  acknowledge has found the row, or left it, in another status. A row goes back
  to QUEUED only through a replay, hence the restriction.

`GatewayProofs`, assuming only that the events are finitely many and leads
well-formed:

- `OnlyPermittedReachesPlatform`, of the composition, for any number of workers,
  operators and uploaders, timely or not, and any batch size. `Inv` says where an
  event that was let through can be: PROCESSED, UPLOADING or FAILED_RETRYABLE, in
  a batch, in an abandoned request, or at the platform (`Waits`, `Sent`). Wherever
  it is, it stays `Sendable`, although another worker may meanwhile have
  overwritten its status: the lead never changes, and a row's digests are
  emptied only beside a click id (`BlanksHaveClicks`). The uploader needs no
  more than that it takes up rows that wait and moves only those (`Uploading`).

`GatewayStageProofs`, with the same assumptions on events and leads, positive
ceilings and batch size, and nothing else: any number of workers, operators and
uploaders, racing or not, timely or not.

- `GatewayImplementsIntake`: with the real upload stage in its place `Intake`'s
  assumption about it is met, so what is proved of `Intake` holds of the gateway.
  The invariant is `Grounded`: `Inv` of `GatewayProofs`, what the processes have
  in hand is well-formed, an open transaction has read the rows of its batch and
  no others, and an operator's dead letter is one there is. `UploadStepAsStage` takes each action of `Uploader`: a claim is a
  `Claim`, a load a `Load`, an outcome a `Settle` of exactly the rows read as
  UPLOADING, everything else a `Drop` or a stutter.

`GatewayLedgerProofs` needs two more assumptions, which every theorem of it
names:

- `Timely`: no uploader outlives `stale_after`. `UploadTiming` shows it of every
  setting that satisfies `SettingsFit`.
- `Unraced`, in the specification `UnracedSpec`: no two workers are about to
  process one event, no two operators replay one event, at the same time. Any
  number of both may run. It is an assumption on the behaviours and not on the
  program, which does nothing to enforce it: with several workers an
  acknowledgement deadline that runs out, or a `reconcile`, is enough to break
  it, and then they may fail, as run `two_workers` shows of legal moves. A deployment with one
  worker and one operator at a time always satisfies it.

The results, for any number of events and processes, any ceilings and batches,
any number of `reconcile`s, crashes, lost and repeated messages:

- `WaitingHaveFullBudget` and `OneLetterStaysOpen`, the two ends of a replay: it
  starts the row afresh, and closes the one letter that is open.
- `GatewayMovesLegally` and `DigestsAlwaysSurvive`, of every step.
- `GatewayImplementsHistory`: the whole gateway keeps `EventHistory`'s promises.

None of these is inductive, and none follows from one stage's invariant: that a
worker may write PROCESSED needs to know where uploaders are with the row, and
that an uploader's dead letter is the only open one needs to know what an
operator has in hand. The invariant is `Agreed`:

- `Inv` of `GatewayProofs`;
- `LettersAgree`: of an event's letters only the last can be open, and it is
  exactly while the row is DEAD_LETTERED;
- `ReadsCurrent`: what a worker has read of a QUEUED row, and an operator of a
  dead letter, is still so. This is where `Unraced` comes in, and, for operators,
  that uploaders leave DEAD_LETTERED rows alone;
- `DigestsAgree`: digests come from a lead with identifiers and consent;
- `Stg!TimelySafe` and `Stg!Unclaimed`, the invariant of `UploaderProofs` through
  a mapping that shows the uploader every row it has not claimed as PROCESSED,
  and of the letters the open one;
- `Itk!Safe`, the invariant of `IntakeProofs`, through the mapping `Gateway` has.

The two mappings carry the stages' own proofs over, so that no step of a stage is
examined twice for its own part of the invariant. `UploadStepAsUploader` shows
that a step of the gateway's uploaders is a step of `Uploader`,
`IntakeStepAsIntake` that the others are steps of `Intake`. What is
left is what a stage does to the other's part. The steps of the upload stage
change the ledger only by claims and settlements (`LedgerMoves`). The steps of
the intake stage are invisible to uploaders (`QuietRows`), since a row that has
not come to them counts as PROCESSED for them, except the one that commits a
replay; `Reopens` in `UploaderProofs` is what that one looks like to them, and
`ReopeningTimely` that they do not notice, because nobody holds the row.

`UploadTimingProofs`, assuming only that the settings are natural numbers (the
maxima positive where `config.py` says so):

- `TypeCorrect`, `RetriesBounded`, and under `SettingsFit` also
  `StaleRowsAreOrphans` and `ClaimsAreExclusive`. The inductive invariant is
  `Clocks` (`ClocksHold`): in each place, a bound on the timer and on the age of
  the rows in hand. Each retry writes `last_attempt_at` before it sleeps, so the
  age of a held row never adds up over retries; the longest gap is one back-off
  and one request, or batch wait, cycle and first request. That is `SettingsFit`.
- With the defaults (batch wait 5, poll 1, back-off at most 60, request timeout
  10 for each phase, `stale_after` 600) it leaves minutes to spare. The total of
  `max_elapsed_seconds`, 600 like `stale_after`, does not matter to it.

`MemoryQueueProofs`, assuming that the threads are finitely many:

- `TypeCorrect`, `WakeUpsSuffice`, `NothingLostOrDoubled`. A loop at work has a
  delivery left (`Working`). `NoMissedWakeUp` is inductive by counting: a publish
  or nack adds one message and wakes one thread, a receive takes one thread and
  at least one message if there is one. `Placement` adds to `EachMessageOnce`
  that only published messages are acknowledged.

`UploadCallProofs`, assuming only well-formed rows and controls:

- `TypeCorrect`, `NeverAvoidablyRefused`, `CallImplementsClient`. The
  inductive invariant `Inv` says that the place of a request at the platform
  tells what is known of its rows: nothing is decided before `Work`; an answer
  that was declined is not 200 or not JSON; the answer of a decided request is
  truthful (`Truthful`): its results are a prefix of the decisions and its
  details are details of decisions. From a truthful answer of full length
  `Parse` gets every "ok" right and calls no row retryable that is not
  (`ParseOfTruth`). That the processor's match-key test, the builder and the
  platform's validation agree is `SentRowsAreValid`, for every set of digests.

Checked by TLC only: the liveness properties (`EveryRowSettles`, `NotStarved`,
`RecoverableSettles`), since no prover for fairness is at hand. What a run of
section 4 refutes is, of course, not proved either.

## 7. Plan

Written: the two stages, their composition, the abstract specifications of an
event's history and of the upload client, the clocks, the in-process queue, the
upload request, and the theorems above. Left:

1. What is left of `GatewayLedgerProofs`' results for one event after it was
   raced: `Unraced` excludes a behaviour from the first race of any event on.
2. The Pub/Sub lease by the clock: acknowledgement deadline against the time a
   batch of deliveries takes. `Intake.Redeliver` allows any outcome of it.
3. `_load` reading a batch row by row, for overlapping uploaders.

## 8. Not modelled, and why

- Payload mappers, schemas, hashing and the string rules of normalisation:
  stateless conversions of text, whose results enter as the kinds of lead and the
  sets of digests. Modelled character by character they would be a
  transliteration.
- The webhook signature: a stateless check of one request before the route; a
  request that fails it changes nothing.
- The audit table, reasons, correlation ids, metrics, logs: nothing decides by
  them.
- Reports (`dlq list`, `dlq show`, the read-only routes): they change nothing.
- Construction and start-up (`wiring.py`, `db.py`, `queue_init`), migrations,
  seed data, the fake client: no behaviour of their own.
- The mock's format checks (hexadecimal digests, date format) and its
  `/uploads` endpoints: the builder and the hash produce what the checks ask for
  by formatting alone, and the endpoints serve tests.
- SUPPRESSED to QUEUED: allowed by `models/status.py` (and by `EventHistory`), done
  by no code; see section 4.
