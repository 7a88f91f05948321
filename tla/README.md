# Verification of hhm-api

TLA+ models, TLC runs and TLAPS proofs for the HHM intake API
(`src/src/*.rs`). The service takes pre-interest forms, upload intents,
applications and referrals and persists each one in two independent PostgreSQL
databases, with no transaction that spans them. What can go wrong is in the order
in which the two databases, the clients' retries, their credentials and the expiry of
uploads meet.

Line references are to files under `src/`.

## 1. The system

### Components, state, operations

| Component | State | Operations | What makes it correct |
|---|---|---|---|
| **Create handlers** `src/api.rs` 129-218, 280-357, 396-429 | none in memory: a future's locals (`context`, `input`, `primary.id`) | `create_pre_interest`, `create_upload_intent`, `create_application`, `create_referral` | a 201 means both databases hold the submission under one UUID; a retry is safe and completes what a failure left |
| **WriteContext** `src/persistence.rs` 240-714 | four submission tables in each database, the outbox in the primary | `store_*`, `mark_mirrored`, `record_mirror_failure`, through `insert_or_replay`, `maybe_insert_outbox`, `require_same_payload` | a key is bound once; rows never change; row status, outbox and mirror agree |
| **Outbox row** `src/persistence.rs` 595-714 | status, attempts, next attempt, error code | acknowledgement, failure | ends after 100 attempts; back-off stays in range; status matches the last thing known |
| **Upload completion** `src/api.rs` 220-278, `src/persistence.rs` 384-462 | `hhm_intake_uploads` in each database, the object in Supabase Storage | `complete_upload` (`pending_upload`, `same_upload_identity`, `verify_object`, `verify_upload`) | what is shown as verified is true, in both databases, for one subject; a retry repairs a half-done completion |
| **Application check** `src/persistence.rs` 464-475, 753-782 | reads the upload table | `require_verified_uploads` | an application stands on uploads verified for its own subject |
| **Object verifier, signed URLs** `src/external.rs` 98-229 | none | bounded stream compared with the declared size, type, digest; signing | all or nothing; memory bounded |
| **Admission** `src/auth.rs`, `src/external.rs` 50-96, `src/api.rs` 359-394, 431-520 | none | bearer introspection, Turnstile, contract validation, key and origin headers | fails closed; a bearer is never downgraded to anonymous |
| **Middleware policy** `src/middleware.rs` | static | deadline, limits, TLS policy | the deadline (10 s) drops handlers; production is refused without its guards |
| **Configuration, flags** `src/config.rs`, `src/flags.rs` | static | resolution of five layers, once | the strongest layer decides; nothing starts on an incomplete configuration |
| **Startup, shutdown** `src/main.rs`, `src/lib.rs`, `src/api.rs` 73-112 | two pools, a listener, the requests in flight | connect, build, bind, serve, drain | effects in order; what is accepted is answered; a drain ends |

### How they interact

A request is admitted (validation, identity, Turnstile, headers: nothing is written),
then its handler is a sequence of awaits, each one transaction or one HTTP call:

```
form -> [introspect | siteverify] -> headers -> one of the following

store_primary -> store_mirror -> mark_mirrored [-> sign_url] -> 201
                      \-> record_failure -> 503 with the UUID

read_primary -> read_mirror -> verify_object -> verify_mirror -> verify_primary -> 200
```

Handlers share nothing but the databases and Storage. There is no background worker:
nothing in the repository consumes the outbox, so a submission left behind by a
failure is completed only by its client's retry.

### What is hard

* **Concurrency.** Two requests with one idempotency key, from one client that
  retries before its first request has ended or from two, run through both
  databases in different orders.
* **Partial failure.** Any call may fail; a call that fails or is dropped may have
  committed.
* **Crash.** The deadline, a disconnecting client or the death of the process drops
  a handler at any await. Handlers keep nothing in memory, so a crash of the
  process is the drop of every handler; `Lifecycle` has the process itself.
* **Time.** An upload expires by each database's own `transaction_timestamp()`,
  possibly between two awaits of one handler.
* **Identity.** A retry may be sent with another identity than the first request. A
  Turnstile proof is good once, and may be spent by a request whose answer is lost; a
  bearer may be revoked between two requests.
* **Streams.** A body comes in chunks, with or without an announced length, and may
  break off anywhere.
* **Limits.** The outbox counts to 100 attempts, and its back-off shifts a 32-bit
  integer by that count.

`PROJECT.json` lists each hazard at its line with the properties that cover it.

## 2. Modules

```
Outbox  <-- OutboxRetry                       UploadTable <-- UploadStatus
   ^            ^ refines, for every outbox row     ^               ^
   |            |                                   |               | refines
Persistence <-- DualPersistence --refines--> SubmissionLedger       |
                     ^                         UploadCompletion ----+
                     |                                              |
              ApplicationIntake --refines--> DualPersistence and UploadStatus

DualPersistence <-- Admission --refines--> SubmissionLedger and OutboxRetry
BodyReading <-- StreamedBody (one reading: VerifyObject, or Introspect of Admission, in detail)
     ^
StreamedCompletion --refines--> UploadCompletion (complete_upload, reading chunk by chunk)
Lifecycle    (the process that runs the handlers; its Crash is everybody's Drop)
```

| Module | Models |
|---|---|
| `Outbox` | one outbox row as a record; `Failed`, `Delivered`, `CanFail` are the two UPDATEs with their CASE and WHERE; `Backoff` is `LEAST(3600, (1 << LEAST(attempts, 11)))` with PostgreSQL's int4 shift |
| `OutboxRetry` | the life of one row under any sequence of the two transactions; what every row of `DualPersistence` implements (`EntriesFollowRetry`) |
| `Persistence` | the two databases as `WriteContext` uses them; each `store_*`, `mark_mirrored`, `record_mirror_failure` is a `Commit...` operator |
| `DualPersistence` | the four create handlers, one action per await, with its failures, drops and lost answers; `IInv`, the inductive invariant |
| `SubmissionLedger` | the abstract specification: retain, replicate, acknowledge |
| `UploadTable` | `hhm_intake_uploads` in one database, its statements as operators |
| `UploadStatus` | the abstract specification of the two upload tables |
| `UploadCompletion` | `complete_upload` await by await over both tables and Storage |
| `ApplicationIntake` | `DualPersistence` with `require_verified_uploads` and with upload tables that change as `UploadStatus` has it |
| `Admission` | what precedes the handlers of `DualPersistence`: form, bearer or proof, headers, each request with credentials of its own, and the two authorities |
| `BodyReading` | one reading of a body as a record: `verify_object` and `bounded_response` with the statuses and headers before them, chunk by chunk |
| `StreamedBody` | any one reading, from the request to its verdict |
| `StreamedCompletion` | `complete_upload` with a `BodyReading` of the object in each handler, in place of the one step `VerifyObject` of `UploadCompletion` |
| `Lifecycle` | `main` and `serve`: layers of settings, policy, startup, draining, signals |
| `MC...` | constant values and symmetry for TLC |
| `...Lemmas`, `...Proofs` | the theorems |

Correspondence with the code:

* A handler's position is `pc[c]`: the call it awaits. The locals that survive an
  await are the request (`input`, `request`) and `primary.id` (`storedId`).
* One transaction is one step. The unique index on `idempotency_key` and the row
  locks of the UPDATEs serialise the transactions that conflict, so a transaction
  takes effect at its commit. One that returns an error has rolled back; one whose
  caller lost the answer has committed or not, which is a choice at the moment the
  call is lost (`MaybeCommit...`).
* `input` is fixed for a client, as a client that repeats "the same key and
  digest" has it (in `Admission` the form and the key are fixed, and the subject is
  that of the latest request admitted); two clients with the same key stand for two
  requests in flight at once, with the same payload and identity or not.
* Ids are drawn fresh (`Uuid::new_v4`): the pair of a client and its n-th request.
* `rowStatus` and `outbox` are functions of ids, meaningful for ids that have rows;
  an upload intent has no status column (`HasStatusColumn`).
* Storage signs upload URLs without `upsert`, so an object is written once
  (`PutObject`). This is the one assumption about a service outside the repository
  that `VerifiedObjectsMatch` rests on.
* Object keys are a function of the canonical id and what was declared, so they are
  as equal in the two databases as the id and the file are; `File` stands for
  digest, type and size together.
* In `Admission`, `active` and `redeemed` are the knowledge of Shared Auth and
  Turnstile, `vouched` and `denied` record what was decided for the properties. What
  `validate()` accepts, and whether key and origin are in order, are one bit each; a
  bearer or proof malformed in itself is `BadHeader` or `NoProof`. A proof solved for
  another action or hostname is `Foreign`. `Introspect` and `Siteverify` are calls that
  are answered, `FailIntrospect` and `FailSiteverify` those that are not, or not
  readably; whether a proof was spent then is a choice.
* In `BodyReading`, `WithChunk` takes any number of bytes. The length announced, when
  it is, is that of the body, and a body cut short is an error of the stream: this is
  what HTTP framing and reqwest give. Contents that differ have different digests.
* In `StreamedCompletion`, `stream[c]` is what the handler has of the object: the
  response of Storage is of the object as it was when the handler asked (`OpenObject`),
  compared with the row as it was when `pending_upload` read it. `MissObject` is the
  status Storage gives for an object that is not there; another status that is no
  success is a fault of Storage.
* `WithinLimit` are the files of at most `MAX_UPLOAD_BYTES`. Nothing under `src/` keeps
  a larger one from being declared, so the models let it be, and `verify_object` refuse it.
* In `Lifecycle`, a setting has a word in each layer or none; the settings no property
  tells apart are one bit (`complete`). The typed coercion is flags-2-env's, outside the
  repository: whether it makes a null of a blank is a choice (`nullsBlanks`), and
  `resolve_from` does not write a null over the environment. Key and secrets are read from the environment
  only, as the contract ignores them. The grace period of a stop is taken to be long
  enough for every request in flight when SIGTERM came (Docker's default, 10 s, is the
  default deadline). A connection whose request head never comes is not modelled.

Definitions whose comment starts with "Variant" are not behaviour of the
code. Each is a plausible mistake in the definition next to it, and the property
it is listed with in `PROJECT.json` ("mutants") fails when it takes the definition's
place: this shows that the property says something about the code.

## 3. Runs

| Run | Question | Bounds |
|---|---|---|
| `submission_races` | do receipts, databases, outbox and retries stay consistent when three clients race for one key with two payloads? | 3 clients, 2 tries, 2 faults, 1 attempt |
| `every_kind` | is the proofs' invariant true for the kinds with extra steps (URL to sign, uploads missing), and does a client that retries get its 201? | 2 clients, 3 tries, 2 faults, 2 attempts |
| `outbox_retry` | does one outbox row behave over its whole life? | the code's 100 attempts |
| `upload_completion` | is what the databases show as verified true, however the object was read, and is a truthful report acknowledged? | 2 clients, 1 upload, 5 files with 3 digests, 1 to 3 bytes and a limit of 2, 2 owners, 2 faults |
| `applications` | does each database hold only applications it can support? | 2 clients, 2 tries, 2 uploads, 2 identities, 1 fault |
| `admission` | who can get what stored, with which credentials? | 2 clients, 2 tries, 2 forms, 4 tokens, any proof, 1 fault |
| `streamed_body` | is a verdict about the whole body? | bodies of up to 4 bytes, limits of 3 and 2 |
| `lifecycle` | do startup and shutdown keep their order, whatever the settings? | every setting in 2 layers, 2 requests |
| `failure_over_receipt`, `subject_divergence`, `retained_application`, `undrained_stop` | violations, see below | 1-2 clients or requests |

What the properties say:

* `ReceiptsAreDurable`, `MirrorFollowsPrimary`, `MirrorNeverContradicts`: both
  databases hold what was receipted; the mirror never holds what the primary does
  not; the branches of the handlers for a mirror that answers with another id are
  not taken while nothing else writes the mirror.
* `OutboxComplete`, `AcknowledgementIsTrue`, `StatusesAgree`: the outbox has exactly
  the submissions; acknowledged means mirrored; the row's status and the outbox
  entry, written by two transactions of two statements each, never disagree.
* `StableId`, `RetryIsNeverRefused`, `RowsAreImmutable`: whatever a client was told
  about a key names one retained submission, and repeating it is not a conflict.
* `ImplementsLedger`: all of this as a refinement of `SubmissionLedger`.
* `EntriesFollowRetry`: the outbox row of every id leads the life of `OutboxRetry`, so
  that what is shown of one row holds of all rows the racing handlers write. A replay
  that set the attempts back, for one, would break it.
* `RetriesSucceed`: once failures stop, a client that retries is answered 201 or its
  key belongs to another payload. It is not asked of applications, whose uploads may
  expire for good.
* `TerminalWhenExhausted`, `BackoffInRange`, `RetriesSlowDown`,
  `AcknowledgedAfterExhaustionIsFinal`: the arithmetic and the end of the outbox.
* `VerifiedObjectsMatch`, `VerifiedTogether`, `CompletionIsTrue`,
  `CompletionSucceeds`, `ImplementsUploadStatus`: the same for uploads.
* `ImplementsUploadCompletion`: reading the object chunk by chunk, while other handlers
  read, write and die, rows expire and the object may come late, decides as comparing it
  in one step would. `StreamedInv` is the invariant of the proofs.
* `ApplicationsAreSupported`, `ApplicationsKeepTheirSubject`: the store does not
  compare subjects on a replay, yet an application cannot change its subject between
  the databases, because its uploads cannot. `TurnedAwayOnlyByExpiry`: an application
  the primary took is turned away, when repeated or at the mirror, for nothing but an
  upload that has expired in that database.
* `AdmissionInv` is the invariant of the proofs. `RowsAreVouchedFor`: a primary row's
  subject was introspected, or its proof redeemed, for the very request that stored
  it; a mirror row's for some request. `NeverDowngraded`: a request with a bearer never
  reaches Turnstile, nor the handlers as an anonymous one. `RefusalsStoreNothing`: a
  request answered 401, 403 or 422 has no row. `FreshCredentialsSucceed`: a public
  client that repeats its form with fresh credentials gets through, whatever proofs
  were wasted, unless another form has its key.
* `VerdictsAreOfTheWhole`, `RefusedForCause`: an accepted object is the declared one to
  its last byte; a refusal has a reason in the body or the status. `StreamInv` is the
  invariant of the proofs; a part of it is `BoundedReading`, that no more than the limit
  is taken.
* `LifecycleInv`: no pool is opened for help, a mistyped option or an incomplete
  configuration, no request arrives before both pools are there, a server that listens
  has the policy its settings make, and a request is cut off by the death of the process
  only. (What a start that fails had connected is given back by the end of the process.)
  `StrongestWordGoverns`: HTTPS is required exactly when the strongest word for TLS is a
  mode of it, and limits are those of production, with a key that can be used and with
  HTTPS, exactly when the strongest word for `APP_ENV` is "production", whatever weaker
  layers say; under an unknown word the server does not start. It is stated over the
  layers, without the operators that resolve them.
  `AcceptedAreAnswered`, `DrainsEnd`: ctrl-c drops no request, and the drain ends
  however busy the server was.

### Why the bounds are enough

* *Keys.* Rows of different keys are independent in the code (every statement selects
  by key or by id), so one key per kind suffices; two digests make conflicts.
* *Clients.* Three are one to store, one to race and one to hold a different payload.
* *Faults.* Two put a failure on either side of another request's step, or two in
  one submission. In `every_kind` there is one try more than there are faults: with
  no try left after the last fault, a client has given up. In `admission` a fault is
  also a request that is not in order, or a revocation: one of them, with any other
  request sound, and with two tries, lets every such case meet a retry and a race.
* *Credentials.* Four tokens, one in order and three that each lack one thing: the
  audience, the scope, a usable subject. Proofs are as many as requests.
* *Bodies.* One byte more than the larger limit, so that a chunk may cross it from
  any distance, with declarations that are right, short, long, or of another content
  or type. Only the order of lengths and equality matter to the code. In
  `upload_completion` the files are one of a single byte, the same under another type,
  one that needs two chunks or takes one, one over the limit, and one declared with a
  size that is not that of its content.
* *Layers.* `resolve_from` extends one layer by the next, so one layer and a stronger
  one decide; the weaker one is the environment, whose word comes back under a blank
  that comes to nothing. The theorem has any set of layers.
* *Attempts.* 1 and 2 let the limit bind within a few faults; `outbox_retry` has the
  code's 100.
* *Uploads.* Completion of one upload reads and writes nothing of another, so one
  suffices there; an application names two.
* Every one of these bounds is a constant that the theorems of section 4 leave
  arbitrary. Symmetry is used in runs without liveness only.

`CHECK_DEADLOCK FALSE` is set where clients stop: their tries are bounded. The outbox
row never stops, since an acknowledgement is always possible.

### Fairness

`RetriesSucceed` and `CompletionSucceeds` assume weak fairness of two actions of each
client: `Begin` (a client not yet accepted sends again, as the 503s' `retryable: true`
tells it to) and `Handle`, or `HandleStreamed` (a call that neither fails nor is dropped
returns, and Storage goes on with a body it has begun, which Tokio's scheduling and the
timeouts of the database pools and HTTP clients provide).
No fairness is asked of reservations, of the client's PUT, or of expiry. Faults are
bounded, which is what "once failures stop" means.

`FreshCredentialsSucceed` assumes the same of `SendSound` (a client sends again with a
bearer that is good or a proof just solved; nothing is asked of the requests a client
sends with less) and of the calls of admission that are answered, which the timeouts of
5 s and 15 s provide. `AcceptedAreAnswered` and `DrainsEnd` assume that every request in
flight is answered, which the deadline of the middleware provides, and that `main`
returns when it can.

### Where the code and its documents differ

Each of these is a run in which TLC finds the violation.

1. `failure_over_receipt`. `record_mirror_failure` (`src/persistence.rs:654`) sets
   the status whatever it was. One request is answered 201, with the outbox at
   `mirrored`; a second one for the same submission, a repetition or one that raced
   with it, finds the primary row in place or has stored it, its call of the mirror
   fails, and it records the failure over the acknowledgement. `formal/intake_api.qnt:229-233`
   (`dual_persistence_order`) has a failure on record only of a submission neither in
   the mirror nor receipted. `AcknowledgementsStand` is about the step that overwrites,
   not about that state: a failed call that committed leads to the state by itself,
   with one request and no acknowledgement, which says less. The mirror holds the row;
   only the evidence is wrong, and `StatusesAgree` shows it is wrong consistently.
2. `subject_divergence`. `docs/architecture.md:29` says the mirror is written with
   "the same UUID, subject, and payload digest". A retry under another identity
   replays the primary's row by key and digest and writes the mirror with its own
   subject. For applications this cannot happen (`ApplicationsKeepTheirSubject`).
3. `retained_application`. `docs/architecture.md:46` says repeating the same key and
   digest is safe. `store_application` checks the uploads before it looks for the
   row in place (`src/persistence.rs:474`), so the retry of a retained application
   is refused with 409 once an upload has expired.
4. `undrained_stop`. `.just/env.just:346` says that SIGTERM reaches the server as PID 1
   "and it can drain on `docker stop`". `shutdown_signal` (`src/lib.rs:36`) waits for
   ctrl-c (SIGINT) alone, and PID 1 has no default action for SIGTERM: the server goes
   on accepting, and SIGKILL cuts off what it accepted, even when everything in flight
   at SIGTERM was answered within the grace period. `DualPersistence` shows what this
   leaves behind is repaired by a retry; `AcceptedAreAnswered` that ctrl-c would do.

Smaller observations, which no run is about: `verify_object` answers
`ObjectMismatch`, "stored object does not match its intake declaration", for any status
of Storage that is no success (`src/external.rs:191`), so that an outage of Storage is a
final 409 where an outage of Shared Auth is a 503 to be retried (`RefusedForCause` admits
the status as a cause for this reason); a blank word in a strong layer, unless the typed
coercion makes it null, hides the word of a weaker one, "production" too, and falls to
the default (`Lookup`); if it makes it null, the environment's own word stands, even
where a layer between the two says something else (`ResolvedWord`); when the outbox entry becomes
`terminal_failure` the row's `mirror_status` stays `retryable_failure` (modelled by
`AsRowStatus`); the cap of 3600 s never binds, the longest back-off is 2048 s; a
replayed upload intent whose first row has expired is answered 201 with a URL for an
upload that can no longer be completed; an upload whose mirror row was written under
another identity can be completed by neither; the Turnstile proof is spent before the
idempotency key and origin headers are looked at.

## 4. Proofs

All theorems hold for every value of the constants, under the named assumptions of the
modules: bounds are naturals (`MaxTries` and `MaxAttempts` positive), `Kind` is a set
of the four kinds, `Anonymous` is no subject, `ShaOf` maps files to digests, `NoFile`
is no file, an application names at least one upload, `Grant` says something of every
token, digests are those of a form with or without its proof, and limits are naturals.
`FileAssumption` of `StreamedCompletion` says what a file of `UploadCompletion` is: a type,
a size and a content, within the limit or not by its size, with the digest of its content.

* **`OutboxLemmas`, `OutboxRetryProofs`.** `Failed` and `Delivered` keep the entry's
  type and the rule that `MaxAttempts` attempts mean terminal or mirrored; from these,
  `OutboxInvariant`, `EntryTyped`, `ErrorsInAccord` and `AcknowledgementFinal`.
  `BackoffBounded` and `BackoffNeverShrinks` need that the delay on record is that of
  the last failure (`DelayFollowsAttempts`) and the table of the back-off (`Backoffs`).
* **`DualPersistenceProofs`.** None of the properties is inductive by itself: that a
  201 is durable needs what a handler knows at each await (`Backed`), which needs
  that rows are never removed, that keys bind once (`KeysBindOnce`), and that the
  id a handler is about to use is nobody else's (`IdsAreSpent`). `IInv` is their
  conjunction. One lemma per action shows that it is preserved: `InductiveInvariant`.
  The eight state properties are a consequence of `IInv` alone
  (`InvariantKeepsPromises`), and `RowsNeverChange` of its steps.
  `Refinement` shows that every step is a `Retain`, a `Replicate`, an `Acknowledge` or
  a stutter of the ledger.
  `RetryImplemented` composes the handlers with `OutboxRetry`: inserting a row writes
  the entry of its id, and this is no step of `OutboxRetry` but for
  `UnusedEntriesAreNew`, by which that entry was as the insertion leaves it; every
  other step fails or acknowledges one entry (`EntryFate`). `EveryDeliveryInOrder` and
  `LateFailuresRollBack` state for all rows of the running system what `OutboxRetry`
  shows of one.
  `SubjectsFollowIdentity` is the other side of the run `subject_divergence`. It has a
  hypothesis on the initial state, `OneIdentityEach`: who sends the same payload under
  the same key does so under one identity. Then `SameSubject` holds, so the divergence
  has no other cause.
* **`UploadCompletionProofs`.** For `complete_upload`, `IInv` adds what a handler may
  rely on after each check (`Known`): ownership, the digest, the object, and the mirror's
  verification do not change, whereas expiry may, which is why the UPDATEs check it again.
  `VerifiedObjects`, `VerifiedInBoth`, `CompletionTrue` follow; `OnlyExpiryRefuses` says
  that the second check can fail for nothing else. `Refinement` shows that
  `UploadCompletion` implements `UploadStatus`.
  `StreamedRefinement` opens the step `VerifyObject`. A step of a stream stutters while
  the verdict is open, is a failed call if the status was no success, and is
  `VerifyObject` when the verdict falls (`StreamedStep`): accepted means that object and
  declaration match, refused under a success status that they do not
  (`VerdictIsComparison`, from the lemmas about one reading). The verdict is about the
  response that began some steps earlier, and `VerifyObject` compares what is there now,
  so this needs `StreamedInv`: the object of a stream is still the one in Storage, as an
  object is put once, and its declaration is still the one in the primary, as rows
  neither change nor go (`WhatIsReadStays`). `StreamedCompletionIsTrue` carries the
  theorems about `UploadCompletion` over.
* **`ApplicationIntakeProofs`.** The composition is a step of `DualPersistence` or of
  `UploadStatus`, so it implements both, and their theorems carry over. `StatusInv` is
  inductive for the abstract tables: `UploadTablesInAccord`.
  `ApplicationsSupported` needs that tables only grow (`TablesGrow`) and that a row is
  only added past the check; `HandlersSupported` that a handler past it stays supported.
  `OneSubject` is the argument in the name: the mirror's
  row has the primary's digest, the digest names an upload, both databases verified
  it for the row's subject, and a verified upload has one owner. `OnlyExpiryTurnsAway`
  is the other side of the run `retained_application`: support in the primary carries
  over to the mirror (`MirrorSupports`), so that of the conditions of
  `require_verified_uploads` only expiry is left to fail.
* **`AdmissionProofs`.** `AdmissionInv` adds to `IInv` what is known of a request before
  it is admitted (`BeingAdmitted`: its id is on no row and not denied, and only a
  request without a bearer is at Turnstile) and after (`Admitted`: it was vouched for,
  under the subject it is handled with). The new part is that the subject of `input`
  changes between the requests of a client, which `IInv` must survive:
  `StartPreservesIInv`. `AdmissionSpec` does not imply the `Spec` of `DualPersistence`,
  where `input` is fixed; but its other steps leave the databases alone
  (`OnlyHandlersStore`), so the lemmas about `IInv` and about the handlers' steps can be
  used as they are. `StoredIsVouchedFor`, `BearersAreNotDowngraded`,
  `DenialsMutateNothing` are what is new; `AdmissionKeepsPromises`,
  `AdmissionKeepsRows`, `AdmissionImplementsLedger` and `AdmissionImplementsRetry` carry
  the results about the handlers over to clients whose identity changes.
* **`StreamedBodyProofs`.** `ReadingInv` says of a reading that what was taken is the
  prefix of the body as long as the count; `PrefixGrows` is the lemma about sequences.
  One lemma per step shows that the step keeps it, wherever the reading is kept: in
  `StreamedBody`, or in a handler of `StreamedCompletion`. From it, `WholeBodiesOnly`,
  `RefusalsHaveCause` and `ReadingIsBounded`, for any limits.
* **`LifecycleProofs`.** That effects are in order and no living process cuts a request off is
  inductive only with what a process that started has passed (`StartedSoFar`): its
  settings held when it checked them, and they do not change. `StrongestGoverns` then
  needs that the word looked up is the governing one (`GoverningIsLookedUp`), and that
  what is looked up governs unless it is the default (`LookedUpGoverns`), for which some
  layer must be the strongest that speaks (`OneDecides`).

Model-checked only: the five liveness properties (`RetriesSucceed`, `CompletionSucceeds`,
`FreshCredentialsSucceed`, `AcceptedAreAnswered`, `DrainsEnd`), as the prover does not
reason about fairness and ENABLED; and the four violations, of course.

## 5. Not modelled, and the plan

Not modelled: CORS and health endpoints (stateless; readiness pings both databases at
once and keeps nothing), hex encoding (a pure conversion with exhaustive unit tests), the
string tests of URLs, object keys and signed URLs, the typed coercion of flags, the rate
limiter, body limit and TLS checks of `ores-middleware` and the validators of the contract
library (other repositories), `run_websocket_message` (no caller),
`formal/intake_api.qnt` and `tests/formal_wave5_model.rs` (models, not the program),
build and deployment scripts. Nothing works the outbox, so nothing is said of
submissions whose clients give up, but that the outbox knows them (`OutboxComplete`).

Taken in one step where another module has the detail: `Introspect` in `Admission`
(`StreamedBody` has the reading of the answer), `complete_upload` behind its admission
(`Admission` has it for the create handlers, which call the same functions), the drop of
a handler in each module (`Lifecycle` has the process).

The order of the plan was the most important behaviour first.

1. `Outbox`, `OutboxRetry`: the row every failure ends in.
2. `Persistence`, `DualPersistence`, `SubmissionLedger`: the core.
3. `UploadTable`, `UploadStatus`, `UploadCompletion`.
4. `ApplicationIntake`: the composition.
5. `Admission`: identity, proofs and headers, composed with the handlers and retries.
6. `StreamedBody`: the two bounded streams.
7. `Lifecycle`: settings, policy, startup and shutdown.
8. Proofs about 5 and 6.
9. Proofs about 7; the composition of `DualPersistence` with `OutboxRetry`; the other
   sides of the violations as theorems.

10. `BodyReading`, `StreamedCompletion`: the stream substituted for the one step
   `VerifyObject`, and the proof that this changes nothing.

These are done.
