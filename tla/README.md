# AeroPass in TLA+

A verification development of the AeroPass backend (`src/`): TLA+ modules that model its
components as far as a model checker reaches, TLC configurations that check them on small
instances, and theorems about them that TLAPS proves for every instance.

AeroPass turns a traveller's registered identity document into boarding passes. A passenger
registers a document, proves with a selfie to be its holder, receives a digital identity, and from
then on asks for short-lived QR passes that a checkpoint reads once. The backend is a FastAPI
application run as serverless functions: **every request is an invocation of its own**, no state is
kept in memory, an invocation may be killed at any `await` (`vercel.json`: after 30 s), and
everything shared is in Postgres (READ COMMITTED, row locks, unique indexes), Redis, Blob and QStash.

## 1. Inventory

Paths are under `src/src/aeropass/` unless they start with `src/`.

| Component | State | Operations | Interacts with |
|---|---|---|---|
| Passes (`services/pass_issuance_service.py`, `services/credential_lifecycle_service.py`, `domain/credential/`) | `credenciales_acceso`, `transiciones_credencial`; `qr:{jti}` in Redis | issue/renew, consume, revoke, detail, sweep | locks the passenger's row, writes Redis inside the transaction of issue and after the commit elsewhere |
| Token store and proxy (`adapters/redis/token_store.py`, `token_proxy.py`) | a key with a TTL per live pass | register (SET NX EX), consume (Lua), revoke (DEL), is_active | passes; the checkpoint's fast path |
| Verification (`services/identity_verification_facade.py`, `biometric_verification_service.py`, `identity_service.py`, `domain/passenger.py`, `domain/verification.py`) | `pasajeros.estado`, `intentos_fallidos`, `intentos_verificacion`, `identidades_digitales`; selfies in Blob | verify a selfie | Blob and the provider with nothing locked, then one transaction; the outbox after it |
| Outbox (`services/outbox_dispatcher.py`, `domain/events.py`, `adapters/qstash/`) | `outbox_eventos`: estado, intentos, proximo_intento_at | publish_now (once, after the commit), dispatch_due (each minute), save | written by verification in its own transaction; QStash; the `qstash` breaker |
| Registration (`services/registration_service.py`) | `pasajeros` and its two unique indexes; photos in Blob | register, get_mine | Blob outside any transaction |
| Circuit breaker (`adapters/resilience/circuit_breaker.py`, `adapters/redis/breaker_state.py`) | `cb:{name}` in Redis | call | wraps the biometric provider and QStash |
| Biometric providers (`adapters/biometrics/`) | none | evaluate: two scores, or `None` | verification, through a breaker |
| QR token (`domain/credential/builder.py`, `signing.py`, `api/routers/wellknown.py`) | the signing key; caches of the JWKS at the checkpoints | sign, verify, publish keys | passes; checkpoints offline |
| Rate limiter (`adapters/redis/rate_limiter.py`) | a window per passenger in Redis | hit | issue |
| Persistence (`adapters/db/`, `src/migrations/`) | all tables | repositories, unit of work | every service |
| Media storage (`adapters/blob/`) | private images | put, get, delete | registration, verification |
| Auth, API and wiring (`main.py`, `api/`, `adapters/auth/`) | the container's cached dependencies | session, form, routes, errors to statuses | every service, in "real" and "fake" mode |
| Fault injection (`adapters/faults/`, `api/fault_injection.py`) | a plan per request (ContextVar), `applied` | parse, trip, one wrapper per dependency | sits under or over each adapter; off in production |
| Health (`services/health_service.py`, `adapters/health/`) | none | ping database and Redis | polled each minute |
| Observability (`observability/`, `adapters/observability/`) | hooks of the process | span, emit_audit, `@traced`, `@audited` | wraps services and adapters |
| Fakes and tools (`adapters/fakes/`, `tools/`) | in-memory doubles | - | fake mode, scripts |

What is hard here is the same everywhere: transactions of several invocations interleave at every
`await`; an external call sits between the moment something is checked and the moment it is used;
an invocation dies between its commit and what should follow it; a COMMIT or an HTTP reply is lost
after it took effect. `PROJECT.json` lists these hazards at their lines with the properties that
watch them. The properties that make each component correct:

* **Passes** - a pass is used once; a passenger has one live pass per flight; the history explains
  the row and is never rewritten; nothing is accepted past its deadline; Redis never refuses what
  Postgres would accept; nobody waits for ever; what expires is swept.
* **Verification** - no failure is lost or counted twice; a verdict is final and reported once;
  identity, attempt and event are one commit; every identity is announced in the end.
* **Outbox** - at least once, never marked before it was handed over; leases are exclusive.
* **Registration** - one passenger per account and per document; what a caller is told is true.
* **Circuit breaker** - one trial in HALF_OPEN; it opens on failures that really happened within the
  window, however stale what its callers read; nobody is shut out for good.
* **QR token** - the lifetimes of token, row and Redis key nest; a key change refuses no good token
  for longer than the caches and the requests in flight last; the app renews in time.
* **A request as a whole** - whatever dependency fails, by itself or because the request asked for it,
  the answer is the documented one, another request's plan does not change it, and answer, audit
  record and what was kept tell the same story.
* **Recovery** - once QStash is back, an event is late only after a setback: a refusal by another call's
  trial, a sweep that is lost, or one that dies with it. A backlog costs a period per full batch.

## 2. Modules

| Module | Models | Lines of the code |
|---|---|---|
| `CredentialDomain` | the credential aggregate: state table, `Transition`, lazy expiry | `domain/credential/` |
| `PassLifecycle` | issue, renew, consume, revoke, detail, sweep over Postgres and Redis | the two pass services, token store, credential repository |
| `SingleUsePass` | abstract: what the pass subsystem promises | - |
| `EventChannel` | abstract: what the outbox promises to services and consumers | `outbox_eventos`, QStash |
| `Verification` | the verification facade, over `EventChannel` | facade, services, domain |
| `OutboxDispatcher` | claim with lease, publish, save; shown to implement `EventChannel` | dispatcher, events, outbox repository |
| `Registration` | the register operation and the unique indexes | registration service |
| `CircuitBreaker` | `call` over its shared, unlocked store | circuit breaker, breaker state in Redis |
| `OutboxRecovery` | one event's backoff, the sweep's schedule, batch, limit, loop, lease and life, with the breaker between them and QStash | events, dispatcher, publisher, schedule |
| `QrToken` | claims, row, Redis key, published keys, caches, rotation, clocks | builder, signing, well-known route, signer's wiring |
| `ApiRequests` | one request through middleware, session, adapters, service, audit and handlers | `main.py`, `api/`, adapters, `adapters/faults/`, hooks |
| `MCPassLifecycle`, `MCQrToken`, `MCApiRequests` | constants and symmetry of runs | - |
| `PassLifecycleProofs`, `PassPromiseProofs` | theorems about `PassLifecycle`; the second extends the first and relates it to `SingleUsePass` | - |
| `VerificationProofs`, `OutboxDispatcherProofs`, `RegistrationProofs`, `QrTokenProofs`, `ApiRequestsProofs` | theorems about the module each is named for | - |
| `CircuitBreakerProofs` | theorems about `CircuitBreaker` and `OutboxRecovery` | - |

How they compose: `PassLifecycle` extends `CredentialDomain` and is shown to refine `SingleUsePass`.
`Verification` instantiates `EventChannel` and uses its actions (it *assumes* the channel);
`OutboxDispatcher` instantiates it with a refinement mapping and *provides* it, fairness included.
Together they say that an identity, once committed, is announced. `OutboxRecovery` extends
`CircuitBreaker`: the sweep is one of the breaker's calls, and time passes for the breaker, the row
and the schedule in the same step. `ApiRequests` takes the services' outcomes as given (the
other modules are about those) and models what the others abstract to "fails": which exception each
dependency raises in each mode, who translates it, and what the caller is told.

### Correspondence

A request is an element of a constant set and has a program counter. It is cut into steps exactly
where its coroutine awaits something another request can influence; what happens between two
such awaits is one action, with every call it makes. Row locks are variables holding the name of the
holder (`lock`, `rowLock`, `paxLock`); an open transaction's writes are in `tx` and are copied to the
committed tables by the commit, which also releases its locks. Every coroutine has a `Crash`: what is
uncommitted is rolled back, or - the reply to COMMIT was lost - takes effect all the same.

* `PassLifecycle`. A credential carries the name of the issuer that mints it (the `jti` is new).
  `row` holds the row with its history; `token` the Redis key with its expiry instant;
  `previous` is `anterior_a_olvidar`. `IssueStart .. IssueForget` are the segments of `issue`, and so on.
  A SELECT FOR UPDATE that waits is an action that is not enabled; after the wait Postgres
  re-evaluates the row, so the action reads the row at the instant it gets the lock. The clock
  is read where the code reads it - `consume` before its transaction, `issue` under the lock.
* `Verification`. A selfie's name stands for the `intento_id`, the identity it may originate and
  its event. `result` is what the resilient wrapper returned; scores are in ten-thousandths.
  `Submit` and `Refuse` are the router's read of the passenger and the early check, `RecordAttempt` and
  `RejectLate` the second check under the lock, `CommitAttempt` the one commit.
* `OutboxDispatcher`. Instants are kept relative to the present, so time is unbounded. A dispatcher is
  the scheduled sweep or the request that has just committed an event (which stands under the
  event's own name and calls publish_now once). `save` is a read and an UPDATE of the columns that
  differ, as SQLAlchemy does it. An invocation has `life` ticks left, and is killed at the end.
* `Registration`. Each SELECT has its own snapshot. The INSERT makes its index entries one after
  the other; an entry of an open transaction is waited for, a committed one is `UniqueViolation`.
* `CircuitBreaker`. The store is one hash (`cb:{name}`); `get` and `save` are steps of their own, and a
  call carries in `state` what it read and decided, as the coroutine's local does. Instants are kept
  relative to the present. `StoreFails` says whether a Redis call may fail, which reads as a closed
  circuit and is not retried on a save. A killed call may leave a save on its way.

* `OutboxRecovery`. Before a recovery only the breaker moves; at `Recover`, at any moment, the row's
  backoff, the schedule's phase and the sweep under way are any they can be. From then until the event is
  delivered (`evento` is "ninguno" again) QStash answers, while Redis may fail and invocations may die.
  `ahead` counts the full batches of rows due before the event: `SweepLeavesOut` is a batch of `limit=100`
  that ends before it. `turn` counts the entries that its own batch still tries first, one after the
  other (`SweepOtherEntry`), each a call of the breaker; `life` is what the platform leaves the
  invocation. A killed sweep leaves the row leased. `since` is the ticks from the recovery or the last
  setback: `SweepMissed` (the schedule's call is lost, or dies before its claim commits), `SweepDies` with
  the event in its batch, or `SweepRefused` by a circuit that is HALF_OPEN, so by another call's trial. A
  refusal by an OPEN circuit is no setback: `CircuitOpenError` becomes `PublishFailed` and a backoff begins.
* `QrToken`. Time runs in fractions of a second, because what could go wrong is the truncation of the
  claims. A pass has `exp` (token), `expira` (row) and `clave` (Redis). A key pair is `[kid, par]`, so
  that a kid may be used twice; a signature is good when the pairs are equal. A rotation is a
  deployment: new requests take the new key at once, running ones keep theirs. A checkpoint is online when its
  cache runs out; `Verify` is the verifier by a clock that may be off.
* `ApiRequests`. `todo` is the sequence of dependencies the operation uses; each action is the
  use of one, with the fault wrapper, the adapter and the `except` of the service around it.
  `Thrown`, `Adapted` and `Raised` are the three layers of exceptions; `Status` is the
  handlers'. `applied`, `audit` and `effects` record what fired, what was told and what was kept.
  A dependency that really goes down may take only the reply with it (`Perhaps`).
  `failures` abstracts the two circuits to a count (`CircuitBreaker` is about the circuit itself).
  `Session` is the audit of `authenticate`, `Sweep` the lifecycle sweep and `count_pending` after a
  dispatch; an account that submits its own document again is given its passenger (200).
  `Documented` is what specs/003 and the contracts promise, `Given` that and the one answer
  the code gives against them (finding 4).

Data is abstract: names, images, permissions, signatures, messages and logging are left out; a
credential's deadline and a score's relation to its threshold are kept because properties
depend on them.

## 3. Runs

| Run | Instance | Shows |
|---|---|---|
| `pass_redeem` | 1 issuer, 2 checkpoints, a revocation, owner's view, sweep, 2 passengers, clock 0..1 | `SingleUse`, `HistoryExplainsRow`, `AnswersAreRecorded`, `DeadlineRespected`, `ProxyNeverRejectsUsable` (with the revocation), `CommittedIsKept` |
| `pass_renewal` | 2 issuers, a checkpoint and the sweep on one slot, with fairness | `OneLivePassPerFlight`, `ProxyNeverRejectsUsable`, refinement of `SingleUsePass`, `RequestsAreAnswered`, `ExpiredAreSwept` |
| `pass_forget` | 2 issuers | **violation** (finding 1) |
| `verification` | 3 selfies, 2 passengers (one unregistered), limit 2, with fairness | `AttemptsExplainPassenger`, `IdentityComesWithItsEvent`, `ConcludedOnce`, `RowExplainsVerdict`, `VerdictIsFinal`, `SelfiesAreAnswered`, `IdentitiesAreAnnounced` |
| `outbox` | 2 events, their 2 requests and a sweep, lease = platform limit = 2 ticks, with fairness | `LeaseIsExclusive`, `NothingIsOverwritten`, refinement of `EventChannel` |
| `registration` | 3 submissions, 2 accounts, 2 documents, with fairness | `OnePassengerEach`, `AnswersAreTrue`, `SubmissionsAreAnswered` |
| `registration_resubmit` | 2 submissions of one account | **violation** (finding 2) |
| `breaker` | 2 invocations, one of them the sweep; threshold 2, window 1, open 2, timeout 1, lag up to 1 tick; backoff 2, schedule 2, lease and platform limit 1, batches of 2, up to 1 full batch ahead, with fairness | `OpensOnTruth`, `Recovers`, `LateOnlyAfterASetback` |
| `breaker_probe` | 2 invocations with a Redis that never fails | **violation** (finding 3) |
| `requests` | every operation as every user with every fault and every provider answer, beside one of 3 other requests; 4 deployments; one real outage | `AnswersAsDocumented` (but for finding 4), `FaultsAreTold`, `RepliesMatchEffects` |
| `requests_malformed` | the same request alone | **violation** (finding 4) |
| `qr_token` | 1 issuance, 1 checkpoint, 3 key pairs under 2 kids, 6 clock offsets, half seconds | `LifetimesNest`, `RefusedOnlyAfterRotation`, `RenewsInTime` |

Each module has one type invariant besides. Every property of a passing run has a mutant in
`PROJECT.json`, a plausible bug in the mapped code under which TLC finds it violated.
Deadlock is not checked where requests are finitely many and end; it is in `outbox` and `breaker`,
which never stop.

**Bounds, and why they suffice.** The interesting races are between two requests about one row, with
a third that changes the row meanwhile; that is the size of each run. `TTL = 1` and a clock of two
instants give every order of "read the clock", "deadline passes", "commit". Three selfies
against a limit of two let a success or one failure more arrive after the
last failure that counts. Two scores straddle the threshold by less than the rounding step; thresholds
and limits are otherwise only compared. In the outbox, backoffs of 2 and 3 ticks (cap 3)
lie on both sides of the invocation's length, `intentos` is not counted past `MaxIntentos` = 2,
where the backoff is at its cap, and instants older than one invocation are not told apart.
In the breaker, one tick of lag per side is as much
as the second that `trial_until` adds to the timeout, so a claim can be late for its own deadline.
In `OutboxRecovery` a batch of two puts the event first or behind another entry, one full batch ahead
leaves it out once, a sweep may be killed in the tick it began or outlive it, and the schedule of two ticks is
longer than a sweep, as 60 s is than 30 s. `Late` is tight: with one tick less TLC finds it violated. In `QrToken` a second is two ticks, enough for every
truncation to lose half of one; `MaxAge` = 5 exceeds `MaxDuration + TTL + Skew` = 4, as 300 s exceeds
30 + 60 + 5, and the offsets are the tolerance's two ends, a tick and one beyond. In `ApiRequests` two
requests are all a plan, a count or an outage needs to be met by the wrong one; threshold 1 lets one
request open the other's circuit; each fault is taken alone and in the combinations that meet in one
operation. Symmetry is used only in runs without liveness.

**Fairness, and why the code justifies it.** A request that has arrived is driven on by the event
loop and Postgres grants a lock that is free (weak fairness of the request's own steps; a
request that never arrives is never forced to). Crashes are never required nor excluded; a
crashed request is answered with an error by the platform. The schedule keeps starting sweeps
(QStash's schedule, `tools/setup_qstash_schedule.py`). Strong fairness of the pass sweep's claim and
commit says that it is not killed every time it finds something. In the outbox a send and its
save are two steps, and a kill between them each time would keep an event pending although QStash took it
every time; so delivery is claimed for behaviours in which, from some instant on, no sweep is killed after
its claim (`FaultsEnd`; SC-006 speaks of "after recovery") and QStash does not refuse for ever an event it
is offered for ever. Nothing is assumed of publish_now, which the code calls best effort.
The breaker's `Recovers` supposes that from some instant on the dependency answers and Redis takes and
shows what is saved, and that requests keep coming. It says that the circuit closes again and again, not that it
stays closed: two invocations whose Redis calls take more than that extra second together, each time, can go
on claiming a trial over each other's CLOSED. `OutboxRecovery` assumes no more: its bound is safety.
The lease's exclusivity rests on `LEASE_SECONDS = 30` being no less
than the platform's `maxDuration = 30`: the clock is read after the invocation began, so
the lease outlives it. `QrToken`'s bound rests on the same limit and on `Cache-Control: max-age=300`. Off that platform (a development server has no such limit) it does not hold.

## 4. Findings

1. **A renewal that Redis refuses forgets to forget** (`pass_forget`). When `register` fails,
   `issue` commits the revocation of the previous pass and raises without `forget_token`, which
   `credential_lifecycle_service.py:79-81` says the caller must call. The old QR stays ACTIVA in Redis
   until its TTL, and the passenger is left without a live pass.
2. **A double submission may be refused as somebody else's document** (`registration_resubmit`). The
   two reads of the fast check see different snapshots. `spec.md:195` promises the existing passenger.
3. **Several trials in HALF_OPEN** (`breaker_probe`). Two invocations that read the expired OPEN before
   either has saved its claim both probe the dependency; research R5 (`research.md:74`) promises one. It is
   harmless to the callers and costs the dependency one call per concurrent request.
4. **A malformed answer of MX Face is a 500** (`requests_malformed`). Where MX Face sends a JSON list
   instead of an object, `_match_score` raises AttributeError (`mxface_adapter.py:85`), which neither the
   adapter nor the wrapper catches: the photograph is stored and no attempt recorded. `factory.py:22` says
   "Never blocks or raises", and the repository's `src/README.md:97-99` that a malformed response becomes a
   NO_CONCLUYENTE attempt, as FR-009 does.

Smaller remarks made while reading, which no run is about: `contracts/extension-points.md` says every
call of consume leaves a row, but NO_ENCONTRADA leaves none; research R9 describes consume as
`UPDATE ... WHERE estado = 'ACTIVA'`, the code locks the row and saves it; `plan.md:41-42` wants no
transaction open during external calls, `issue` calls Redis with one open (and the order is what
`ProxyNeverRejectsUsable` needs).

Remarks that came with the modules of requests, tokens and recovery:

* The verdict is decided on the provider's score, the row keeps it rounded to thousandths: a comparison of
  0.7996 is FALLIDO and stored as 0.800. `data-model.md:78` says EXITOSO is equivalent to both stored
  scores reaching their thresholds. `RowExplainsVerdict` is what remains: a failure stores the score it
  blames at or under its threshold, a success both scores at or over theirs.
* An answer of 500 carries no `X-AeroPass-Fault-Applied`: it comes from Starlette's outermost frame, above
  the middleware that adds it, although `api/fault_injection.py` speaks of every response of a request
  with an applied fault. `FaultsAreTold` is about the others.
* "Only for that request" (`specs/003`) does not hold of the circuit breakers, which injected failures
  open for everybody: `disturbed` marks who met one.
* `observability/hooks.py` says a failing hook never breaks the call. That holds of audit hooks and of
  entering a span; an exception in the *exit* of a span's context is not caught by the ExitStack. No action models that exit.
* `domain/events.py:17` (as `data-model.md:164` and `research.md:111`) counts 180 + 60 < 300 s from the
  recovery. The circuit refuses up to 30 s longer, and what an attempt takes in Redis to learn it is added
  before the backoff of 180 s begins; the next sweep is up to 60 s away and may spend its 30 s on the
  entries before the event: some 300 s, and 60 s more per 100 older rows. After a setback the count
  begins again. `LateOnlyAfterASetback` is what remains true.
* The window of a rotation (`README.md:167-169` of the repository) is not only the cache's: requests that began
  before it go on signing with the old key, and clocks within the skew still see their passes as good.
  The bound is `max(MaxAge, MaxDuration + TTL + Skew)`. A kid used again for another pair (two local
  servers with an ephemeral key) changes nothing in it.

## 5. Proofs

Every safety invariant and every action property the passing runs check is also a theorem, for any sets
of requests, passengers, accounts or selfies and any value of the bounds that the assumptions named below
admit; so are the refinement of `SingleUsePass` and the safety half of that of `EventChannel`. The
assumptions are those of the modelled modules, evaluated by TLC in each run. Each proof has the same plan:
an inductive `IInv` (`TypeOK` and what each request holds at each value of its program counter), one
lemma per action, and, since a step moves one request, a lemma that reduces the invariant's
preservation to what the step does to that request and what it leaves alone of the others'. Each
`IInv` was checked by TLC on the run's instance before it was proved.

**`PassLifecycleProofs`** (`ConstantsAssumption`, `RequestsAssumption`: constants are typed, kinds of
request are disjoint): `TypeCorrect`; `SingleUseHolds`, no two calls of consume are told CONSUMIDA for one
credential; `HistoryExplainsRowHolds`; `CommittedIsKeptHolds`, every step keeps committed histories,
deadlines and final states. `SingleUse` speaks of answers, which are far from the row. It follows once
each answer CONSUMIDA (or the request about to give it) is tied to an accepted redemption *by that
checkpoint* in the committed history, and no history holds two. The second follows from
`GoodRow`: each entry starts in the estado the previous one left, and CONSUMIDA is
final. That survives concurrency because a transaction writes only rows it has locked, and what it
wrote is the committed row with entries appended (`TxOK`, `RequestOK`): nobody commits
over another's entry.

**`PassPromiseProofs`** (the same assumptions): `OneLivePassPerFlightHolds`, `ProxyNeverRejectsUsableHolds`,
`DeadlineRespectedHolds`, `AnswersAreRecordedHolds`, and `ImplementsPromise`, that every behaviour of
`PassLifecycle` is one of `SingleUsePass`. `IInv` says that what a transaction wrote grows from what is committed, not *what*
it wrote, and these five need that. `JInv` adds it: `RequestWrites`, step by step, which row each request has written,
with which entry and by which reading of the clock; `OneLive`, that no two committed live passes share
a slot; `TokensOK`, that an ACTIVA row's key in Redis is ACTIVA and outlives the row. The refinement is then a case per action, a commit being the abstract step and the rest stuttering.

**`VerificationProofs`** (`ConstantsAssumption`): `AttemptsExplainPassengerHolds` (the counter is the number of
failed attempts, for any limit), `IdentityComesWithItsEventHolds`, `ConcludedOnceHolds`,
`RowExplainsVerdictHolds`, `VerdictIsFinalHolds`. What carries them is `TxOK`: from `RecordAttempt` to
the commit the row lock is held, so the passenger that was read is the one the commit replaces, and its new value is
the old one with this outcome applied. `PassengerOK` counts attempts as a finite set's cardinality, so
that each commit adds exactly one. `RowExplainsVerdict` follows since rounding keeps the order of a score
and its threshold (`DecIsMonotone`). `UsesChannel` says that the facade makes only the steps of `EventChannel`, the
same `ChannelSafety` that `ImplementsChannelSafety` provides; `CommitMayEnqueue` that the channel's guard never
stands in the way of a commit, so composing with it hides nothing the facade does.

**`RegistrationProofs`** (`NobodyAssumption`): `OnePassengerEachHolds`, `AnswersAreTrueHolds`. An entry of either
unique index belongs to a committed row or to the open transaction that made it (`EntriesOK`), and a committed
row has both of its entries (`RowsOK`); so two rows cannot share an account or a document, whatever their
fast checks saw. The answers need more than uniqueness: a request that resolves a collision still finds it (`Taken`), because
rows are never removed.

**`OutboxDispatcherProofs`** (`ConstantsAssumption`, `LeaseAssumption`: `MaxDuration <= Lease`):
`LeaseIsExclusiveHolds`, `NothingIsOverwrittenHolds`, and `ImplementsChannelSafety`: the dispatcher makes only the
steps of `EventChannel`, so an event is never marked before it was handed over. The heart is `HeldOK`: a row in
somebody's batch is due no sooner than its holder's life ends, so the next claim finds it due only when the
holder is dead. It is inductive only because the platform kills an invocation within the lease
(`maxDuration` 30, `LEASE_SECONDS` = 30), which is why that is an assumption of the module and not a bound of a run.

**`CircuitBreakerProofs`** (`ConstantsAssumption`; `RecoveryAssumption` for the second part):
`OpensOnTruthHolds`, by `Truthful`, which holds of the store *and of every state a call carries*: a
window that is still open counts no more failures than really happened since it opened. A save that
puts back a stale state keeps that. `RecoveryIsBreaker` says that the composed module makes only the breaker's steps, so what is proved of the
breaker holds in it; `LateOnlyAfterASetbackHolds` that no event is late but after a setback, for any limit,
backlog and lease. After a recovery no OPEN state, stored or carried, outlives `Open` ticks (`Fades`), and
`InTime` places the event before its last chance: waiting for its backoff, due and behind `ahead` full
batches, or in a batch whose sweep has `life` left, whatever its `turn`. Two assumptions carry it: a sweep ends
within a period (`MaxDuration <= Schedule`, so the schedule always finds it free), and a lease is
no longer than the longest backoff, so that a setback leaves the row no later than a refusal does.

**`QrTokenProofs`** (`ConstantsAssumption`; `TtlAssumption`: the TTL is within its configured limits): `LifetimesNestHolds`,
`RefusedOnlyAfterRotationHolds`, `RenewsInTimeHolds`, for every granularity of the clock, by lemmas about
the truncation of an instant to whole seconds. A request or a cache that has not seen the rotation began or was
fetched before it (`RequestOK`, `CacheOK`), and neither outlives its limit, so the window of
`RefusedOnlyAfterRotation` is the larger of a cache's age and a request's length, its pass and the skew.

**`ApiRequestsProofs`** (`InputsAssumption`): `AnswersAreDocumented`, `FaultsAreNamed`, `RepliesAreTrue`, for any set of
requests. The first says `Given`, not `Documented`: with MX Face, JSON that is no object is the exception; every
answer but that 500 is in the tables (`GivenIsDocumented`). A request follows the dependencies of its operation, and having passed one excludes the faults and
refusals behind it. `Tells` is stronger than the properties: the answer is the documented one for *every*
plan between the faults that fired and those asked for, not only for the request's own. `FaultsAreTold`
quantifies over plans and needs it: a fault that did not fire did not matter.

**Only model-checked** are the liveness properties, whose fairness (ENABLED) is out of the prover's reach:
`RequestsAreAnswered`, `ExpiredAreSwept`, `SelfiesAreAnswered`, `IdentitiesAreAnnounced`,
`SubmissionsAreAnswered`, `Recovers`, and the fairness half of `ImplementsChannel`. No operator here is recursive, so no proof needs
induction over data; the cardinalities and sequences the properties speak of are dealt with by the library's theorems.

## 6. Plan

Done, in this order: passes and their proofs; verification; outbox; registration; circuit breaker;
requests through the layers; QR token; recovery of the outbox behind its breaker; then the proofs of
registration, verification, QR token, outbox, breaker, the rest of passes with the refinement of
`SingleUsePass`, the recovery, the requests, and the two sides of the channel. Next:

1. A bound on how many refusals behind trials an event may meet, if the code comes to have one; today it has none.
2. Whatever the code adds: each new operation is an action, and a step in the lemma of its module.

No module that is proved about declares a RECURSIVE operator, and each has its assumptions named.

## 7. Not modelled

* The cryptography of tokens and the verification of Clerk sessions and QStash signatures: a key pair
  is equal or not, a session is one of four users.
* JSON, forms, field validation and image sniffing beyond accepted, too large and not admitted; the
  rate limiter's window (a library's; here a hit is let through, refused, or fails open).
* Sentry's sinks, scrubbing and setup: formats and an SDK; what is audited, and when, is modelled.
* The in-memory doubles but for where they sit under the fault wrappers; scripts and the demo seed,
  which call the API and keep nothing.
* How long anything really takes: timeouts fire or do not, in ticks.
