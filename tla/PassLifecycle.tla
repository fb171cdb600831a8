--------------------------- MODULE PassLifecycle ---------------------------
(***************************************************************************)
(* Boarding passes from issue to their last state: PassIssuanceService,    *)
(* CredentialLifecycleService, the credential repository over Postgres and *)
(* the QR tokens in Redis.                                                 *)
(*                                                                         *)
(* Every request is one element of a set: an issuer is one POST            *)
(* /v1/passes (the credential it mints carries its name), a consumer one   *)
(* call of consume by a checkpoint, a revoker one revoke_by_id, a viewer   *)
(* one GET /v1/passes/{id}, a sweeper a scheduled job that runs for ever.  *)
(* A request is cut where its coroutine awaits something another request   *)
(* can influence: a row lock, a commit, a call to Redis. What a            *)
(* transaction has written and not committed is tx; Postgres releases its  *)
(* locks at commit or rollback.                                            *)
(***************************************************************************)
EXTENDS CredentialDomain, FiniteSets

CONSTANTS
  Issuers, Consumers, Revokers, Viewers, Sweepers,
  Passengers,     \* rows of pasajeros
  Flights,
  Verified,       \* passengers with an ACTIVA IdentidadDigital
  DocUntil,       \* last instant at which each passenger's document is vigente
  Owner,          \* the passenger behind each viewer's session
  TTL,            \* seconds from emission to expiry
  SweepLimit,     \* rows one sweep may claim
  MaxClock,       \* bound on time
  Nobody          \* holds no lock, names no request

Requests == Issuers \cup Consumers \cup Revokers \cup Viewers \cup Sweepers
Passes == Issuers
Slots == Passengers \X Flights
NoSlot == << Nobody, Nobody >>

ASSUME ConstantsAssumption ==
  /\ TTL \in Nat \ {0}
  /\ SweepLimit \in Nat \ {0}
  /\ MaxClock \in Nat
  /\ Verified \subseteq Passengers
  /\ DocUntil \in [Passengers -> Nat]
  /\ Owner \in [Viewers -> Passengers]

ASSUME RequestsAssumption ==
  /\ Nobody \notin Requests \cup Passengers
  /\ Sistema \notin Requests
  /\ Issuers \cap (Consumers \cup Revokers \cup Viewers \cup Sweepers) = {}
  /\ Consumers \cap (Revokers \cup Viewers \cup Sweepers) = {}
  /\ Revokers \cap (Viewers \cup Sweepers) = {}
  /\ Viewers \cap Sweepers = {}

VARIABLES
  clock,
  pc,        \* where each request is
  seen,      \* the instant each request read from the clock
  slot,      \* passenger and flight an issuer asks for
  target,    \* credential a consumer, revoker or viewer asks for
  row,       \* credenciales_acceso with transiciones_credencial, committed
  tx,        \* rows each open transaction has written; NoRow: not written
  paxLock,   \* holder of the FOR UPDATE lock on each passenger
  rowLock,   \* holder of the FOR UPDATE lock on each credential
  token,     \* qr:{jti} in Redis, with the instant it expires
  previous,  \* anterior_a_olvidar, until forget_token is called for it
  answer     \* what each request returned

vars == << clock, pc, seen, slot, target, row, tx, paxLock, rowLock, token,
           previous, answer >>

NoTx == [j \in Passes |-> NoRow]
NoToken == [valor |-> "NINGUNO", hasta |-> 0]

Init ==
  /\ clock = 0
  /\ pc = [r \in Requests |-> "start"]
  /\ seen = [r \in Requests |-> 0]
  /\ slot = [i \in Issuers |-> NoSlot]
  /\ target = [r \in Consumers \cup Revokers \cup Viewers |-> Nobody]
  /\ row = [j \in Passes |-> NoRow]
  /\ tx = [r \in Requests |-> NoTx]
  /\ paxLock = [p \in Passengers |-> Nobody]
  /\ rowLock = [j \in Passes |-> Nobody]
  /\ token = [j \in Passes |-> NoToken]
  /\ previous = [r \in Issuers \cup Revokers |-> Nobody]
  /\ answer = [r \in Requests |-> "NINGUNA"]

-----------------------------------------------------------------------------
(* Helpers. *)

Live(c) == c.estado \in Vivas

\* _LIVE rows of the passenger and flight issuer i asks for.
LiveInSlot(i) == {j \in Passes \ {i} : slot[j] = slot[i] /\ Live(row[j])}

\* Mutant of Free: a SELECT without FOR UPDATE.
FreeUnlocked(j) == j \in Passes

Free(j) == rowLock[j] = Nobody

Goto(r, l) == pc' = [pc EXCEPT ![r] = l]

Answer(r, a) == answer' = [answer EXCEPT ![r] = a]

Write(r, j, c) == tx' = [tx EXCEPT ![r][j] = c]

Lock(r, j) == rowLock' = [rowLock EXCEPT ![j] = r]

\* What a commit by r leaves in the table.
Committed(r) ==
  [j \in Passes |-> IF tx[r][j] = NoRow THEN row[j] ELSE tx[r][j]]

\* Mutant of Release: the passenger's lock outlives the transaction.
LeakyRelease(r) ==
  /\ tx' = [tx EXCEPT ![r] = NoTx]
  /\ rowLock' = [j \in Passes |-> IF rowLock[j] = r THEN Nobody ELSE rowLock[j]]
  /\ UNCHANGED paxLock

\* The end of r's transaction: its locks go, its write set is forgotten.
Release(r) ==
  /\ tx' = [tx EXCEPT ![r] = NoTx]
  /\ rowLock' = [j \in Passes |-> IF rowLock[j] = r THEN Nobody ELSE rowLock[j]]
  /\ paxLock' =
       [p \in Passengers |-> IF paxLock[p] = r THEN Nobody ELSE paxLock[p]]

Commit(r) == row' = Committed(r) /\ Release(r)

\* The value GET qr:{jti} returns: keys vanish when their TTL runs out.
TokenValue(j) ==
  IF clock < token[j].hasta THEN token[j].valor ELSE "NINGUNO"

\* Mutant of Register: the key lives for the renewal interval, not for the TTL.
RegisterShort(j) ==
  token' = [token EXCEPT ![j] = [valor |-> "ACTIVA", hasta |-> clock + TTL - 1]]

\* SET qr:{jti} ACTIVA NX EX ttl; the jti is new, so NX finds no key.
Register(j) ==
  token' = [token EXCEPT ![j] = [valor |-> "ACTIVA", hasta |-> clock + TTL]]

\* DEL qr:{jti}, or a failure that left the key in place.
Forget(j) ==
  \/ token' = [token EXCEPT ![j] = NoToken]
  \/ UNCHANGED token

\* The Lua script, or a failure before it ran.
ConsumeKey(j) ==
  \/ token' = [token EXCEPT ![j].valor =
                 IF TokenValue(j) = "ACTIVA" THEN "CONSUMIDA" ELSE @]
  \/ UNCHANGED token

-----------------------------------------------------------------------------
(* PassIssuanceService.issue *)

\* The request arrives; the account may have no passenger row, or the rate
\* limiter (30 per minute, RateLimiter) may turn it away.
IssueStart(i) ==
  /\ pc[i] = "start"
  /\ \E s \in Slots : slot' = [slot EXCEPT ![i] = s]
  /\ \/ Goto(i, "lockPassenger") /\ UNCHANGED answer
     \/ Goto(i, "done") /\ Answer(i, "RECHAZADA")
  /\ UNCHANGED << clock, seen, target, row, tx, paxLock, rowLock, token, previous >>

\* Mutant of IssueLockPassenger: the passenger is read, not locked.
IssueReadPassenger(i) ==
  LET p == slot[i][1]
  IN /\ pc[i] = "lockPassenger"
     /\ p \in Verified
     /\ clock <= DocUntil[p]
     /\ seen' = [seen EXCEPT ![i] = clock]
     /\ Goto(i, "lockLive")
     /\ UNCHANGED << clock, slot, target, row, tx, paxLock, rowLock, token, previous, answer >>

\* get_for_update on the passenger; the clock is read under that lock.
IssueLockPassenger(i) ==
  LET p == slot[i][1]
  IN /\ pc[i] = "lockPassenger"
     /\ paxLock[p] = Nobody
     /\ p \in Verified
     /\ clock <= DocUntil[p]
     /\ paxLock' = [paxLock EXCEPT ![p] = i]
     /\ seen' = [seen EXCEPT ![i] = clock]
     /\ Goto(i, "lockLive")
     /\ UNCHANGED << clock, slot, target, row, tx, rowLock, token, previous, answer >>

\* IdentidadNoActiva or DocumentoVencidoParaPase: the transaction rolls back.
IssueRefuse(i) ==
  LET p == slot[i][1]
  IN /\ pc[i] = "lockPassenger"
     /\ paxLock[p] = Nobody
     /\ p \notin Verified \/ clock > DocUntil[p]
     /\ Goto(i, "done")
     /\ Answer(i, "RECHAZADA")
     /\ UNCHANGED << clock, seen, slot, target, row, tx, paxLock, rowLock, token, previous >>

\* Mutant of RetirePrevious: only expiry retires the previous credential.
RetireExpired(c, now) == RefreshExpiry(c, now)

\* The live credential of the flight expires or is revoked (RENOVACION).
RetirePrevious(c, now) ==
  LET refreshed == RefreshExpiry(c, now)
  IN IF refreshed # c THEN refreshed ELSE Revocar(c)

\* get_live_for_update waits for the row's holder; then the previous
\* credential is retired and the new one inserted, both uncommitted.
IssueReplace(i) ==
  LET nueva == Emitir(seen[i] + TTL)
  IN /\ pc[i] = "lockLive"
     /\ \/ /\ LiveInSlot(i) = {}
           /\ Write(i, i, nueva)
           /\ UNCHANGED << rowLock, previous >>
        \/ \E j \in LiveInSlot(i) :
             LET anterior == RetirePrevious(row[j], seen[i])
             IN /\ Free(j)
                /\ Lock(i, j)
                /\ tx' = [tx EXCEPT ![i][j] = anterior, ![i][i] = nueva]
                /\ previous' = [previous EXCEPT
                     ![i] = IF anterior.estado = "REVOCADA" THEN j ELSE Nobody]
     /\ Goto(i, "register")
     /\ UNCHANGED << clock, seen, slot, target, row, paxLock, token, answer >>

\* Mutant of IssueRegister: the credential is committed without activar.
IssueRegisterOnly(i) ==
  /\ pc[i] = "register"
  /\ Register(i)
  /\ Goto(i, "commit")
  /\ UNCHANGED << clock, seen, slot, target, row, tx, paxLock, rowLock, previous, answer >>

\* The token reaches Redis before the commit, with the transaction open.
IssueRegister(i) ==
  /\ pc[i] = "register"
  /\ Register(i)
  /\ Write(i, i, Activar(tx[i][i]))
  /\ Goto(i, "commit")
  /\ UNCHANGED << clock, seen, slot, target, row, paxLock, rowLock, previous, answer >>

\* TokenStoreUnavailable, whether or not the SET took effect.
IssueRegisterFailed(i) ==
  /\ pc[i] = "register"
  /\ Register(i) \/ UNCHANGED token
  /\ Write(i, i, Revocar(tx[i][i]))
  /\ Goto(i, "commitFailed")
  /\ UNCHANGED << clock, seen, slot, target, row, paxLock, rowLock, previous, answer >>

IssueCommit(i) ==
  /\ pc[i] = "commit"
  /\ Commit(i)
  /\ IF previous[i] = Nobody
     THEN Goto(i, "done") /\ Answer(i, "PASE")
     ELSE Goto(i, "forget") /\ UNCHANGED answer
  /\ UNCHANGED << clock, seen, slot, target, token, previous >>

\* AlmacenamientoNoDisponible is raised right after the commit.
IssueCommitFailed(i) ==
  /\ pc[i] = "commitFailed"
  /\ Commit(i)
  /\ Goto(i, "done")
  /\ Answer(i, "NO_DISPONIBLE")
  /\ UNCHANGED << clock, seen, slot, target, token, previous >>

IssueForget(i) ==
  /\ pc[i] = "forget"
  /\ Forget(previous[i])
  /\ previous' = [previous EXCEPT ![i] = Nobody]
  /\ Goto(i, "done")
  /\ Answer(i, "PASE")
  /\ UNCHANGED << clock, seen, slot, target, row, tx, paxLock, rowLock >>

Issue(i) ==
  \/ IssueStart(i) \/ IssueLockPassenger(i) \/ IssueRefuse(i) \/ IssueReplace(i)
  \/ IssueRegister(i) \/ IssueRegisterFailed(i)
  \/ IssueCommit(i) \/ IssueCommitFailed(i) \/ IssueForget(i)

-----------------------------------------------------------------------------
(* CredentialLifecycleService.consume *)

\* The clock is read before the transaction opens.
ConsumeStart(c) ==
  /\ pc[c] = "start"
  /\ \E j \in Passes : target' = [target EXCEPT ![c] = j]
  /\ seen' = [seen EXCEPT ![c] = clock]
  /\ Goto(c, "lock")
  /\ UNCHANGED << clock, slot, row, tx, paxLock, rowLock, token, previous, answer >>

\* SELECT ... FOR UPDATE does not see a row nobody has committed.
NotFound(r) ==
  /\ pc[r] = "lock"
  /\ row[target[r]] = NoRow
  /\ Goto(r, "done")
  /\ Answer(r, "NO_ENCONTRADA")
  /\ UNCHANGED << clock, seen, slot, target, row, tx, paxLock, rowLock, token, previous >>

\* Mutant of ConsumeLock: consume without the lazy expiry.
ConsumeLockStale(c) ==
  LET j == target[c]
  IN /\ pc[c] = "lock"
     /\ row[j] # NoRow
     /\ Free(j)
     /\ Lock(c, j)
     /\ Write(c, j, Consumir(row[j], c))
     /\ Goto(c, "commit")
     /\ UNCHANGED << clock, seen, slot, target, row, paxLock, token, previous, answer >>

ConsumeLock(c) ==
  LET j == target[c]
  IN /\ pc[c] = "lock"
     /\ row[j] # NoRow
     /\ Free(j)
     /\ Lock(c, j)
     /\ Write(c, j, Consumir(RefreshExpiry(row[j], seen[c]), c))
     /\ Goto(c, "commit")
     /\ UNCHANGED << clock, seen, slot, target, row, paxLock, token, previous, answer >>

\* _REJECTION
Rejection(e) ==
  CASE e = "CONSUMIDA" -> "YA_CONSUMIDA"
    [] e = "EXPIRADA"  -> "EXPIRADA"
    [] OTHER           -> "REVOCADA"

\* Mutant of ConsumeCommit: a rejection is raised inside the transaction.
ConsumeRaise(c) ==
  LET written == tx[c][target[c]]
  IN /\ pc[c] = "commit"
     /\ IF UltimaAceptada(written)
        THEN Commit(c) /\ Goto(c, "redis") /\ UNCHANGED answer
        ELSE /\ Release(c) /\ UNCHANGED row
             /\ Goto(c, "done") /\ Answer(c, Rejection(written.estado))
     /\ UNCHANGED << clock, seen, slot, target, token, previous >>

ConsumeCommit(c) ==
  LET written == tx[c][target[c]]
  IN /\ pc[c] = "commit"
     /\ Commit(c)
     /\ IF UltimaAceptada(written)
        THEN Goto(c, "redis") /\ UNCHANGED answer
        ELSE Goto(c, "done") /\ Answer(c, Rejection(written.estado))
     /\ UNCHANGED << clock, seen, slot, target, token, previous >>

ConsumeToken(c) ==
  /\ pc[c] = "redis"
  /\ ConsumeKey(target[c])
  /\ Goto(c, "done")
  /\ Answer(c, "CONSUMIDA")
  /\ UNCHANGED << clock, seen, slot, target, row, tx, paxLock, rowLock, previous >>

Consume(c) ==
  ConsumeStart(c) \/ NotFound(c) \/ ConsumeLock(c) \/ ConsumeCommit(c) \/ ConsumeToken(c)

-----------------------------------------------------------------------------
(* CredentialLifecycleService.revoke_by_id *)

RevokeStart(v) ==
  /\ pc[v] = "start"
  /\ \E j \in Passes : target' = [target EXCEPT ![v] = j]
  /\ Goto(v, "lock")
  /\ UNCHANGED << clock, seen, slot, row, tx, paxLock, rowLock, token, previous, answer >>

RevokeLock(v) ==
  LET j == target[v]
      revocada == Revocar(RefreshExpiry(row[j], clock))
  IN /\ pc[v] = "lock"
     /\ row[j] # NoRow
     /\ Free(j)
     /\ Lock(v, j)
     /\ Write(v, j, revocada)
     /\ previous' = [previous EXCEPT ![v] = IF UltimaAceptada(revocada) THEN j ELSE Nobody]
     /\ Goto(v, "commit")
     /\ UNCHANGED << clock, seen, slot, target, row, paxLock, token, answer >>

RevokeCommit(v) ==
  /\ pc[v] = "commit"
  /\ Commit(v)
  /\ IF previous[v] # Nobody
     THEN Goto(v, "forget") /\ UNCHANGED answer
     ELSE Goto(v, "done") /\ Answer(v, "NO_REVOCADA")
  /\ UNCHANGED << clock, seen, slot, target, token, previous >>

RevokeForget(v) ==
  /\ pc[v] = "forget"
  /\ Forget(previous[v])
  /\ previous' = [previous EXCEPT ![v] = Nobody]
  /\ Goto(v, "done")
  /\ Answer(v, "REVOCADA")
  /\ UNCHANGED << clock, seen, slot, target, row, tx, paxLock, rowLock >>

Revoke(v) ==
  RevokeStart(v) \/ NotFound(v) \/ RevokeLock(v) \/ RevokeCommit(v) \/ RevokeForget(v)

-----------------------------------------------------------------------------
(* CredentialLifecycleService.detail_for_owner *)

ViewStart(w) ==
  /\ pc[w] = "start"
  /\ \E j \in Passes : target' = [target EXCEPT ![w] = j]
  /\ Goto(w, "lock")
  /\ UNCHANGED << clock, seen, slot, row, tx, paxLock, rowLock, token, previous, answer >>

Owns(w, j) == slot[j][1] = Owner[w]

\* Somebody else's credential: locked, then released by the rollback.
ViewForeign(w) ==
  LET j == target[w]
  IN /\ pc[w] = "lock"
     /\ row[j] # NoRow
     /\ Free(j)
     /\ ~Owns(w, j)
     /\ Goto(w, "done")
     /\ Answer(w, "NO_ENCONTRADA")
     /\ UNCHANGED << clock, seen, slot, target, row, tx, paxLock, rowLock, token, previous >>

ViewLock(w) ==
  LET j == target[w]
  IN /\ pc[w] = "lock"
     /\ row[j] # NoRow
     /\ Free(j)
     /\ Owns(w, j)
     /\ Lock(w, j)
     /\ Write(w, j, RefreshExpiry(row[j], clock))
     /\ seen' = [seen EXCEPT ![w] = clock]
     /\ Goto(w, "commit")
     /\ UNCHANGED << clock, slot, target, row, paxLock, token, previous, answer >>

\* The response shows the estado the transaction read.
ViewCommit(w) ==
  /\ pc[w] = "commit"
  /\ Commit(w)
  /\ Goto(w, "done")
  /\ Answer(w, tx[w][target[w]].estado)
  /\ UNCHANGED << clock, seen, slot, target, token, previous >>

View(w) ==
  ViewStart(w) \/ NotFound(w) \/ ViewForeign(w) \/ ViewLock(w) \/ ViewCommit(w)

-----------------------------------------------------------------------------
(* CredentialLifecycleService.sweep_expired, run by the schedule *)

SweepStart(s) ==
  /\ pc[s] = "start"
  /\ seen' = [seen EXCEPT ![s] = clock]
  /\ Goto(s, "claim")
  /\ UNCHANGED << clock, slot, target, row, tx, paxLock, rowLock, token, previous, answer >>

\* Mutant of ExpiredLive: the sweep looks for one of the two live states.
ExpiredEmitida(now) ==
  {j \in Passes : row[j].estado = "EMITIDA" /\ IsExpired(row[j], now) /\ Free(j)}

\* expired_live_for_update: SKIP LOCKED, oldest deadline first, at most limit.
ExpiredLive(now) == {j \in Passes : Live(row[j]) /\ IsExpired(row[j], now) /\ Free(j)}

SweepBatch(found, batch) ==
  /\ batch \subseteq found
  /\ \A j \in batch, k \in found \ batch : row[j].expira <= row[k].expira
  /\ Cardinality(batch) =
       IF Cardinality(found) < SweepLimit THEN Cardinality(found) ELSE SweepLimit

SweepClaim(s) ==
  LET found == ExpiredLive(seen[s])
  IN /\ pc[s] = "claim"
     /\ found # {}
     /\ \E batch \in SUBSET found :
          /\ SweepBatch(found, batch)
          /\ rowLock' = [j \in Passes |-> IF j \in batch THEN s ELSE rowLock[j]]
          /\ tx' = [tx EXCEPT ![s] =
               [j \in Passes |-> IF j \in batch THEN Expirar(row[j]) ELSE NoRow]]
     /\ Goto(s, "commit")
     /\ UNCHANGED << clock, seen, slot, target, row, paxLock, token, previous, answer >>

SweepNothing(s) ==
  /\ pc[s] = "claim"
  /\ ExpiredLive(seen[s]) = {}
  /\ Goto(s, "start")
  /\ UNCHANGED << clock, seen, slot, target, row, tx, paxLock, rowLock, token, previous, answer >>

SweepCommit(s) ==
  /\ pc[s] = "commit"
  /\ Commit(s)
  /\ Goto(s, "start")
  /\ UNCHANGED << clock, seen, slot, target, token, previous, answer >>

Sweep(s) == SweepStart(s) \/ SweepClaim(s) \/ SweepNothing(s) \/ SweepCommit(s)

-----------------------------------------------------------------------------
\* The function is killed, the signature or the database fails: what is not
\* committed is rolled back and what should follow the commit does not happen.
\* A COMMIT whose reply is lost has taken effect all the same.
Crash(r) ==
  /\ pc[r] \notin {"start", "done"}
  /\ \/ Release(r) /\ UNCHANGED row
     \/ pc[r] \in {"commit", "commitFailed"} /\ Commit(r)
  /\ IF r \in Sweepers
     THEN Goto(r, "start") /\ UNCHANGED answer
     ELSE Goto(r, "done") /\ Answer(r, "ERROR")
  /\ UNCHANGED << clock, seen, slot, target, token, previous >>

Tick ==
  /\ clock < MaxClock
  /\ clock' = clock + 1
  /\ UNCHANGED << pc, seen, slot, target, row, tx, paxLock, rowLock, token, previous, answer >>

Next ==
  \/ Tick
  \/ \E i \in Issuers : Issue(i)
  \/ \E c \in Consumers : Consume(c)
  \/ \E v \in Revokers : Revoke(v)
  \/ \E w \in Viewers : View(w)
  \/ \E s \in Sweepers : Sweep(s)
  \/ \E r \in Requests : Crash(r)

Spec == Init /\ [][Next]_vars

\* A request that has started is driven to its answer by the event loop and
\* Postgres grants a free lock; the schedule keeps running sweeps, and a sweep
\* is not killed every time it finds something to do; time passes.
Fairness ==
  /\ WF_vars(Tick)
  /\ \A i \in Issuers : WF_vars(pc[i] # "start" /\ Issue(i))
  /\ \A c \in Consumers : WF_vars(pc[c] # "start" /\ Consume(c))
  /\ \A v \in Revokers : WF_vars(pc[v] # "start" /\ Revoke(v))
  /\ \A w \in Viewers : WF_vars(pc[w] # "start" /\ View(w))
  /\ \A s \in Sweepers :
       WF_vars(Sweep(s)) /\ SF_vars(SweepClaim(s)) /\ SF_vars(SweepCommit(s))

FairSpec == Spec /\ Fairness

-----------------------------------------------------------------------------
(* Correctness. *)

Finales == {"CONSUMIDA", "EXPIRADA", "REVOCADA"}
Labels == {"start", "lockPassenger", "lockLive", "register", "commit", "commitFailed",
           "forget", "lock", "redis", "claim", "done"}
Answers == {"NINGUNA", "ERROR", "PASE", "RECHAZADA", "NO_DISPONIBLE", "NO_ENCONTRADA",
            "NO_REVOCADA", "YA_CONSUMIDA"} \cup (Estados \ {"EMITIDA"})
Entry == [de : Estados \cup {"AUSENTE"}, a : Estados, aceptada : BOOLEAN,
          por : Consumers \cup {Sistema}]
Row == [estado : Estados, expira : Nat, hist : Seq(Entry)]
Lockers == Requests \cup {Nobody}

\* Every variable keeps its type: in particular no committed credential is
\* EMITIDA, the state a credential has only inside the transaction of issue.
TypeOK ==
  /\ clock \in 0 .. MaxClock
  /\ pc \in [Requests -> Labels]
  /\ seen \in [Requests -> 0 .. MaxClock]
  /\ slot \in [Issuers -> Slots \cup {NoSlot}]
  /\ target \in [Consumers \cup Revokers \cup Viewers -> Passes \cup {Nobody}]
  /\ row \in [Passes -> Row \cup {NoRow}]
  /\ \A j \in Passes : row[j].estado # "EMITIDA"
  /\ tx \in [Requests -> [Passes -> Row \cup {NoRow}]]
  /\ paxLock \in [Passengers -> Issuers \cup {Nobody}]
  /\ rowLock \in [Passes -> Lockers]
  /\ token \in [Passes -> [valor : {"NINGUNO", "ACTIVA", "CONSUMIDA"}, hasta : Nat]]
  /\ previous \in [Issuers \cup Revokers -> Passes \cup {Nobody}]
  /\ answer \in [Requests -> Answers]

\* RN-06, SC-004: whatever the interleaving of checkpoints, at most one call of
\* consume is ever told CONSUMIDA for a credential.
SingleUse ==
  \A c, d \in Consumers :
    /\ answer[c] = "CONSUMIDA" /\ answer[d] = "CONSUMIDA"
    /\ target[c] = target[d]
    => c = d

\* The estado an entry of the history leaves the credential in.
Despues(t) == IF t.aceptada THEN t.a ELSE t.de

\* FR-018, FR-019: the history explains the row. It starts with the emission,
\* each entry starts where the one before it ended, an entry is accepted
\* exactly when the documented table allows it, and the last one ends in the
\* estado of the row: no update was lost between two transactions.
Legal == {<<"EMITIDA", "ACTIVA">>, <<"EMITIDA", "EXPIRADA">>, <<"EMITIDA", "REVOCADA">>,
          <<"ACTIVA", "CONSUMIDA">>, <<"ACTIVA", "EXPIRADA">>, <<"ACTIVA", "REVOCADA">>}
Follows(t, u) == u.de = Despues(t) /\ (u.aceptada <=> << u.de, u.a >> \in Legal)
Explains(h, e) ==
  /\ Len(h) > 0
  /\ h[1] = Transicion("AUSENTE", "EMITIDA", TRUE, Sistema)
  /\ \A k \in 2 .. Len(h) : Follows(h[k - 1], h[k])
  /\ e = Despues(h[Len(h)])
HistoryExplainsRow ==
  \A j \in Passes : row[j] # NoRow => Explains(row[j].hist, row[j].estado)

\* FR-020 and the partial unique index: the rows an issuer sees (committed, or
\* written by its own transaction) never hold two live credentials of one
\* passenger and flight, nor do two open transactions insert them, so the index
\* never refuses an INSERT: the passenger's lock is enough.
Visible(i, j) == IF tx[i][j] = NoRow THEN row[j] ELSE tx[i][j]
OneLivePassPerFlight ==
  /\ \A i \in Issuers : \A j, k \in Passes :
       Live(Visible(i, j)) /\ Live(Visible(i, k)) /\ slot[j] = slot[k] => j = k
  /\ \A i, k \in Issuers :
       Live(tx[i][i]) /\ Live(tx[k][k]) /\ slot[i] = slot[k] => i = k

\* RedisVerificationProxy: "False -> reject without touching Postgres" never
\* rejects a pass Postgres would accept, whatever Redis calls failed.
ProxyNeverRejectsUsable ==
  \A j \in Passes :
    row[j].estado = "ACTIVA" /\ clock < row[j].expira => TokenValue(j) = "ACTIVA"

\* Every answer of consume about a credential it found is in that credential's
\* history exactly once and says what the answer says (FR-019: rejections are
\* persisted too, and the answer follows the commit).
Recorded(c) ==
  {k \in 1 .. Len(row[target[c]].hist) : row[target[c]].hist[k].por = c}
Says(c, t) ==
  CASE answer[c] = "CONSUMIDA"    -> t.aceptada
    [] answer[c] = "YA_CONSUMIDA" -> ~t.aceptada /\ t.de = "CONSUMIDA"
    [] OTHER                      -> ~t.aceptada /\ t.de = answer[c]
AnswersAreRecorded ==
  \A c \in Consumers :
    answer[c] \in {"CONSUMIDA", "YA_CONSUMIDA", "EXPIRADA", "REVOCADA"} =>
      \E k \in Recorded(c) : /\ Recorded(c) = {k}
                             /\ Says(c, row[target[c]].hist[k])

\* A credential past its deadline is never consumed by a call that arrived
\* after the deadline, nor shown to its owner as ACTIVA (US4 scenario 4).
DeadlineRespected ==
  /\ \A c \in Consumers : answer[c] = "CONSUMIDA" => seen[c] < row[target[c]].expira
  /\ \A w \in Viewers : answer[w] = "ACTIVA" => seen[w] < row[target[w]].expira

\* No step of anybody takes back what is committed: the history only grows, the
\* deadline never moves, and a final estado is final.
Extends(h, g) == Len(h) <= Len(g) /\ \A k \in 1 .. Len(h) : g[k] = h[k]
CommittedIsKept ==
  [][\A j \in Passes : row[j] # NoRow =>
       /\ Extends(row[j].hist, row'[j].hist)
       /\ row'[j].expira = row[j].expira
       /\ row[j].estado \in Finales => row'[j].estado = row[j].estado]_vars

\* Every request that starts is answered: no cycle of row locks, although issue
\* waits for a credential while it holds a passenger and a sweep holds several.
RequestsAreAnswered ==
  \A r \in Requests \ Sweepers : pc[r] \notin {"start", "done"} ~> pc[r] = "done"

\* A credential past its deadline is eventually final although no one asks for
\* it (the sweep), whatever locks made sweeps skip it.
ExpiredAreSwept ==
  \A j \in Passes :
    Live(row[j]) /\ IsExpired(row[j], clock) ~> row[j].estado \in Finales

\* The docstring of revoke: the caller must call forget_token after committing
\* when the result is accepted. A request that has answered owes no such call.
RevokedTokensAreForgotten ==
  \A r \in Issuers \cup Revokers :
    pc[r] = "done" /\ answer[r] # "ERROR" => previous[r] = Nobody

-----------------------------------------------------------------------------
(* The implementation of SingleUsePass: a pass is what is committed of it. *)

Redemption(t) == t.aceptada /\ t.a = "CONSUMIDA"

UsedBy(h) ==
  IF \E k \in 1 .. Len(h) : Redemption(h[k])
  THEN h[CHOOSE k \in 1 .. Len(h) : Redemption(h[k])].por
  ELSE Nobody

Promise == INSTANCE SingleUsePass WITH
  Checkpoints <- Consumers,
  estado <- [j \in Passes |-> row[j].estado],
  slotOf <- [j \in Passes |-> IF row[j] = NoRow THEN NoSlot ELSE slot[j]],
  usedBy <- [j \in Passes |-> UsedBy(row[j].hist)]

\* Renewal is atomic, a pass never comes back, and one checkpoint uses it: every
\* commit of issue, consume, revoke, detail or sweep is one step of the promise
\* and everything else leaves it alone.
KeepsPromise == Promise!ASpec
=============================================================================
