--------------------------- MODULE Verification ---------------------------
(***************************************************************************)
(* POST /v1/biometrics/verifications: the facade that stores a selfie,     *)
(* asks the biometric provider and records the verdict, the passenger      *)
(* aggregate, and the identity and the event a success creates.            *)
(*                                                                         *)
(* A request is one selfie: its name is the intento_id of the attempt it   *)
(* may record, and of the identity and event that attempt may originate.   *)
(* Nothing is locked while Blob and the provider are called, so any number *)
(* of selfies of one passenger may be in flight; the verdict is decided    *)
(* again under the passenger's row lock. The outbox is EventChannel.       *)
(***************************************************************************)
EXTENDS Naturals, FiniteSets

CONSTANTS
  Selfies,
  Passengers,         \* accounts
  Registered,         \* those with a row in pasajeros
  Scores,             \* what the provider may report, in ten-thousandths
  UmbralLiveness, UmbralComparacion,
  MaxIntentosFallidos,
  Nobody

ASSUME ConstantsAssumption ==
  /\ Registered \subseteq Passengers
  /\ Scores \subseteq Nat
  /\ UmbralLiveness \in Nat /\ UmbralComparacion \in Nat
  /\ MaxIntentosFallidos \in Nat \ {0}
  /\ Nobody \notin Selfies \cup Passengers

VARIABLES
  pc,
  who,        \* passenger behind each request
  result,     \* scores the provider reported to each request
  blob,       \* selfies stored in Blob
  pasajero,   \* pasajeros, committed: estado and intentos_fallidos
  intento,    \* intentos_verificacion, committed, by intento_id
  identidad,  \* origin attempts of the committed ACTIVA identities
  tx,         \* what each open transaction has written
  lock,       \* holder of the FOR UPDATE lock on each passenger
  answer,     \* what each request returned
  outbox,     \* outbox_eventos, committed
  accepted    \* events QStash has taken

local == << pc, who, result, tx, answer >>
stored == << pasajero, intento, identidad >>
vars == << pc, who, result, blob, pasajero, intento, identidad, tx, lock, answer,
           outbox, accepted >>

Channel == INSTANCE EventChannel WITH Events <- Selfies

NoResult == [liveness |-> 0, comparacion |-> 0, hay |-> FALSE]
Results == {NoResult} \cup [liveness : Scores, comparacion : Scores, hay : {TRUE}]

NoAttempt == [de |-> Nobody, resultado |-> "AUSENTE", motivo |-> "NINGUNO",
              scores |-> NoResult]
NoTx == [pasajero |-> [estado |-> "AUSENTE", fallidos |-> 0],
         intento |-> NoAttempt, identidad |-> FALSE]
NoAnswer == [codigo |-> "NINGUNO", estadoFinal |-> "NINGUNO"]

\* Pasajero.registrar
Nuevo == [estado |-> "PENDIENTE_VERIFICACION", fallidos |-> 0]

Init ==
  /\ pc = [s \in Selfies |-> "start"]
  /\ who = [s \in Selfies |-> Nobody]
  /\ result = [s \in Selfies |-> NoResult]
  /\ blob = {}
  /\ pasajero = [p \in Registered |-> Nuevo]
  /\ intento = [s \in Selfies |-> NoAttempt]
  /\ identidad = {}
  /\ tx = [s \in Selfies |-> NoTx]
  /\ lock = [p \in Passengers |-> Nobody]
  /\ answer = [s \in Selfies |-> NoAnswer]
  /\ Channel!ChannelInit

-----------------------------------------------------------------------------
(* domain/verification.py, domain/passenger.py *)

\* Mutant of EvaluateOutcome: one good score is enough.
EvaluateEither(r) ==
  CASE ~r.hay -> << "NO_CONCLUYENTE", "NINGUNO" >>
    [] r.hay /\ r.liveness < UmbralLiveness /\ r.comparacion < UmbralComparacion ->
         << "FALLIDO", "LIVENESS" >>
    [] OTHER -> << "EXITOSO", "NINGUNO" >>

\* evaluate_outcome: both thresholds are inclusive and liveness is judged first.
EvaluateOutcome(r) ==
  CASE ~r.hay -> << "NO_CONCLUYENTE", "NINGUNO" >>
    [] r.hay /\ r.liveness < UmbralLiveness -> << "FALLIDO", "LIVENESS" >>
    [] r.hay /\ r.liveness >= UmbralLiveness /\ r.comparacion < UmbralComparacion ->
         << "FALLIDO", "COMPARACION" >>
    [] OTHER -> << "EXITOSO", "NINGUNO" >>

CanVerify(x) == x.estado = "PENDIENTE_VERIFICACION"

\* Mutant of ApplyOutcome: one failure too many.
ApplyStrict(x, resultado) ==
  LET fallidos == x.fallidos + 1
  IN CASE resultado = "EXITOSO" -> [x EXCEPT !.estado = "VERIFICADO"]
       [] resultado = "FALLIDO" ->
            [estado |-> IF fallidos > MaxIntentosFallidos
                        THEN "REQUIERE_REVISION_MANUAL" ELSE x.estado,
             fallidos |-> fallidos]
       [] OTHER -> x

ApplyOutcome(x, resultado) ==
  LET fallidos == x.fallidos + 1
  IN CASE resultado = "EXITOSO" -> [x EXCEPT !.estado = "VERIFICADO"]
       [] resultado = "FALLIDO" ->
            [estado |-> IF fallidos >= MaxIntentosFallidos
                        THEN "REQUIERE_REVISION_MANUAL" ELSE x.estado,
             fallidos |-> fallidos]
       [] OTHER -> x

Finales == {"VERIFICADO", "REQUIERE_REVISION_MANUAL"}

\* estado_final, as the response and the audit record carry it.
EstadoFinal(x) == IF x.estado \in Finales THEN x.estado ELSE "NINGUNO"

\* _dec: round to thousandths (numeric(4,3)).
Dec(score) == ((score + 5) \div 10) * 10

Guardado(r) == [r EXCEPT !.liveness = Dec(@), !.comparacion = Dec(@)]

-----------------------------------------------------------------------------
(* IdentityVerificationFacade.verify_and_create_identity *)

Goto(s, l) == pc' = [pc EXCEPT ![s] = l]

Say(s, codigo, estadoFinal) ==
  answer' = [answer EXCEPT ![s] = [codigo |-> codigo, estadoFinal |-> estadoFinal]]

Fail(s, codigo) == Goto(s, "done") /\ Say(s, codigo, "NINGUNO")

Quiet == UNCHANGED << blob, stored, tx, lock, outbox, accepted >>

\* get_mine, validate_image and the cheap early check, on a copy of the
\* passenger read by a transaction of its own.
Submit(s) ==
  /\ pc[s] = "start"
  /\ \E p \in Registered :
       /\ CanVerify(pasajero[p])
       /\ who' = [who EXCEPT ![s] = p]
  /\ Goto(s, "store")
  /\ UNCHANGED << result, answer >> /\ Quiet

Refuse(s) ==
  /\ pc[s] = "start"
  /\ \E p \in Passengers :
       /\ who' = [who EXCEPT ![s] = p]
       /\ \/ p \notin Registered /\ Fail(s, "PASAJERO_NO_REGISTRADO")
          \/ p \in Registered /\ Fail(s, "IMAGEN_INVALIDA")
          \/ p \in Registered /\ ~CanVerify(pasajero[p]) /\ Fail(s, "ESTADO_NO_PERMITE")
  /\ UNCHANGED result /\ Quiet

\* The selfie is put and the document photo read, at the same time.
StoreSelfie(s) ==
  /\ pc[s] = "store"
  /\ blob' = blob \cup {s}
  /\ Goto(s, "evaluate")
  /\ UNCHANGED << who, result, stored, tx, lock, answer, outbox, accepted >>

\* MediaUnavailable from either call: gather does not cancel the other one.
StoreFailed(s) ==
  /\ pc[s] = "store"
  /\ blob' \in {blob, blob \cup {s}}
  /\ Fail(s, "ALMACENAMIENTO_NO_DISPONIBLE")
  /\ UNCHANGED << who, result, stored, tx, lock, outbox, accepted >>

\* The provider answers, or the resilient wrapper gives None.
Evaluate(s) ==
  /\ pc[s] = "evaluate"
  /\ \E r \in Results : result' = [result EXCEPT ![s] = r]
  /\ Goto(s, "lock")
  /\ UNCHANGED << who, answer >> /\ Quiet

\* Somebody else concluded meanwhile: the transaction rolls back and the
\* selfie stays in Blob with no attempt.
RejectLate(s) ==
  /\ pc[s] = "lock"
  /\ lock[who[s]] = Nobody
  /\ ~CanVerify(pasajero[who[s]])
  /\ Fail(s, "ESTADO_NO_PERMITE")
  /\ UNCHANGED << who, result >> /\ Quiet

HasIdentity(p) == \E i \in identidad : intento[i].de = p

\* record_attempt and create_for_success: what the transaction of s writes.
Verdict(s) ==
  LET p == who[s]
      outcome == EvaluateOutcome(result[s])
  IN [pasajero |-> ApplyOutcome(pasajero[p], outcome[1]),
      intento |-> [de |-> p, resultado |-> outcome[1], motivo |-> outcome[2],
                   scores |-> Guardado(result[s])],
      identidad |-> outcome[1] = "EXITOSO" /\ ~HasIdentity(p)]

\* Mutant of RecordAttempt: the row is read without FOR UPDATE.
RecordUnlocked(s) ==
  /\ pc[s] = "lock"
  /\ CanVerify(pasajero[who[s]])
  /\ tx' = [tx EXCEPT ![s] = Verdict(s)]
  /\ Goto(s, "commit")
  /\ UNCHANGED << who, result, blob, stored, lock, answer, outbox, accepted >>

\* Mutant of RecordAttempt: the early check is trusted.
RecordUnchecked(s) ==
  /\ pc[s] = "lock"
  /\ lock[who[s]] = Nobody
  /\ lock' = [lock EXCEPT ![who[s]] = s]
  /\ tx' = [tx EXCEPT ![s] = Verdict(s)]
  /\ Goto(s, "commit")
  /\ UNCHANGED << who, result, blob, stored, answer, outbox, accepted >>

\* get_for_update and the second check, under the lock; then the verdict.
RecordAttempt(s) ==
  /\ pc[s] = "lock"
  /\ lock[who[s]] = Nobody
  /\ CanVerify(pasajero[who[s]])
  /\ lock' = [lock EXCEPT ![who[s]] = s]
  /\ tx' = [tx EXCEPT ![s] = Verdict(s)]
  /\ Goto(s, "commit")
  /\ UNCHANGED << who, result, blob, stored, answer, outbox, accepted >>

\* Mutant of Release: the passenger stays locked.
ReleaseLeaky(s) ==
  /\ tx' = [tx EXCEPT ![s] = NoTx]
  /\ UNCHANGED lock

Release(s) ==
  /\ tx' = [tx EXCEPT ![s] = NoTx]
  /\ lock' = [p \in Passengers |-> IF lock[p] = s THEN Nobody ELSE lock[p]]

\* Mutant of CommitAttempt: the event is not part of the transaction.
CommitWithoutEvent(s) ==
  /\ pasajero' = [pasajero EXCEPT ![who[s]] = tx[s].pasajero]
  /\ intento' = [intento EXCEPT ![s] = tx[s].intento]
  /\ identidad' = identidad \cup (IF tx[s].identidad THEN {s} ELSE {})
  /\ UNCHANGED << outbox, accepted >>
  /\ Release(s)

\* Passenger, attempt, identity and outbox row become visible together.
CommitAttempt(s) ==
  /\ pasajero' = [pasajero EXCEPT ![who[s]] = tx[s].pasajero]
  /\ intento' = [intento EXCEPT ![s] = tx[s].intento]
  /\ IF tx[s].identidad
     THEN identidad' = identidad \cup {s} /\ Channel!Enqueue(s)
     ELSE UNCHANGED << identidad, outbox, accepted >>
  /\ Release(s)

Commit(s) ==
  /\ pc[s] = "commit"
  /\ CommitAttempt(s)
  /\ IF tx[s].identidad
     THEN Goto(s, "publish") /\ UNCHANGED answer
     ELSE Goto(s, "done") /\ Say(s, tx[s].intento.resultado, EstadoFinal(tx[s].pasajero))
  /\ UNCHANGED << who, result, blob >>

\* publish_now never raises. The event may be taken now, and the dispatcher
\* may have taken it and marked it already.
PublishNow(s) ==
  /\ pc[s] = "publish"
  /\ \/ Channel!Accept(s)
     \/ Channel!MarkDelivered(s)
     \/ UNCHANGED << outbox, accepted >>
  /\ Goto(s, "done")
  /\ Say(s, intento[s].resultado, EstadoFinal(pasajero[who[s]]))
  /\ UNCHANGED << who, result, blob, stored, tx, lock >>

\* The function is killed; a COMMIT whose reply is lost has taken effect.
Crash(s) ==
  /\ pc[s] \notin {"start", "done"}
  /\ \/ Release(s) /\ UNCHANGED << stored, outbox, accepted >>
     \/ pc[s] = "commit" /\ CommitAttempt(s)
  /\ Fail(s, "ERROR")
  /\ UNCHANGED << who, result, blob >>

Verify(s) ==
  \/ Submit(s) \/ Refuse(s) \/ StoreSelfie(s) \/ StoreFailed(s) \/ Evaluate(s)
  \/ RejectLate(s) \/ RecordAttempt(s) \/ Commit(s) \/ PublishNow(s)

\* The scheduled dispatcher, as EventChannel describes it.
Dispatch(s) ==
  /\ Channel!Accept(s) \/ Channel!MarkDelivered(s)
  /\ UNCHANGED << local, blob, stored, lock >>

Next == \E s \in Selfies : Verify(s) \/ Crash(s) \/ Dispatch(s)

Spec == Init /\ [][Next]_vars

\* A request that has started is driven on by the event loop; the schedule
\* keeps dispatching what is due (EventChannel's fairness).
Fairness ==
  \A s \in Selfies :
    /\ WF_vars(pc[s] # "start" /\ Verify(s))
    /\ WF_vars(Dispatch(s) /\ accepted' # accepted)
    /\ WF_vars(Dispatch(s) /\ outbox' # outbox)

FairSpec == Spec /\ Fairness

-----------------------------------------------------------------------------
(* Correctness. *)

Estados == {"PENDIENTE_VERIFICACION"} \cup Finales
Resultados == {"EXITOSO", "FALLIDO", "NO_CONCLUYENTE"}
Pasajero == [estado : Estados, fallidos : 0 .. MaxIntentosFallidos]
Stored == {Guardado(r) : r \in Results}
Intento == [de : Registered, resultado : Resultados,
            motivo : {"NINGUNO", "LIVENESS", "COMPARACION"}, scores : Stored]
Codigos == Resultados \cup {"NINGUNO", "ERROR", "PASAJERO_NO_REGISTRADO",
  "IMAGEN_INVALIDA", "ESTADO_NO_PERMITE", "ALMACENAMIENTO_NO_DISPONIBLE"}

\* Every variable keeps its type; intentos_fallidos never passes the limit.
TypeOK ==
  /\ pc \in [Selfies -> {"start", "store", "evaluate", "lock", "commit", "publish", "done"}]
  /\ who \in [Selfies -> Passengers \cup {Nobody}]
  /\ result \in [Selfies -> Results]
  /\ blob \subseteq Selfies
  /\ pasajero \in [Registered -> Pasajero]
  /\ intento \in [Selfies -> Intento \cup {NoAttempt}]
  /\ identidad \subseteq Selfies
  /\ tx \in [Selfies -> {NoTx} \cup
       [pasajero : Pasajero, intento : Intento, identidad : BOOLEAN]]
  /\ lock \in [Passengers -> Selfies \cup {Nobody}]
  /\ answer \in [Selfies -> [codigo : Codigos, estadoFinal : Finales \cup {"NINGUNO"}]]
  /\ outbox \in [Selfies -> {"AUSENTE", "PENDIENTE", "ENTREGADO"}]
  /\ accepted \subseteq Selfies

Attempts(p, resultado) ==
  {s \in Selfies : intento[s].de = p /\ intento[s].resultado = resultado}

\* FR-008: the attempts of a passenger explain its row. It is VERIFICADO exactly
\* when one attempt succeeded, under manual review exactly when the limit of
\* failures is reached, and no failure is lost or counted twice, however many
\* selfies were in flight.
AttemptsExplainPassenger ==
  \A p \in Registered :
    LET exitos == Cardinality(Attempts(p, "EXITOSO"))
        fallos == Cardinality(Attempts(p, "FALLIDO"))
    IN /\ pasajero[p].fallidos = fallos
       /\ exitos + (IF fallos >= MaxIntentosFallidos THEN 1 ELSE 0) <= 1
       /\ pasajero[p].estado = CASE exitos = 1 -> "VERIFICADO"
                                 [] fallos >= MaxIntentosFallidos -> "REQUIERE_REVISION_MANUAL"
                                 [] OTHER -> "PENDIENTE_VERIFICACION"

\* FR-011, FR-012: an attempt succeeded exactly when its identity exists and
\* exactly when its event is in the outbox; what QStash announces was committed.
IdentityComesWithItsEvent ==
  \A s \in Selfies :
    /\ intento[s].resultado = "EXITOSO" <=> s \in identidad
    /\ s \in identidad <=> outbox[s] # "AUSENTE"
    /\ s \in accepted => s \in identidad

\* KR A1.2: verification concludes once. At most one response (and so one audit
\* record) of a passenger carries a final state, and it is the state in the row.
ConcludedOnce ==
  \A s, t \in Selfies :
    /\ answer[s].estadoFinal # "NINGUNO" =>
         /\ answer[s].estadoFinal = pasajero[who[s]].estado
         /\ intento[s].de = who[s]
    /\ answer[s].estadoFinal # "NINGUNO" /\ answer[t].estadoFinal # "NINGUNO"
         /\ who[s] = who[t] => s = t

\* A verdict is final: after it no attempt of that passenger is recorded, no
\* matter what the provider answers to selfies already in flight.
VerdictIsFinal ==
  [][\A p \in Registered : pasajero[p].estado \in Finales =>
       /\ pasajero'[p] = pasajero[p]
       /\ \A s \in Selfies : intento'[s] # intento[s] => intento'[s].de # p]_vars

\* FR-007: the row of an attempt, read alone, tells its verdict. A success was
\* judged on two scores that reach their thresholds, and so do those stored; a
\* failure stores the score it blames at or under its threshold, and blames the
\* comparison only past the liveness. The scores that _dec lifts to a threshold
\* are why "under" cannot be asked of a failure (data-model.md, Result rule).
RowExplainsVerdict ==
  \A s \in Selfies :
    LET row == intento[s]
        live == row.scores.liveness >= Dec(UmbralLiveness)
    IN /\ row.resultado = "EXITOSO" =>
            /\ result[s].liveness >= UmbralLiveness
            /\ result[s].comparacion >= UmbralComparacion
            /\ live /\ row.scores.comparacion >= Dec(UmbralComparacion)
       /\ row.motivo = "LIVENESS" => row.scores.liveness <= Dec(UmbralLiveness)
       /\ row.motivo = "COMPARACION" =>
            live /\ row.scores.comparacion <= Dec(UmbralComparacion)
       /\ row.resultado = "FALLIDO" <=> row.motivo # "NINGUNO"
       /\ row.scores.hay <=> row.resultado \in {"EXITOSO", "FALLIDO"}

\* A request that has started is answered, whoever holds the passenger.
SelfiesAreAnswered ==
  \A s \in Selfies : pc[s] \notin {"start", "done"} ~> pc[s] = "done"

\* SC-006: every identity is announced and its event ends ENTREGADO, even if
\* the function dies between the commit and publish_now.
IdentitiesAreAnnounced ==
  \A s \in Selfies : s \in identidad ~> s \in accepted /\ outbox[s] = "ENTREGADO"
=============================================================================
