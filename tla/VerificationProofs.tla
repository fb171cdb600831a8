------------------------ MODULE VerificationProofs ------------------------
(***************************************************************************)
(* What Verification guarantees for any number of selfies, passengers and  *)
(* scores, and any limit of failures. The verdict of a request is computed *)
(* and committed under the row lock of its passenger, and only for a       *)
(* passenger still PENDIENTE_VERIFICACION: no attempt can be recorded on a *)
(* row that another attempt has concluded.                                 *)
(***************************************************************************)
EXTENDS Verification, FiniteSetTheorems, TLAPS

\* The row of p counts the failures and knows of the one success.
PassengerOK(p) ==
  LET fallos == Attempts(p, "FALLIDO")
      exitos == Attempts(p, "EXITOSO")
  IN /\ IsFiniteSet(fallos) /\ pasajero[p].fallidos = Cardinality(fallos)
     /\ \A s, t \in exitos : s = t
     /\ pasajero[p].estado = CASE exitos # {} -> "VERIFICADO"
                               [] exitos = {} /\ pasajero[p].fallidos = MaxIntentosFallidos ->
                                    "REQUIERE_REVISION_MANUAL"
                               [] OTHER -> "PENDIENTE_VERIFICACION"
     /\ exitos # {} => pasajero[p].fallidos < MaxIntentosFallidos

\* An attempt is what its scores say; a success has its identity and its event.
AttemptOK(s) ==
  /\ s \in identidad <=> intento[s].resultado = "EXITOSO"
  /\ s \in identidad <=> outbox[s] # "AUSENTE"
  /\ s \in accepted => s \in identidad
  /\ intento[s] # NoAttempt =>
       /\ pc[s] \in {"publish", "done"}
       /\ who[s] \in Registered /\ intento[s].de = who[s]
       /\ intento[s].resultado = EvaluateOutcome(result[s])[1]
       /\ intento[s].motivo = EvaluateOutcome(result[s])[2]
       /\ intento[s].scores = Guardado(result[s])

\* What an open transaction has written is still the verdict on the row as it
\* is committed.
TxOK(s) ==
  LET outcome == EvaluateOutcome(result[s])
  IN /\ CanVerify(pasajero[who[s]])
     /\ tx[s].pasajero = ApplyOutcome(pasajero[who[s]], outcome[1])
     /\ tx[s].intento = [de |-> who[s], resultado |-> outcome[1], motivo |-> outcome[2],
                         scores |-> Guardado(result[s])]
     /\ tx[s].identidad = (outcome[1] = "EXITOSO")

\* Where a request stands, and what it was told of its passenger.
RequestOK(s) ==
  /\ pc[s] \notin {"start", "done"} => who[s] \in Registered
  /\ pc[s] = "commit" => lock[who[s]] = s /\ TxOK(s)
  /\ pc[s] = "publish" => s \in identidad
  /\ answer[s].estadoFinal # "NINGUNO" =>
       /\ pc[s] = "done" /\ who[s] \in Registered /\ intento[s].de = who[s]
       /\ answer[s].estadoFinal = pasajero[who[s]].estado
       /\ answer[s].estadoFinal = "VERIFICADO" => s \in identidad

OneConclusion ==
  \A s, t \in Selfies :
    answer[s].estadoFinal # "NINGUNO" /\ answer[t].estadoFinal # "NINGUNO"
      /\ who[s] = who[t] => s = t

IInv ==
  /\ TypeOK
  /\ \A p \in Registered : PassengerOK(p)
  /\ \A s \in Selfies : AttemptOK(s) /\ RequestOK(s)
  /\ OneConclusion

-----------------------------------------------------------------------------
(* The operators.                                                          *)

\* A result has two scores, or says that there are none.
LEMMA ResultTyped ==
  ASSUME NEW r \in Results
  PROVE  r.liveness \in Nat /\ r.comparacion \in Nat /\ r.hay \in BOOLEAN
  <1>1. CASE r = NoResult
    BY <1>1 DEF NoResult
  <1>2. CASE r \in [liveness : Scores, comparacion : Scores, hay : {TRUE}]
    <2>1. r.liveness \in Scores /\ r.comparacion \in Scores /\ r.hay = TRUE
      BY <1>2
    <2> QED
      BY <2>1, ConstantsAssumption
  <1> QED
    BY <1>1, <1>2 DEF Results

\* evaluate_outcome: an outcome, and a success only on two good scores.
LEMMA OutcomeTyped ==
  ASSUME NEW r \in Results
  PROVE  /\ EvaluateOutcome(r)[1] \in Resultados
         /\ EvaluateOutcome(r)[2] \in {"NINGUNO", "LIVENESS", "COMPARACION"}
         /\ EvaluateOutcome(r)[1] = "EXITOSO" =>
              /\ r.hay
              /\ r.liveness >= UmbralLiveness
              /\ r.comparacion >= UmbralComparacion
  <1>1. r.liveness \in Nat /\ r.comparacion \in Nat
    BY ResultTyped
  <1> QED
    BY <1>1, ConstantsAssumption DEF EvaluateOutcome, Resultados

\* Pasajero.aplicar_resultado on a passenger that may still be verified.
LEMMA OutcomeApplied ==
  ASSUME NEW x \in Pasajero, CanVerify(x), x.fallidos < MaxIntentosFallidos,
         NEW resultado \in Resultados
  PROVE  LET y == ApplyOutcome(x, resultado)
         IN /\ y \in Pasajero
            /\ y.fallidos = IF resultado = "FALLIDO" THEN x.fallidos + 1 ELSE x.fallidos
            /\ y.estado = CASE resultado = "EXITOSO" -> "VERIFICADO"
                             [] resultado # "EXITOSO" /\ y.fallidos = MaxIntentosFallidos ->
                                  "REQUIERE_REVISION_MANUAL"
                             [] OTHER -> "PENDIENTE_VERIFICACION"
  <1>1. /\ x.estado = "PENDIENTE_VERIFICACION" /\ x.fallidos \in Nat
        /\ MaxIntentosFallidos \in Nat \ {0}
        /\ x = [estado |-> x.estado, fallidos |-> x.fallidos]
    BY ConstantsAssumption DEF CanVerify, Pasajero
  <1>2. CASE resultado = "EXITOSO"
    BY <1>1, <1>2 DEF ApplyOutcome, Pasajero, Estados, Finales
  <1>3. CASE resultado = "FALLIDO"
    BY <1>1, <1>3 DEF ApplyOutcome, Pasajero, Estados, Finales
  <1>4. CASE resultado = "NO_CONCLUYENTE"
    BY <1>1, <1>4 DEF ApplyOutcome, Pasajero, Estados, Finales
  <1> QED
    BY <1>2, <1>3, <1>4 DEF Resultados

\* A passenger that may be verified has no success yet and a failure to spare.
LEMMA PendingPassenger ==
  ASSUME TypeOK, NEW p \in Registered, PassengerOK(p), CanVerify(pasajero[p])
  PROVE  Attempts(p, "EXITOSO") = {} /\ pasajero[p].fallidos < MaxIntentosFallidos
  <1>1. pasajero[p].fallidos \in 0 .. MaxIntentosFallidos
    BY DEF TypeOK, Pasajero
  <1> QED
    BY <1>1, ConstantsAssumption DEF PassengerOK, CanVerify

\* Who has nothing recorded has no attempt of anybody.
LEMMA NoAttemptIsNoIntento == NoAttempt \notin Intento /\ NoAttempt.resultado = "AUSENTE"
  BY ConstantsAssumption DEF NoAttempt, Intento, Resultados

-----------------------------------------------------------------------------
(* Steps that write nothing to the database.                               *)

\* A step of s: the other requests stay.
StepOf(s) ==
  \A t \in Selfies \ {s} :
    /\ pc'[t] = pc[t] /\ who'[t] = who[t] /\ result'[t] = result[t]
    /\ tx'[t] = tx[t] /\ answer'[t] = answer[t]

LEMMA QuietKeepsPassengers ==
  ASSUME IInv, UNCHANGED << pasajero, intento >>, NEW p \in Registered
  PROVE  PassengerOK(p)'
  <1>1. \A resultado : Attempts(p, resultado)' = Attempts(p, resultado)
    BY DEF Attempts
  <1> QED
    BY <1>1 DEF IInv, PassengerOK

\* No row changes, no lock is lost to others, and s is told nothing final.
LEMMA QuietStep ==
  ASSUME IInv, NEW s \in Selfies, StepOf(s), UNCHANGED << stored, outbox, accepted >>,
         \A p \in Registered : lock[p] \in Selfies \ {s} => lock'[p] = lock[p],
         answer'[s].estadoFinal = "NINGUNO",
         TypeOK', AttemptOK(s)', RequestOK(s)'
  PROVE  IInv'
  <1>1. \A p \in Registered : PassengerOK(p)'
    BY QuietKeepsPassengers DEF stored
  <1>2. ASSUME NEW t \in Selfies \ {s}
        PROVE  AttemptOK(t)' /\ RequestOK(t)'
    BY DEF IInv, StepOf, AttemptOK, RequestOK, TxOK, stored
  <1>3. OneConclusion'
    BY DEF IInv, OneConclusion, StepOf
  <1> QED
    BY <1>1, <1>2, <1>3 DEF IInv

\* The steps before the transaction, and the late rejection.
LEMMA EarlyStepsKeep ==
  ASSUME IInv, NEW s \in Selfies,
         \/ Submit(s) \/ Refuse(s) \/ StoreSelfie(s) \/ StoreFailed(s)
         \/ Evaluate(s) \/ RejectLate(s)
  PROVE  IInv'
  <1>1. /\ UNCHANGED << pasajero, intento, identidad, tx, lock, outbox, accepted >>
        /\ pc[s] \in {"start", "store", "evaluate", "lock"}
        /\ pc'[s] \in {"store", "evaluate", "lock", "done"}
        /\ answer'[s].estadoFinal = "NINGUNO"
        /\ answer'[s].codigo \in Codigos
    BY DEF Submit, Refuse, StoreSelfie, StoreFailed, Evaluate, RejectLate, Quiet,
           stored, Goto, Fail, Say, Codigos, IInv, TypeOK, RequestOK
  <1>2. intento[s] = NoAttempt
    BY <1>1 DEF IInv, AttemptOK
  <1>3. pc' = [pc EXCEPT ![s] = pc'[s]] /\ StepOf(s)
    BY <1>1 DEF Submit, Refuse, StoreSelfie, StoreFailed, Evaluate, RejectLate, Quiet,
           stored, Goto, Fail, Say, StepOf, IInv, TypeOK
  <1>4. TypeOK'
    <2>1. who' \in [Selfies -> Passengers \cup {Nobody}]
      BY <1>1, ConstantsAssumption
         DEF Submit, Refuse, StoreSelfie, StoreFailed, Evaluate, RejectLate, IInv, TypeOK
    <2>2. result' \in [Selfies -> Results]
      BY <1>1 DEF Submit, Refuse, StoreSelfie, StoreFailed, Evaluate, RejectLate, IInv, TypeOK
    <2>3. blob' \subseteq Selfies
      BY <1>1 DEF Submit, Refuse, StoreSelfie, StoreFailed, Evaluate, RejectLate, Quiet,
                  IInv, TypeOK
    <2>4. answer' \in [Selfies -> [codigo : Codigos, estadoFinal : Finales \cup {"NINGUNO"}]]
      BY <1>1 DEF Submit, Refuse, StoreSelfie, StoreFailed, Evaluate, RejectLate, Quiet,
                  Fail, Say, Codigos, IInv, TypeOK
    <2>5. pc' \in [Selfies -> {"start", "store", "evaluate", "lock", "commit", "publish", "done"}]
      BY <1>1, <1>3 DEF IInv, TypeOK
    <2> QED
      BY <1>1, <2>1, <2>2, <2>3, <2>4, <2>5 DEF IInv, TypeOK
  <1>5. pc'[s] # "done" => who'[s] \in Registered
    BY <1>1 DEF Submit, Refuse, StoreSelfie, StoreFailed, Evaluate, RejectLate, Goto,
                Fail, IInv, TypeOK, RequestOK
  <1>6. AttemptOK(s)' /\ RequestOK(s)'
    BY <1>1, <1>2, <1>5 DEF IInv, AttemptOK, RequestOK
  <1> QED
    BY <1>1, <1>3, <1>4, <1>6, QuietStep DEF stored

-----------------------------------------------------------------------------
(* The transaction.                                                        *)

\* The verdict is typed, and it claims an identity exactly on a success: the
\* passenger has none yet.
LEMMA VerdictTyped ==
  ASSUME IInv, NEW s \in Selfies, who[s] \in Registered, CanVerify(pasajero[who[s]])
  PROVE  /\ Verdict(s) \in [pasajero : Pasajero, intento : Intento, identidad : BOOLEAN]
         /\ Verdict(s).identidad = (EvaluateOutcome(result[s])[1] = "EXITOSO")
  <1> DEFINE p == who[s]
             o == EvaluateOutcome(result[s])
  <1>1. /\ TypeOK /\ PassengerOK(p) /\ pasajero[p] \in Pasajero /\ result[s] \in Results
    BY DEF IInv, TypeOK
  <1>2. Attempts(p, "EXITOSO") = {} /\ pasajero[p].fallidos < MaxIntentosFallidos
    BY <1>1, PendingPassenger
  <1>3. ~HasIdentity(p)
    BY <1>1, <1>2 DEF HasIdentity, Attempts, IInv, AttemptOK, TypeOK
  <1>4. o[1] \in Resultados /\ o[2] \in {"NINGUNO", "LIVENESS", "COMPARACION"}
    BY <1>1, OutcomeTyped
  <1>5. ApplyOutcome(pasajero[p], o[1]) \in Pasajero
    BY <1>1, <1>2, <1>4, OutcomeApplied
  <1>6. Guardado(result[s]) \in Stored
    BY <1>1 DEF Stored
  <1>7. [de |-> p, resultado |-> o[1], motivo |-> o[2], scores |-> Guardado(result[s])]
          \in Intento
    BY <1>4, <1>6 DEF Intento
  <1>8. (o[1] = "EXITOSO" /\ ~HasIdentity(p)) = (o[1] = "EXITOSO")
    BY <1>3
  <1> QED
    BY <1>5, <1>7, <1>8 DEF Verdict

LEMMA RecordAttemptKeeps ==
  ASSUME IInv, NEW s \in Selfies, RecordAttempt(s)
  PROVE  IInv'
  <1>1. /\ TypeOK /\ pc[s] = "lock" /\ who[s] \in Registered /\ who[s] \in Passengers
        /\ lock[who[s]] = Nobody /\ CanVerify(pasajero[who[s]])
        /\ UNCHANGED << who, result, blob, pasajero, intento, identidad, answer, outbox, accepted >>
        /\ intento[s] = NoAttempt
    BY ConstantsAssumption DEF RecordAttempt, IInv, RequestOK, AttemptOK, stored
  <1>2. /\ pc' = [pc EXCEPT ![s] = "commit"]
        /\ lock' = [lock EXCEPT ![who[s]] = s]
        /\ tx' = [tx EXCEPT ![s] = Verdict(s)]
    BY DEF RecordAttempt, Goto
  <1>3. StepOf(s)
    BY <1>1, <1>2 DEF StepOf, TypeOK
  <1>4. TypeOK'
    BY <1>1, <1>2, VerdictTyped DEF TypeOK
  <1>5. TxOK(s)'
    <2>1. tx'[s] = Verdict(s)
      BY <1>1, <1>2 DEF TypeOK
    <2>2. TxOK(s)' <=> /\ CanVerify(pasajero[who[s]])
                       /\ LET outcome == EvaluateOutcome(result[s])
                          IN /\ Verdict(s).pasajero = ApplyOutcome(pasajero[who[s]], outcome[1])
                             /\ Verdict(s).intento =
                                  [de |-> who[s], resultado |-> outcome[1],
                                   motivo |-> outcome[2], scores |-> Guardado(result[s])]
                             /\ Verdict(s).identidad = (outcome[1] = "EXITOSO")
      BY <1>1, <2>1 DEF TxOK
    <2> QED
      BY <1>1, <2>2, VerdictTyped DEF Verdict
  <1>6. AttemptOK(s)'
    BY <1>1, <1>2 DEF AttemptOK, IInv
  <1>7. answer[s].estadoFinal = "NINGUNO"
    BY <1>1 DEF IInv, RequestOK
  <1>8. RequestOK(s)'
    BY <1>1, <1>2, <1>5, <1>7 DEF RequestOK, TypeOK
  <1>9. \A p \in Registered : lock[p] \in Selfies \ {s} => lock'[p] = lock[p]
    BY <1>1, <1>2, ConstantsAssumption DEF TypeOK
  <1> QED
    BY <1>1, <1>3, <1>4, <1>6, <1>7, <1>8, <1>9, QuietStep DEF stored

\* What a commit by s finds: the row it was decided on, and nothing of s.
Deciding(s) ==
  /\ pc[s] = "commit" /\ who[s] \in Registered /\ who[s] \in Passengers
  /\ lock[who[s]] = s /\ TxOK(s)
  /\ intento[s] = NoAttempt /\ s \notin identidad /\ outbox[s] = "AUSENTE"
  /\ EvaluateOutcome(result[s])[1] \in Resultados
  /\ Attempts(who[s], "EXITOSO") = {}
  /\ pasajero[who[s]].fallidos < MaxIntentosFallidos

LEMMA CommitDecides ==
  ASSUME IInv, NEW s \in Selfies, pc[s] = "commit"
  PROVE  Deciding(s)
  <1>1. TypeOK /\ RequestOK(s) /\ AttemptOK(s)
    BY DEF IInv
  <1>2. /\ who[s] \in Registered /\ who[s] \in Passengers /\ lock[who[s]] = s /\ TxOK(s)
        /\ CanVerify(pasajero[who[s]])
    BY <1>1, ConstantsAssumption DEF RequestOK, TxOK
  <1>3. intento[s] = NoAttempt /\ s \notin identidad /\ outbox[s] = "AUSENTE"
    BY <1>1, NoAttemptIsNoIntento DEF AttemptOK
  <1>4. EvaluateOutcome(result[s])[1] \in Resultados
    BY <1>1, OutcomeTyped DEF TypeOK
  <1>5. PassengerOK(who[s])
    BY <1>2 DEF IInv
  <1> QED
    BY <1>1, <1>2, <1>3, <1>4, <1>5, PendingPassenger DEF Deciding

\* The attempt of s is the only new one.
LEMMA CommitAddsAttempt ==
  ASSUME IInv, NEW s \in Selfies, Deciding(s), intento' = [intento EXCEPT ![s] = tx[s].intento],
         NEW p \in Registered, NEW resultado \in Resultados
  PROVE  /\ s \notin Attempts(p, resultado)
         /\ Attempts(p, resultado)' =
              IF p = who[s] /\ resultado = EvaluateOutcome(result[s])[1]
              THEN Attempts(p, resultado) \cup {s} ELSE Attempts(p, resultado)
  <1>1. /\ intento[s] = NoAttempt /\ NoAttempt.resultado = "AUSENTE"
        /\ resultado # "AUSENTE"
    BY NoAttemptIsNoIntento DEF Deciding, Resultados
  <1>2. /\ intento'[s].de = who[s]
        /\ intento'[s].resultado = EvaluateOutcome(result[s])[1]
        /\ \A t \in Selfies \ {s} : intento'[t] = intento[t]
    BY DEF Deciding, TxOK, IInv, TypeOK
  <1> QED
    BY <1>1, <1>2 DEF Attempts

LEMMA CommitKeepsPassengers ==
  ASSUME IInv, NEW s \in Selfies, Deciding(s),
         pasajero' = [pasajero EXCEPT ![who[s]] = tx[s].pasajero],
         intento' = [intento EXCEPT ![s] = tx[s].intento],
         NEW p \in Registered
  PROVE  PassengerOK(p)'
  <1> DEFINE o == EvaluateOutcome(result[s])[1]
             exitos == Attempts(p, "EXITOSO")
             fallos == Attempts(p, "FALLIDO")
  <1>1. TypeOK /\ PassengerOK(p) /\ o \in Resultados
    BY DEF IInv, Deciding
  <1>2. /\ "EXITOSO" \in Resultados /\ "FALLIDO" \in Resultados
    BY DEF Resultados
  <1>3. CASE p # who[s]
    <2>1. /\ exitos' = exitos /\ fallos' = fallos
      BY <1>2, <1>3, CommitAddsAttempt
    <2>2. pasajero'[p] = pasajero[p]
      BY <1>1, <1>3 DEF TypeOK
    <2> QED
      BY <1>1, <2>1, <2>2 DEF PassengerOK
  <1>4. CASE p = who[s]
    <2>1. /\ s \notin fallos
          /\ exitos' = IF o = "EXITOSO" THEN {s} ELSE {}
          /\ fallos' = IF o = "FALLIDO" THEN fallos \cup {s} ELSE fallos
      <3>1. exitos' = IF o = "EXITOSO" THEN exitos \cup {s} ELSE exitos
        BY <1>2, <1>4, CommitAddsAttempt
      <3>2. s \notin fallos /\ fallos' = IF o = "FALLIDO" THEN fallos \cup {s} ELSE fallos
        BY <1>2, <1>4, CommitAddsAttempt
      <3>3. exitos = {}
        BY <1>4 DEF Deciding
      <3> QED
        BY <3>1, <3>2, <3>3
    <2>2. /\ IsFiniteSet(fallos) /\ Cardinality(fallos) = pasajero[p].fallidos
          /\ IsFiniteSet(fallos') /\ IsFiniteSet(fallos \cup {s})
          /\ Cardinality(fallos \cup {s}) = Cardinality(fallos) + 1
      BY <1>1, <2>1, FS_AddElement DEF PassengerOK
    <2>3. /\ pasajero'[p] = ApplyOutcome(pasajero[p], o)
          /\ CanVerify(pasajero[p]) /\ pasajero[p] \in Pasajero
          /\ pasajero[p].fallidos < MaxIntentosFallidos
      BY <1>1, <1>4 DEF Deciding, TxOK, TypeOK
    <2>4. /\ pasajero'[p].fallidos =
                IF o = "FALLIDO" THEN pasajero[p].fallidos + 1 ELSE pasajero[p].fallidos
          /\ pasajero'[p].estado =
                CASE o = "EXITOSO" -> "VERIFICADO"
                  [] o # "EXITOSO" /\ pasajero'[p].fallidos = MaxIntentosFallidos ->
                       "REQUIERE_REVISION_MANUAL"
                  [] OTHER -> "PENDIENTE_VERIFICACION"
      BY <1>1, <2>3, OutcomeApplied
    <2>5. pasajero'[p].fallidos = Cardinality(fallos')
      BY <2>1, <2>2, <2>4
    <2>6. o = "EXITOSO" <=> exitos' # {}
      BY <2>1
    <2>7. \A t, u \in exitos' : t = u
      BY <2>1
    <2>8. exitos' # {} => pasajero'[p].fallidos < MaxIntentosFallidos
      BY <2>3, <2>4, <2>6
    <2>9. pasajero'[p].estado = CASE exitos' # {} -> "VERIFICADO"
                                  [] exitos' = {} /\ pasajero'[p].fallidos = MaxIntentosFallidos ->
                                       "REQUIERE_REVISION_MANUAL"
                                  [] OTHER -> "PENDIENTE_VERIFICACION"
      BY <2>4, <2>6
    <2> QED
      BY <2>2, <2>5, <2>7, <2>8, <2>9 DEF PassengerOK
  <1> QED
    BY <1>3, <1>4

\* The rows become visible together, and the request goes on, ends or dies.
LEMMA CommitAttemptKeeps ==
  ASSUME IInv, NEW s \in Selfies, pc[s] = "commit", CommitAttempt(s),
         UNCHANGED << who, result, blob >>,
         NEW l \in {"publish", "done"}, pc' = [pc EXCEPT ![s] = l],
         NEW c \in [codigo : Codigos, estadoFinal : Finales \cup {"NINGUNO"}],
         answer' = [answer EXCEPT ![s] = c],
         l = "publish" => tx[s].identidad,
         c.estadoFinal # "NINGUNO" =>
           l = "done" /\ ~tx[s].identidad /\ c.estadoFinal = tx[s].pasajero.estado
  PROVE  IInv'
  <1> DEFINE p == who[s]
             o == EvaluateOutcome(result[s])[1]
  <1>1. TypeOK /\ Deciding(s)
    BY CommitDecides DEF IInv
  <1>2. /\ pasajero' = [pasajero EXCEPT ![p] = tx[s].pasajero]
        /\ intento' = [intento EXCEPT ![s] = tx[s].intento]
        /\ tx' = [tx EXCEPT ![s] = NoTx]
        /\ lock' = [q \in Passengers |-> IF lock[q] = s THEN Nobody ELSE lock[q]]
    BY DEF CommitAttempt, Release
  <1>3. /\ tx[s].identidad = (o = "EXITOSO")
        /\ tx[s].pasajero = ApplyOutcome(pasajero[p], o)
        /\ tx[s].intento.de = p /\ tx[s].intento.resultado = o
        /\ tx[s].intento.motivo = EvaluateOutcome(result[s])[2]
        /\ tx[s].intento.scores = Guardado(result[s])
        /\ pasajero[p].estado = "PENDIENTE_VERIFICACION"
    BY <1>1 DEF Deciding, TxOK, CanVerify
  <1>4. /\ accepted' = accepted
        /\ identidad' = IF o = "EXITOSO" THEN identidad \cup {s} ELSE identidad
        /\ outbox' = IF o = "EXITOSO" THEN [outbox EXCEPT ![s] = "PENDIENTE"] ELSE outbox
    BY <1>3 DEF CommitAttempt, Channel!Enqueue
  <1>5. StepOf(s)
    BY <1>1, <1>2 DEF StepOf, TypeOK
  <1>6. tx[s] \in [pasajero : Pasajero, intento : Intento, identidad : BOOLEAN]
    <2>1. NoTx.intento.resultado = "AUSENTE" /\ o # "AUSENTE"
      BY <1>1, NoAttemptIsNoIntento DEF NoTx, Deciding, Resultados
    <2> QED
      BY <1>1, <1>3, <2>1 DEF TypeOK
  <1>7. TypeOK'
    <2>1. pc' \in [Selfies -> {"start", "store", "evaluate", "lock", "commit", "publish", "done"}]
      BY <1>1 DEF TypeOK
    <2>2. pasajero' \in [Registered -> Pasajero] /\ intento' \in [Selfies -> Intento \cup {NoAttempt}]
      BY <1>1, <1>2, <1>6 DEF TypeOK
    <2>3. /\ tx' \in [Selfies -> {NoTx} \cup
                        [pasajero : Pasajero, intento : Intento, identidad : BOOLEAN]]
          /\ lock' \in [Passengers -> Selfies \cup {Nobody}]
      BY <1>1, <1>2 DEF TypeOK
    <2>4. identidad' \subseteq Selfies /\ accepted' \subseteq Selfies
      BY <1>1, <1>4 DEF TypeOK
    <2>5. outbox' \in [Selfies -> {"AUSENTE", "PENDIENTE", "ENTREGADO"}]
      BY <1>1, <1>4 DEF TypeOK
    <2>6. answer' \in [Selfies -> [codigo : Codigos, estadoFinal : Finales \cup {"NINGUNO"}]]
      BY <1>1 DEF TypeOK
    <2> QED
      BY <1>1, <2>1, <2>2, <2>3, <2>4, <2>5, <2>6 DEF TypeOK
  <1>8. \A q \in Registered : PassengerOK(q)'
    BY <1>1, <1>2, CommitKeepsPassengers
  <1>9. ASSUME NEW t \in Selfies \ {s}, who[t] = p
        PROVE  pc[t] # "commit" /\ answer[t].estadoFinal = "NINGUNO"
    <2>1. pc[t] # "commit"
      BY <1>1, <1>9 DEF Deciding, IInv, RequestOK
    <2>2. answer[t].estadoFinal \in Finales \cup {"NINGUNO"}
      BY <1>1 DEF TypeOK
    <2> QED
      BY <1>3, <1>9, <2>1, <2>2 DEF IInv, RequestOK, Finales
  <1>10. ASSUME NEW t \in Selfies \ {s}
         PROVE  AttemptOK(t)' /\ RequestOK(t)'
    <2>1. AttemptOK(t) /\ RequestOK(t)
      BY DEF IInv
    <2>2. /\ pc'[t] = pc[t] /\ who'[t] = who[t] /\ result'[t] = result[t]
          /\ tx'[t] = tx[t] /\ answer'[t] = answer[t] /\ intento'[t] = intento[t]
          /\ t \in identidad' <=> t \in identidad
          /\ outbox'[t] = outbox[t]
      BY <1>1, <1>2, <1>4, <1>5 DEF StepOf, TypeOK
    <2>3. AttemptOK(t)'
      BY <1>4, <2>1, <2>2 DEF AttemptOK
    <2>4. CASE who[t] = p
      <3>1. pc[t] # "commit" /\ answer[t].estadoFinal = "NINGUNO"
        BY <1>9, <2>4
      <3> QED
        BY <2>1, <2>2, <2>3, <3>1 DEF RequestOK
    <2>5. CASE who[t] # p
      <3>1. who[t] \in Registered => pasajero'[who[t]] = pasajero[who[t]]
        BY <1>1, <1>2, <2>5 DEF TypeOK
      <3>2. who[t] \in Passengers /\ lock[who[t]] = t => lock'[who[t]] = t
        BY <1>2
      <3>3. pc[t] = "commit" => TxOK(t)' /\ lock'[who[t]] = t
        BY <2>1, <2>2, <3>1, <3>2, ConstantsAssumption DEF RequestOK, TxOK
      <3> QED
        BY <2>1, <2>2, <2>3, <3>1, <3>3 DEF RequestOK
    <2> QED
      BY <2>3, <2>4, <2>5
  <1>11. AttemptOK(s)'
    <2>1. intento'[s] = tx[s].intento /\ pc'[s] = l
      BY <1>1, <1>2 DEF TypeOK
    <2>2. s \in identidad' <=> o = "EXITOSO"
      BY <1>1, <1>4 DEF Deciding
    <2>3. outbox'[s] # "AUSENTE" <=> o = "EXITOSO"
      BY <1>1, <1>4 DEF Deciding, TypeOK
    <2>4. s \notin accepted
      BY <1>1 DEF Deciding, IInv, AttemptOK
    <2> QED
      BY <1>1, <1>3, <1>4, <2>1, <2>2, <2>3, <2>4 DEF AttemptOK, Deciding
  <1>12. RequestOK(s)'
    <2>1. /\ intento'[s].de = p /\ pc'[s] = l /\ answer'[s] = c /\ who'[s] = p
          /\ pasajero'[p] = tx[s].pasajero /\ p \in Registered
      BY <1>1, <1>2, <1>3 DEF TypeOK, Deciding
    <2>2. l = "publish" => s \in identidad'
      BY <1>3, <1>4
    <2>3. ~tx[s].identidad => tx[s].pasajero.estado # "VERIFICADO"
      <3>1. /\ pasajero[p] \in Pasajero /\ CanVerify(pasajero[p])
            /\ pasajero[p].fallidos < MaxIntentosFallidos /\ o \in Resultados
        BY <1>1 DEF Deciding, TxOK, TypeOK
      <3>2. o # "EXITOSO" => ApplyOutcome(pasajero[p], o).estado # "VERIFICADO"
        BY <3>1, OutcomeApplied
      <3> QED
        BY <1>3, <3>2
    <2> QED
      BY <2>1, <2>2, <2>3 DEF RequestOK
  <1>13. OneConclusion'
    BY <1>5, <1>9, <1>1 DEF IInv, OneConclusion, StepOf, TypeOK
  <1> QED
    BY <1>7, <1>8, <1>10, <1>11, <1>12, <1>13 DEF IInv

-----------------------------------------------------------------------------
(* After the commit.                                                       *)

\* Taking an event or marking it is done to committed events only.
LEMMA DispatchKeeps ==
  ASSUME IInv, NEW s \in Selfies, Dispatch(s)
  PROVE  IInv'
  <1>1. UNCHANGED << pc, who, result, tx, answer, blob, pasajero, intento, identidad, lock >>
    BY DEF Dispatch, local, stored
  <1>2. /\ outbox[s] = "PENDIENTE"
        /\ accepted' \in {accepted, accepted \cup {s}}
        /\ outbox' \in {outbox, [outbox EXCEPT ![s] = "ENTREGADO"]}
    BY DEF Dispatch, Channel!Accept, Channel!MarkDelivered
  <1>3. TypeOK'
    BY <1>1, <1>2 DEF IInv, TypeOK
  <1>4. \A p \in Registered : PassengerOK(p)'
    BY <1>1, QuietKeepsPassengers
  <1>5. ASSUME NEW t \in Selfies
        PROVE  AttemptOK(t)'
    <2>1. outbox'[t] # "AUSENTE" <=> outbox[t] # "AUSENTE"
      BY <1>2 DEF IInv, TypeOK
    <2>2. t \in accepted' => t \in accepted \/ t = s
      BY <1>2
    <2> QED
      BY <1>1, <1>2, <2>1, <2>2 DEF IInv, AttemptOK
  <1>6. \A t \in Selfies : RequestOK(t)'
    BY <1>1 DEF IInv, RequestOK, TxOK
  <1>7. OneConclusion'
    BY <1>1 DEF IInv, OneConclusion
  <1> QED
    BY <1>3, <1>4, <1>5, <1>6, <1>7 DEF IInv

LEMMA CommitKeeps ==
  ASSUME IInv, NEW s \in Selfies, Commit(s)
  PROVE  IInv'
  <1>1. TypeOK /\ pc[s] = "commit" /\ CommitAttempt(s) /\ UNCHANGED << who, result, blob >>
    BY DEF Commit, IInv
  <1>2. CASE tx[s].identidad
    <2>1. pc' = [pc EXCEPT ![s] = "publish"] /\ answer' = answer
      BY <1>2 DEF Commit, Goto
    <2>2. /\ answer[s] \in [codigo : Codigos, estadoFinal : Finales \cup {"NINGUNO"}]
          /\ answer[s].estadoFinal = "NINGUNO"
          /\ answer' = [answer EXCEPT ![s] = answer[s]]
      BY <1>1, <2>1 DEF IInv, TypeOK, RequestOK
    <2> QED
      BY <1>1, <1>2, <2>1, <2>2, CommitAttemptKeeps
  <1>3. CASE ~tx[s].identidad
    <2> DEFINE c == [codigo |-> tx[s].intento.resultado,
                     estadoFinal |-> EstadoFinal(tx[s].pasajero)]
    <2>1. pc' = [pc EXCEPT ![s] = "done"] /\ answer' = [answer EXCEPT ![s] = c]
      BY <1>3 DEF Commit, Goto, Say
    <2>2. Deciding(s)
      BY <1>1, CommitDecides
    <2>3. c.codigo \in Codigos
      BY <2>2 DEF Deciding, TxOK, Codigos
    <2>4. /\ c.estadoFinal \in Finales \cup {"NINGUNO"}
          /\ c.estadoFinal # "NINGUNO" => c.estadoFinal = tx[s].pasajero.estado
      BY DEF EstadoFinal
    <2>5. c \in [codigo : Codigos, estadoFinal : Finales \cup {"NINGUNO"}]
      BY <2>3, <2>4
    <2> HIDE DEF c
    <2> QED
      BY <1>1, <1>3, <2>1, <2>4, <2>5, CommitAttemptKeeps
  <1> QED
    BY <1>2, <1>3

\* The response to a success: nobody else was told of its passenger.
LEMMA PublishNowKeeps ==
  ASSUME IInv, NEW s \in Selfies, PublishNow(s)
  PROVE  IInv'
  <1> DEFINE p == who[s]
             c == [codigo |-> intento[s].resultado, estadoFinal |-> EstadoFinal(pasajero[p])]
  <1>1. /\ TypeOK /\ pc[s] = "publish"
        /\ UNCHANGED << who, result, tx, blob, pasajero, intento, identidad, lock >>
        /\ pc' = [pc EXCEPT ![s] = "done"]
        /\ answer' = [answer EXCEPT ![s] = c]
    BY DEF PublishNow, Goto, Say, IInv, stored
  <1>2. /\ s \in identidad /\ p \in Registered /\ intento[s].de = p
        /\ intento[s].resultado = "EXITOSO" /\ outbox[s] # "AUSENTE"
        /\ s \in Attempts(p, "EXITOSO")
    <2>1. s \in identidad /\ intento[s].resultado = "EXITOSO"
      BY <1>1 DEF IInv, RequestOK, AttemptOK
    <2> QED
      BY <2>1, NoAttemptIsNoIntento DEF IInv, AttemptOK, Attempts
  <1>3. pasajero[p].estado = "VERIFICADO"
    BY <1>2 DEF IInv, PassengerOK
  <1>4. c.codigo = "EXITOSO" /\ c.estadoFinal = "VERIFICADO"
    BY <1>2, <1>3 DEF EstadoFinal, Finales
  <1>5. c \in [codigo : Codigos, estadoFinal : Finales \cup {"NINGUNO"}]
    BY <1>4 DEF Codigos, Resultados, Finales
  <1>6. /\ accepted' \in {accepted, accepted \cup {s}}
        /\ outbox' \in {outbox, [outbox EXCEPT ![s] = "ENTREGADO"]}
    BY DEF PublishNow, Channel!Accept, Channel!MarkDelivered
  <1> HIDE DEF c
  <1>7. StepOf(s) /\ answer'[s] = c /\ pc'[s] = "done"
    BY <1>1 DEF StepOf, TypeOK
  <1>8. TypeOK'
    BY <1>1, <1>5, <1>6 DEF TypeOK
  <1>9. \A q \in Registered : PassengerOK(q)'
    BY <1>1, QuietKeepsPassengers
  <1>10. ASSUME NEW t \in Selfies
         PROVE  AttemptOK(t)'
    <2>1. outbox'[t] # "AUSENTE" <=> outbox[t] # "AUSENTE"
      BY <1>2, <1>6 DEF IInv, TypeOK
    <2>2. t \in accepted' => t \in accepted \/ t = s
      BY <1>6
    <2>3. pc[t] \in {"publish", "done"} => pc'[t] \in {"publish", "done"}
      BY <1>1 DEF TypeOK
    <2> QED
      BY <1>1, <1>2, <2>1, <2>2, <2>3 DEF IInv, AttemptOK
  <1>11. ASSUME NEW t \in Selfies
         PROVE  RequestOK(t)'
    <2>1. CASE t = s
      BY <1>1, <1>2, <1>3, <1>4, <1>7, <2>1 DEF RequestOK
    <2>2. CASE t # s
      BY <1>1, <1>7, <2>2 DEF IInv, RequestOK, TxOK, StepOf
    <2> QED
      BY <2>1, <2>2
  <1>12. ASSUME NEW t \in Selfies \ {s}, who[t] = p
         PROVE  answer[t].estadoFinal = "NINGUNO"
    <2> SUFFICES ASSUME answer[t].estadoFinal # "NINGUNO" PROVE FALSE
      OBVIOUS
    <2>1. t \in identidad /\ intento[t].de = p
      BY <1>3, <1>12 DEF IInv, RequestOK
    <2>2. t \in Attempts(p, "EXITOSO")
      BY <2>1 DEF IInv, AttemptOK, Attempts
    <2> QED
      BY <1>2, <2>2 DEF IInv, PassengerOK
  <1>13. OneConclusion'
    BY <1>1, <1>7, <1>12 DEF IInv, OneConclusion, StepOf
  <1> QED
    BY <1>8, <1>9, <1>10, <1>11, <1>13 DEF IInv

LEMMA CrashKeeps ==
  ASSUME IInv, NEW s \in Selfies, Crash(s)
  PROVE  IInv'
  <1> DEFINE c == [codigo |-> "ERROR", estadoFinal |-> "NINGUNO"]
  <1>1. /\ TypeOK /\ pc[s] \notin {"start", "done"}
        /\ UNCHANGED << who, result, blob >>
        /\ pc' = [pc EXCEPT ![s] = "done"]
        /\ answer' = [answer EXCEPT ![s] = c]
        /\ c \in [codigo : Codigos, estadoFinal : Finales \cup {"NINGUNO"}]
        /\ c.estadoFinal = "NINGUNO"
    BY DEF Crash, Fail, Goto, Say, IInv, Codigos
  <1> HIDE DEF c
  <1>2. CASE pc[s] = "commit" /\ CommitAttempt(s)
    BY <1>1, <1>2, CommitAttemptKeeps
  <1>3. CASE Release(s) /\ UNCHANGED << stored, outbox, accepted >>
    <2>1. StepOf(s)
      BY <1>1, <1>3 DEF StepOf, TypeOK, Release
    <2>2. /\ tx' \in [Selfies -> {NoTx} \cup
                        [pasajero : Pasajero, intento : Intento, identidad : BOOLEAN]]
          /\ lock' \in [Passengers -> Selfies \cup {Nobody}]
      BY <1>1, <1>3 DEF TypeOK, Release
    <2>3. TypeOK'
      BY <1>1, <1>3, <2>2 DEF TypeOK, stored
    <2>4. AttemptOK(s)'
      BY <1>1, <1>3 DEF IInv, AttemptOK, TypeOK, stored
    <2>5. RequestOK(s)' /\ answer'[s].estadoFinal = "NINGUNO"
      BY <1>1, <1>3 DEF RequestOK, TypeOK
    <2>6. \A p \in Registered : lock[p] \in Selfies \ {s} => lock'[p] = lock[p]
      BY <1>3, ConstantsAssumption DEF Release
    <2> QED
      BY <1>3, <2>1, <2>3, <2>4, <2>5, <2>6, QuietStep
  <1> QED
    BY <1>2, <1>3 DEF Crash

-----------------------------------------------------------------------------
LEMMA InitEstablishes == Init => IInv
  <1> SUFFICES ASSUME Init PROVE IInv
    OBVIOUS
  <1> USE DEF Init
  <1>1. outbox = [s \in Selfies |-> "AUSENTE"] /\ accepted = {}
    BY DEF Channel!ChannelInit
  <1>2. pasajero \in [Registered -> Pasajero]
    BY ConstantsAssumption DEF Nuevo, Pasajero, Estados
  <1>3. TypeOK
    BY <1>1, <1>2 DEF TypeOK, Results, Codigos, NoAnswer
  <1>4. ASSUME NEW p \in Registered
        PROVE  PassengerOK(p)
    <2>1. Attempts(p, "EXITOSO") = {} /\ Attempts(p, "FALLIDO") = {}
      BY NoAttemptIsNoIntento DEF Attempts
    <2>2. pasajero[p].fallidos = 0 /\ pasajero[p].estado = "PENDIENTE_VERIFICACION"
      BY DEF Nuevo
    <2> QED
      BY <2>1, <2>2, FS_EmptySet, ConstantsAssumption DEF PassengerOK
  <1>5. \A s \in Selfies : AttemptOK(s) /\ RequestOK(s)
    BY <1>1, NoAttemptIsNoIntento DEF AttemptOK, RequestOK, NoAnswer
  <1>6. OneConclusion
    BY DEF OneConclusion, NoAnswer
  <1> QED
    BY <1>3, <1>4, <1>5, <1>6 DEF IInv

LEMMA NextKeeps == IInv /\ [Next]_vars => IInv'
  <1> SUFFICES ASSUME IInv, [Next]_vars PROVE IInv'
    OBVIOUS
  <1>1. ASSUME NEW s \in Selfies, Verify(s)
        PROVE  IInv'
    <2>1. CASE \/ Submit(s) \/ Refuse(s) \/ StoreSelfie(s) \/ StoreFailed(s)
               \/ Evaluate(s) \/ RejectLate(s)
      BY <2>1, EarlyStepsKeep
    <2>2. CASE RecordAttempt(s)
      BY <2>2, RecordAttemptKeeps
    <2>3. CASE Commit(s)
      BY <2>3, CommitKeeps
    <2>4. CASE PublishNow(s)
      BY <2>4, PublishNowKeeps
    <2> QED
      BY <1>1, <2>1, <2>2, <2>3, <2>4 DEF Verify
  <1>2. ASSUME NEW s \in Selfies, Crash(s) \/ Dispatch(s)
        PROVE  IInv'
    BY <1>2, CrashKeeps, DispatchKeeps
  <1>3. CASE UNCHANGED vars
    <2>1. \A p \in Registered : PassengerOK(p)'
      BY <1>3, QuietKeepsPassengers DEF vars
    <2> QED
      BY <1>3, <2>1 DEF vars, IInv, TypeOK, AttemptOK, RequestOK, TxOK, OneConclusion
  <1> QED
    BY <1>1, <1>2, <1>3 DEF Next

\* The inductive invariant holds in every reachable state.
THEOREM Invariance == Spec => []IInv
  BY InitEstablishes, NextKeeps, PTL DEF Spec

-----------------------------------------------------------------------------
(* What follows.                                                           *)

\* Every variable keeps its type: intentos_fallidos never passes the limit.
THEOREM TypeCorrect == Spec => []TypeOK
  <1>1. IInv => TypeOK
    BY DEF IInv
  <1> QED
    BY <1>1, Invariance, PTL

\* FR-008: the attempts of a passenger explain its row, for any number of
\* selfies in flight and any limit.
THEOREM AttemptsExplainPassengerHolds == Spec => []AttemptsExplainPassenger
  <1>1. ASSUME IInv, NEW p \in Registered
        PROVE  LET exitos == Cardinality(Attempts(p, "EXITOSO"))
                   fallos == Cardinality(Attempts(p, "FALLIDO"))
               IN /\ pasajero[p].fallidos = fallos
                  /\ exitos + (IF fallos >= MaxIntentosFallidos THEN 1 ELSE 0) <= 1
                  /\ pasajero[p].estado = CASE exitos = 1 -> "VERIFICADO"
                                            [] fallos >= MaxIntentosFallidos ->
                                                 "REQUIERE_REVISION_MANUAL"
                                            [] OTHER -> "PENDIENTE_VERIFICACION"
    <2> DEFINE E == Attempts(p, "EXITOSO")
               n == Cardinality(Attempts(p, "FALLIDO"))
    <2>1. /\ PassengerOK(p) /\ pasajero[p].fallidos \in 0 .. MaxIntentosFallidos
          /\ pasajero[p].fallidos = n
      BY <1>1 DEF IInv, TypeOK, Pasajero, PassengerOK
    <2>2. CASE E = {}
      <3>1. Cardinality(E) = 0
        BY <2>2, FS_EmptySet
      <3>2. n >= MaxIntentosFallidos <=> n = MaxIntentosFallidos
        BY <2>1, ConstantsAssumption
      <3> QED
        BY <2>1, <2>2, <3>1, <3>2, ConstantsAssumption DEF PassengerOK
    <2>3. CASE E # {}
      <3>1. PICK s \in E : E = {s}
        BY <2>1, <2>3 DEF PassengerOK
      <3>2. Cardinality(E) = 1
        BY <3>1, FS_Singleton
      <3>3. n < MaxIntentosFallidos /\ pasajero[p].estado = "VERIFICADO"
        BY <2>1, <2>3 DEF PassengerOK
      <3> QED
        BY <2>1, <3>2, <3>3, ConstantsAssumption
    <2> QED
      BY <2>2, <2>3
  <1>2. IInv => AttemptsExplainPassenger
    BY <1>1 DEF AttemptsExplainPassenger
  <1> QED
    BY <1>2, Invariance, PTL

\* FR-011, FR-012: success, identity and event are one fact, committed at once,
\* and QStash is told of nothing else.
THEOREM IdentityComesWithItsEventHolds == Spec => []IdentityComesWithItsEvent
  <1>1. IInv => IdentityComesWithItsEvent
    BY DEF IInv, AttemptOK, IdentityComesWithItsEvent
  <1> QED
    BY <1>1, Invariance, PTL

\* KR A1.2: one response of a passenger carries a final state, the one in the
\* row, no matter how requests interleave or die.
THEOREM ConcludedOnceHolds == Spec => []ConcludedOnce
  <1>1. IInv => ConcludedOnce
    BY DEF IInv, RequestOK, OneConclusion, ConcludedOnce
  <1> QED
    BY <1>1, Invariance, PTL

\* Rounding to thousandths keeps the order.
LEMMA DecIsMonotone ==
  ASSUME NEW a \in Nat, NEW b \in Nat, a <= b
  PROVE  Dec(a) \in Nat /\ Dec(b) \in Nat /\ Dec(a) <= Dec(b)
  BY DEF Dec

\* FR-007: what a row stores of the scores explains the verdict it stores.
THEOREM RowExplainsVerdictHolds == Spec => []RowExplainsVerdict
  <1> DEFINE Explained(s) ==
        LET row == intento[s]
            live == row.scores.liveness >= Dec(UmbralLiveness)
        IN /\ row.resultado = "EXITOSO" =>
                /\ result[s].liveness >= UmbralLiveness
                /\ result[s].comparacion >= UmbralComparacion
                /\ live /\ row.scores.comparacion >= Dec(UmbralComparacion)
           /\ row.motivo = "LIVENESS" => row.scores.liveness <= Dec(UmbralLiveness)
           /\ row.motivo = "COMPARACION" =>
                live /\ row.scores.comparacion <= Dec(UmbralComparacion)
           /\ row.resultado = "FALLIDO" <=> row.motivo # "NINGUNO"
           /\ row.scores.hay <=> row.resultado \in {"EXITOSO", "FALLIDO"}
  <1>1. ASSUME IInv, NEW s \in Selfies
        PROVE  Explained(s)
    <2>1. CASE intento[s] = NoAttempt
      BY <2>1 DEF NoAttempt, NoResult
    <2>2. CASE intento[s] # NoAttempt
      <3>1. PICK r \in Results : r = result[s]
        BY <1>1 DEF IInv, TypeOK
      <3>2. /\ intento[s].resultado = EvaluateOutcome(r)[1]
            /\ intento[s].motivo = EvaluateOutcome(r)[2]
            /\ intento[s].scores = Guardado(r)
        BY <1>1, <2>2, <3>1 DEF IInv, AttemptOK
      <3>3. r.liveness \in Nat /\ r.comparacion \in Nat /\ r.hay \in BOOLEAN
        BY ResultTyped
      <3>4. /\ intento[s].scores.liveness = Dec(r.liveness)
            /\ intento[s].scores.comparacion = Dec(r.comparacion)
            /\ intento[s].scores.hay = r.hay
        BY <3>2, <3>1 DEF Guardado, Results, NoResult
      <3>5. UmbralLiveness \in Nat /\ UmbralComparacion \in Nat
        BY ConstantsAssumption
      <3>6. CASE ~r.hay
        BY <3>2, <3>3, <3>4, <3>6 DEF EvaluateOutcome
      <3>7. CASE r.hay /\ r.liveness < UmbralLiveness
        <4>1. /\ intento[s].resultado = "FALLIDO" /\ intento[s].motivo = "LIVENESS"
          BY <3>2, <3>3, <3>5, <3>7 DEF EvaluateOutcome
        <4>2. Dec(r.liveness) <= Dec(UmbralLiveness)
          BY <3>3, <3>5, <3>7, DecIsMonotone
        <4> QED
          BY <3>4, <3>7, <4>1, <4>2
      <3>8. CASE r.hay /\ r.liveness >= UmbralLiveness /\ r.comparacion < UmbralComparacion
        <4>1. /\ intento[s].resultado = "FALLIDO" /\ intento[s].motivo = "COMPARACION"
          BY <3>2, <3>3, <3>5, <3>8 DEF EvaluateOutcome
        <4>2. /\ Dec(r.liveness) >= Dec(UmbralLiveness)
              /\ Dec(r.comparacion) <= Dec(UmbralComparacion)
          BY <3>3, <3>5, <3>8, DecIsMonotone
        <4> QED
          BY <3>4, <3>8, <4>1, <4>2
      <3>9. CASE r.hay /\ r.liveness >= UmbralLiveness /\ r.comparacion >= UmbralComparacion
        <4>1. /\ intento[s].resultado = "EXITOSO" /\ intento[s].motivo = "NINGUNO"
          BY <3>2, <3>3, <3>5, <3>9 DEF EvaluateOutcome
        <4>2. /\ Dec(r.liveness) >= Dec(UmbralLiveness)
              /\ Dec(r.comparacion) >= Dec(UmbralComparacion)
          BY <3>3, <3>5, <3>9, DecIsMonotone
        <4> QED
          BY <3>1, <3>4, <3>9, <4>1, <4>2
      <3> QED
        BY <3>3, <3>5, <3>6, <3>7, <3>8, <3>9
    <2> QED
      BY <2>1, <2>2
  <1>2. IInv => RowExplainsVerdict
    BY <1>1 DEF RowExplainsVerdict
  <1> QED
    BY <1>2, Invariance, PTL

\* A verdict is final: the row of a concluded passenger never changes again and
\* no attempt is added to it, because a transaction is open on a row only while
\* it is PENDIENTE_VERIFICACION.
THEOREM VerdictIsFinalHolds == Spec => VerdictIsFinal
  <1> DEFINE A == \A p \in Registered : pasajero[p].estado \in Finales =>
                    /\ pasajero'[p] = pasajero[p]
                    /\ \A s \in Selfies : intento'[s] # intento[s] => intento'[s].de # p
  <1>1. IInv /\ [Next]_vars => [A]_vars
    <2> SUFFICES ASSUME IInv, Next PROVE A
      OBVIOUS
    <2>1. CASE UNCHANGED << pasajero, intento >>
      BY <2>1
    <2>2. ASSUME NEW s \in Selfies, pc[s] = "commit", CommitAttempt(s)
          PROVE  A
      <3>1. Deciding(s)
        BY <2>2, CommitDecides
      <3>2. /\ pasajero' = [pasajero EXCEPT ![who[s]] = tx[s].pasajero]
            /\ intento' = [intento EXCEPT ![s] = tx[s].intento]
        BY <2>2 DEF CommitAttempt
      <3>3. /\ who[s] \in Registered /\ pasajero[who[s]].estado \notin Finales
            /\ tx[s].intento.de = who[s]
        BY <3>1 DEF Deciding, TxOK, CanVerify, Finales
      <3> QED
        BY <3>2, <3>3 DEF IInv, TypeOK
    <2>3. ASSUME NEW s \in Selfies, Verify(s) \/ Crash(s) \/ Dispatch(s)
          PROVE  \/ UNCHANGED << pasajero, intento >>
                 \/ pc[s] = "commit" /\ CommitAttempt(s)
      BY <2>3 DEF Verify, Submit, Refuse, StoreSelfie, StoreFailed, Evaluate, RejectLate,
                  RecordAttempt, Commit, PublishNow, Crash, Dispatch, Quiet, stored
    <2> QED
      BY <2>1, <2>2, <2>3 DEF Next
  <1> QED
    BY <1>1, Invariance, PTL DEF VerdictIsFinal, Spec

-----------------------------------------------------------------------------
(* The facade and the event channel.                                       *)

\* What the facade assumes of the channel, it also respects: it makes no other
\* step of it. OutboxDispatcher provides the same ChannelSafety.
THEOREM UsesChannel == Spec => Channel!ChannelSafety
  <1>1. Init => Channel!ChannelInit
    BY DEF Init
  <1>2. [Next]_vars => [Channel!ChannelNext]_(Channel!channelVars)
    <2> SUFFICES ASSUME [Next]_vars
                 PROVE  Channel!ChannelNext \/ UNCHANGED << outbox, accepted >>
      BY DEF Channel!channelVars
    <2>1. ASSUME NEW s \in Selfies, CommitAttempt(s)
          PROVE  Channel!ChannelNext \/ UNCHANGED << outbox, accepted >>
      BY <2>1 DEF CommitAttempt, Channel!ChannelNext
    <2>2. ASSUME NEW s \in Selfies, Verify(s)
          PROVE  Channel!ChannelNext \/ UNCHANGED << outbox, accepted >>
      <3>1. CASE \/ Submit(s) \/ Refuse(s) \/ StoreSelfie(s) \/ StoreFailed(s)
                 \/ Evaluate(s) \/ RejectLate(s) \/ RecordAttempt(s)
        BY <3>1 DEF Submit, Refuse, StoreSelfie, StoreFailed, Evaluate, RejectLate,
                    RecordAttempt, Quiet
      <3>2. CASE Commit(s)
        BY <2>1, <3>2 DEF Commit
      <3>3. CASE PublishNow(s)
        BY <3>3 DEF PublishNow, Channel!ChannelNext
      <3> QED
        BY <2>2, <3>1, <3>2, <3>3 DEF Verify
    <2>3. ASSUME NEW s \in Selfies, Crash(s) \/ Dispatch(s)
          PROVE  Channel!ChannelNext \/ UNCHANGED << outbox, accepted >>
      BY <2>1, <2>3 DEF Crash, Dispatch, Channel!ChannelNext
    <2> QED
      BY <2>2, <2>3 DEF Next, vars
  <1> QED
    BY <1>1, <1>2, PTL DEF Spec, Channel!ChannelSafety

\* The channel never refuses a commit: the event of an identity about to be
\* created has no row yet, so Enqueue's guard hides no behaviour of the facade.
THEOREM CommitMayEnqueue ==
  Spec => [](\A s \in Selfies : pc[s] = "commit" => outbox[s] = "AUSENTE")
  <1>1. IInv => \A s \in Selfies : pc[s] = "commit" => outbox[s] = "AUSENTE"
    BY NoAttemptIsNoIntento DEF IInv, AttemptOK
  <1> QED
    BY <1>1, Invariance, PTL
===========================================================================
