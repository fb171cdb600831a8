------------------------- MODULE ApiRequestsProofs -------------------------
(***************************************************************************)
(* What the layers of the application guarantee to any number of requests, *)
(* with any settings, plans, users, photographs and outages: each answer   *)
(* is in the tables, names the faults that made it, and says what was      *)
(* kept. The argument follows one request through the dependencies it      *)
(* uses: what it has passed excludes the faults and the refusals behind    *)
(* it, and what it has not met cannot change its answer.                   *)
(***************************************************************************)
EXTENDS ApiRequests, TLAPS

NoRequest == [op |-> None]
NoAnswer == [codigo |-> None]

Effects == {"imagen", "pasajero", "intento", "identidad", "token", "pase", "revocada"}
Resultados == Verdicts \cup {"NO_CONCLUYENTE"}

\* What an operation may answer, and what is no answer of an error.
Codigos == Resultados \cup
  {"OK", "CREADO", "NO_AUTENTICADO", "IDENTIDAD_NO_ACTIVA", "PASAJERO_NO_REGISTRADO",
   "CREDENCIAL_NO_ENCONTRADA", "ESTADO_NO_PERMITE_VERIFICACION", "CUENTA_YA_REGISTRADA",
   "DOCUMENTO_YA_REGISTRADO", "IMAGEN_DEMASIADO_GRANDE", "FORMATO_NO_ADMITIDO", "LIMITE_EMISION_EXCEDIDO",
   "ALMACENAMIENTO_NO_DISPONIBLE", "NO_DISPONIBLE", "INTERNAL"}
Successes == Resultados \cup {"OK", "CREADO"}

AnswerType == [codigo : Codigos, status : Nat, header : SUBSET Known]

\* What is left for an operation to use, before it is answered.
Rest(op) ==
  CASE op = "registrar" -> {<< "leer", "blob", "guardar" >>, << "blob", "guardar" >>,
                            << "guardar" >>}
    [] op \in {"yo", "detalle"} -> {<< "leer" >>}
    [] op = "verificar" ->
         {<< "leer", "imagen", "blob", "evaluar", "intento", "publicar" >>,
          << "imagen", "blob", "evaluar", "intento", "publicar" >>,
          << "blob", "evaluar", "intento", "publicar" >>,
          << "evaluar", "intento", "publicar" >>, << "intento", "publicar" >>,
          << "publicar" >>}
    [] op = "emitir" -> {<< "leer", "limite", "emitir" >>, << "limite", "emitir" >>,
                         << "emitir" >>}
    [] op = "salud" -> {<< "ping" >>}
    [] op = "despachar" -> {<< "leer", "publicar", "barrer" >>, << "publicar", "barrer" >>,
                            << "barrer" >>}
    [] op = "claves" -> {}

Shape ==
  /\ TypeOK
  /\ answer \in [Requests -> AnswerType \cup {NoAnswer}]
  /\ todo \in [Requests -> {<< >>} \cup UNION {Rest(op) : op \in Operations}]

-----------------------------------------------------------------------------
(* One request. *)

\* What p, a plan between the faults that fired and those asked for, makes of
\* the answer.
Between(r) == {p \in SUBSET plan[r] : applied[r] \subseteq p}

Real == {"db_down", "blob_down", "redis_down", "qstash_down", "mxface_down"}

\* An answer is that of every plan that asks for the faults that fired; after
\* an outage, that of some plan.
Tells(r, codigo) ==
  IF r \in disturbed
  THEN \E p \in SUBSET Real : codigo \in Given(request[r], plan[r] \cup p)
  ELSE \A p \in Between(r) : codigo \in Given(request[r], p)

\* What RepliesMatchEffects says of one answer.
Matches(codigo, kept, records) ==
  LET says(event) == << event, "ok" >> \in records
  IN codigo # "INTERNAL" =>
       /\ codigo \notin Successes => kept \subseteq {"imagen", "revocada"}
       /\ "intento" \in kept <=> codigo \in Resultados
       /\ "identidad" \in kept <=> codigo = "EXITOSO"
       /\ codigo = "CREADO" => \/ {"token", "pase"} \subseteq kept
                               \/ {"imagen", "pasajero"} \subseteq kept
       /\ settings.hooks = "sanos" =>
            /\ says("credential.issue") <=> "pase" \in kept
            /\ says("identity.verification") <=> "intento" \in kept

\* The result of an evaluation is that of every plan with the faults it met, or
\* the circuit was open.
Evaluates(r) ==
  \/ r \in disturbed /\ resultado[r] = "NO_CONCLUYENTE"
  \/ \A p \in Between(r) : resultado[r] = Evaluated(request[r], p)

\* A request in the middle of its work: what it has passed.
Passed(r, use) ==
  LET q == request[r]
  IN /\ use \notin {"leer", "ping"} => "db_down" \notin plan[r] /\ Says(q) = None
     /\ use \in {"blob", "evaluar", "intento"} /\ q.op = "verificar" => Rejects(q) = None
     /\ use = "publicar" /\ q.op = "verificar" => Rejects(q) = None
     /\ use \in {"guardar", "evaluar", "intento"} => "blob_down" \notin plan[r]
     /\ use = "publicar" /\ q.op = "verificar" => "blob_down" \notin plan[r]

Holds(r, use) ==
  LET q == request[r]
  IN /\ use \in {"guardar", "evaluar", "intento"} => effects[r] = {"imagen"}
     /\ use = "publicar" /\ q.op = "verificar" =>
          effects[r] = {"imagen", "intento", "identidad"} /\ resultado[r] = "EXITOSO"
     /\ use \notin {"guardar", "evaluar", "intento"} /\ ~(use = "publicar" /\ q.op = "verificar") =>
          effects[r] = {}
     /\ use = "intento" \/ (use = "publicar" /\ q.op = "verificar") =>
          resultado[r] \in Resultados /\ Evaluates(r)

\* The record of a session, all that is recorded before the service.
Opened == {<< "auth.authenticate", "ok" >>}

Pending(r) ==
  /\ todo[r] \in Rest(request[r].op)
  /\ Refusal(request[r]) = None
  /\ audit[r] \subseteq Opened
  /\ Passed(r, Head(todo[r]))
  /\ Holds(r, Head(todo[r]))

RequestOK(r) ==
  /\ ~Arrived(r) =>
       /\ plan[r] = {} /\ applied[r] = {} /\ todo[r] = << >> /\ effects[r] = {}
       /\ audit[r] = {} /\ ~Answered(r) /\ r \notin disturbed
  /\ Arrived(r) => plan[r] = Asked(r) /\ applied[r] \subseteq plan[r]
  /\ Arrived(r) /\ ~Answered(r) => Pending(r)
  /\ Answered(r) =>
       /\ todo[r] = << >>
       /\ answer[r].status = Status(answer[r].codigo)
       /\ answer[r].codigo # "INTERNAL" => answer[r].header = applied[r]
       /\ Tells(r, answer[r].codigo)
       /\ Matches(answer[r].codigo, effects[r], audit[r])

\* The inductive invariant.
IInv == Shape /\ \A r \in Requests : RequestOK(r)

-----------------------------------------------------------------------------
(* The dependencies an operation uses, one after the other.                 *)

\* What follows a dependency.
After(op, use) ==
  CASE use = "leer" /\ op = "registrar" -> "blob"
    [] use = "leer" /\ op = "verificar" -> "imagen"
    [] use = "leer" /\ op = "emitir"    -> "limite"
    [] use = "leer" /\ op = "despachar" -> "publicar"
    [] use = "imagen"                   -> "blob"
    [] use = "blob" /\ op = "registrar" -> "guardar"
    [] use = "blob" /\ op = "verificar" -> "evaluar"
    [] use = "evaluar"                  -> "intento"
    [] use = "intento"                  -> "publicar"
    [] use = "limite"                   -> "emitir"
    [] use = "publicar" /\ op = "despachar" -> "barrer"
    [] OTHER -> None

\* Which operations use it.
OperationsUsing(use) ==
  CASE use = "leer" -> {"registrar", "yo", "detalle", "verificar", "emitir", "despachar"}
    [] use \in {"imagen", "evaluar", "intento"} -> {"verificar"}
    [] use = "blob" -> {"registrar", "verificar"}
    [] use = "publicar" -> {"verificar", "despachar"}
    [] use \in {"limite", "emitir"} -> {"emitir"}
    [] use = "guardar" -> {"registrar"}
    [] use = "ping" -> {"salud"}
    [] use = "barrer" -> {"despachar"}
    [] OTHER -> {}

\* A request uses its dependencies in order, each as many times as it is listed.
LEMMA Rests ==
  ASSUME NEW op \in Operations, NEW s \in Rest(op)
  PROVE  /\ s # << >> /\ op \in OperationsUsing(Head(s))
         /\ Tail(s) = << >> <=> After(op, Head(s)) = None
         /\ After(op, Head(s)) # None =>
              Tail(s) \in Rest(op) /\ Head(Tail(s)) = After(op, Head(s))
  <1>1. CASE op = "registrar"
    <2>1. PICK s1, s2, s3 :
            /\ s1 = << "leer", "blob", "guardar" >>
            /\ s2 = << "blob", "guardar" >>
            /\ s3 = << "guardar" >>
      OBVIOUS
    <2>2. Rest(op) = {s1, s2, s3}
      BY <1>1, <2>1 DEF Rest
    <2>3. s1 # << >> /\ Head(s1) = "leer" /\ Tail(s1) = s2
      BY <2>1
    <2>4. s2 # << >> /\ Head(s2) = "blob" /\ Tail(s2) = s3
      BY <2>1
    <2>5. s3 # << >> /\ Head(s3) = "guardar" /\ Tail(s3) = << >>
      BY <2>1
    <2> QED
      BY <1>1, <2>2, <2>3, <2>4, <2>5 DEF After, OperationsUsing, None
  <1>2. CASE op = "verificar"
    <2>1. PICK s1, s2, s3, s4, s5, s6 :
            /\ s1 = << "leer", "imagen", "blob", "evaluar", "intento", "publicar" >>
            /\ s2 = << "imagen", "blob", "evaluar", "intento", "publicar" >>
            /\ s3 = << "blob", "evaluar", "intento", "publicar" >>
            /\ s4 = << "evaluar", "intento", "publicar" >>
            /\ s5 = << "intento", "publicar" >>
            /\ s6 = << "publicar" >>
      OBVIOUS
    <2>2. Rest(op) = {s1, s2, s3, s4, s5, s6}
      BY <1>2, <2>1 DEF Rest
    <2>3. s1 # << >> /\ Head(s1) = "leer" /\ Tail(s1) = s2
      BY <2>1
    <2>4. s2 # << >> /\ Head(s2) = "imagen" /\ Tail(s2) = s3
      BY <2>1
    <2>5. s3 # << >> /\ Head(s3) = "blob" /\ Tail(s3) = s4
      BY <2>1
    <2>6. s4 # << >> /\ Head(s4) = "evaluar" /\ Tail(s4) = s5
      BY <2>1
    <2>7. s5 # << >> /\ Head(s5) = "intento" /\ Tail(s5) = s6
      BY <2>1
    <2>8. s6 # << >> /\ Head(s6) = "publicar" /\ Tail(s6) = << >>
      BY <2>1
    <2> QED
      <3>1. CASE s \in {s1, s2, s3}
        BY <1>2, <2>2, <2>3, <2>4, <2>5, <2>6, <3>1 DEF After, OperationsUsing, None
      <3>2. CASE s \in {s4, s5, s6}
        BY <1>2, <2>2, <2>6, <2>7, <2>8, <3>2 DEF After, OperationsUsing, None
      <3> QED
        BY <2>2, <3>1, <3>2
  <1>3. CASE op = "emitir"
    <2>1. PICK s1, s2, s3 :
            /\ s1 = << "leer", "limite", "emitir" >>
            /\ s2 = << "limite", "emitir" >>
            /\ s3 = << "emitir" >>
      OBVIOUS
    <2>2. Rest(op) = {s1, s2, s3}
      BY <1>3, <2>1 DEF Rest
    <2>3. s1 # << >> /\ Head(s1) = "leer" /\ Tail(s1) = s2
      BY <2>1
    <2>4. s2 # << >> /\ Head(s2) = "limite" /\ Tail(s2) = s3
      BY <2>1
    <2>5. s3 # << >> /\ Head(s3) = "emitir" /\ Tail(s3) = << >>
      BY <2>1
    <2> QED
      BY <1>3, <2>2, <2>3, <2>4, <2>5 DEF After, OperationsUsing, None
  <1>4. CASE op = "despachar"
    <2>1. PICK s1, s2, s3 :
            /\ s1 = << "leer", "publicar", "barrer" >>
            /\ s2 = << "publicar", "barrer" >>
            /\ s3 = << "barrer" >>
      OBVIOUS
    <2>2. Rest(op) = {s1, s2, s3}
      BY <1>4, <2>1 DEF Rest
    <2>3. s1 # << >> /\ Head(s1) = "leer" /\ Tail(s1) = s2
      BY <2>1
    <2>4. s2 # << >> /\ Head(s2) = "publicar" /\ Tail(s2) = s3
      BY <2>1
    <2>5. s3 # << >> /\ Head(s3) = "barrer" /\ Tail(s3) = << >>
      BY <2>1
    <2> QED
      BY <1>4, <2>2, <2>3, <2>4, <2>5 DEF After, OperationsUsing, None
  <1>5. CASE op \in {"yo", "detalle"}
    <2>1. PICK s1 :
            /\ s1 = << "leer" >>
      OBVIOUS
    <2>2. Rest(op) = {s1}
      BY <1>5, <2>1 DEF Rest
    <2>3. s1 # << >> /\ Head(s1) = "leer" /\ Tail(s1) = << >>
      BY <2>1
    <2> QED
      BY <1>5, <2>2, <2>3 DEF After, OperationsUsing, None
  <1>6. CASE op = "salud"
    <2>1. PICK s1 :
            /\ s1 = << "ping" >>
      OBVIOUS
    <2>2. Rest(op) = {s1}
      BY <1>6, <2>1 DEF Rest
    <2>3. s1 # << >> /\ Head(s1) = "ping" /\ Tail(s1) = << >>
      BY <2>1
    <2> QED
      BY <1>6, <2>2, <2>3 DEF After, OperationsUsing, None
  <1>7. CASE op = "claves"
    BY <1>7 DEF Rest
  <1> QED
    BY <1>1, <1>2, <1>3, <1>4, <1>5, <1>6, <1>7 DEF Operations

LEMMA UsesAreRests ==
  ASSUME NEW op \in Operations
  PROVE  /\ op = "claves" => Uses(op) = << >>
         /\ op # "claves" => /\ Uses(op) \in Rest(op)
                             /\ Head(Uses(op)) = IF op = "salud" THEN "ping" ELSE "leer"
  BY DEF Operations, Uses, Rest

-----------------------------------------------------------------------------
(* What a step of one request leaves of the others.                         *)

Untouched(q) ==
  /\ request'[q] = request[q] /\ plan'[q] = plan[q] /\ applied'[q] = applied[q]
  /\ todo'[q] = todo[q] /\ resultado'[q] = resultado[q] /\ effects'[q] = effects[q]
  /\ audit'[q] = audit[q] /\ answer'[q] = answer[q]
  /\ q \in disturbed' <=> q \in disturbed

Others(r) == settings' = settings /\ \A q \in Requests \ {r} : Untouched(q)

\* The tables depend on the settings, which nobody changes.
LEMMA TablesAreFixed ==
  ASSUME settings' = settings, NEW q, NEW p
  PROVE  Evaluated(q, p)' = Evaluated(q, p) /\ Given(q, p)' = Given(q, p)
  <1>1. Evaluated(q, p)' = Evaluated(q, p)
    BY DEF Evaluated
  <1>2. Documented(q, p)' = Documented(q, p)
    BY <1>1 DEF Documented
  <1> QED
    BY <1>1, <1>2 DEF Given

\* What may be answered is what is documented, but for one crash.
LEMMA GivenIsDocumented ==
  ASSUME NEW q, NEW p, NEW codigo \in Given(q, p), codigo # "INTERNAL"
  PROVE  codigo \in Documented(q, p)
  BY DEF Given

LEMMA UntouchedIsOK ==
  ASSUME IInv, settings' = settings, NEW q \in Requests, Untouched(q)
  PROVE  RequestOK(q)'
  <1>1. /\ RequestOK(q) /\ settings' = settings
        /\ request'[q] = request[q] /\ plan'[q] = plan[q] /\ applied'[q] = applied[q]
        /\ todo'[q] = todo[q] /\ resultado'[q] = resultado[q] /\ effects'[q] = effects[q]
        /\ audit'[q] = audit[q] /\ answer'[q] = answer[q]
        /\ q \in disturbed' <=> q \in disturbed
    BY DEF IInv, Untouched
  <1>2. /\ \A s, p : Evaluated(s, p)' = Evaluated(s, p)
        /\ \A s, p : Given(s, p)' = Given(s, p)
    BY <1>1, TablesAreFixed
  <1>3. Between(q)' = Between(q)
    BY <1>1 DEF Between
  <1>4. (Arrived(q)' <=> Arrived(q)) /\ (Answered(q)' <=> Answered(q)) /\ Asked(q)' = Asked(q)
    BY <1>1 DEF Arrived, Answered, Asked
  <1>5. \A codigo : Tells(q, codigo) => Tells(q, codigo)'
    BY <1>1, <1>2, <1>3 DEF Tells
  <1>6. \A codigo, kept, records :
          Matches(codigo, kept, records) => Matches(codigo, kept, records)'
    BY <1>1 DEF Matches
  <1>7. Pending(q) => Pending(q)'
    <2>1. Evaluates(q) => Evaluates(q)'
      BY <1>1, <1>2, <1>3 DEF Evaluates
    <2>2. \A use : Holds(q, use) => Holds(q, use)'
      BY <1>1, <2>1 DEF Holds
    <2>3. \A use : Passed(q, use) => Passed(q, use)'
      BY <1>1 DEF Passed
    <2> QED
      BY <1>1, <2>2, <2>3 DEF Pending
  <1> QED
    BY <1>1, <1>4, <1>5, <1>6, <1>7 DEF RequestOK

LEMMA OthersAreOK ==
  ASSUME IInv, NEW r, Others(r), NEW q \in Requests \ {r}
  PROVE  RequestOK(q)'
  BY UntouchedIsOK DEF Others

-----------------------------------------------------------------------------
(* What the pieces of a handler do.                                         *)

\* Every code has its status, and only INTERNAL has 500.
LEMMA Statuses ==
  ASSUME NEW codigo \in Codigos
  PROVE  /\ Status(codigo) \in Nat /\ codigo # None
         /\ Status(codigo) # 500 <=> codigo # "INTERNAL"
         /\ Status(codigo) > 201 <=> codigo \notin Successes
  <1>1. CASE codigo \in Successes
    <2>1. Status(codigo) = IF codigo = "CREADO" THEN 201 ELSE 200
      BY <1>1 DEF Successes, Resultados, Verdicts, Status
    <2> QED
      BY <1>1, <2>1 DEF Successes, Resultados, Verdicts, None
  <1>2. CASE codigo \notin Successes /\ codigo # "INTERNAL"
    <2>1. Status(codigo) \in {401, 403, 404, 409, 413, 415, 429, 503}
      BY <1>2 DEF Successes, Codigos, Resultados, Verdicts, Status
    <2> QED
      BY <1>2, <2>1 DEF Codigos, Successes, Resultados, Verdicts, None
  <1>3. CASE codigo = "INTERNAL"
    <2>1. Status(codigo) = 500
      BY <1>3 DEF Status
    <2> QED
      BY <1>3, <2>1 DEF Successes, Resultados, Verdicts, None
  <1> QED
    BY <1>1, <1>2, <1>3

\* r, which has arrived, uses a dependency.
Using(r, use) == IInv /\ r \in Requests /\ At(r, use)

LEMMA InUse ==
  ASSUME NEW r, NEW use, Using(r, use)
  PROVE  /\ Shape /\ r \in Requests /\ RequestOK(r) /\ Arrived(r) /\ ~Answered(r)
         /\ request[r] \in RequestType /\ request[r].op \in Operations
         /\ plan[r] = Asked(r) /\ plan[r] \subseteq Known /\ applied[r] \subseteq plan[r]
         /\ audit[r] \subseteq Opened /\ Refusal(request[r]) = None
         /\ todo[r] \in Rest(request[r].op) /\ use = Head(todo[r])
         /\ request[r].op \in OperationsUsing(use)
         /\ Tail(todo[r]) = << >> <=> After(request[r].op, use) = None
         /\ After(request[r].op, use) # None =>
              /\ Tail(todo[r]) \in Rest(request[r].op)
              /\ Head(Tail(todo[r])) = After(request[r].op, use)
         /\ Passed(r, use) /\ Holds(r, use)
  <1>1. /\ Shape /\ r \in Requests /\ RequestOK(r) /\ Arrived(r) /\ ~Answered(r)
        /\ use = Head(todo[r])
    BY DEF Using, IInv, At
  <1>2. request[r] \in RequestType /\ request[r].op \in Operations /\ plan[r] \subseteq Known
    <2>1. request[r] \in RequestType \cup {NoRequest} /\ plan[r] \subseteq Known
      BY <1>1 DEF Shape, TypeOK, NoRequest
    <2>2. request[r] # NoRequest
      BY <1>1 DEF Arrived, NoRequest
    <2> QED
      BY <2>1, <2>2 DEF RequestType
  <1>3. Pending(r) /\ plan[r] = Asked(r) /\ applied[r] \subseteq plan[r]
    BY <1>1 DEF RequestOK
  <1> QED
    BY <1>1, <1>2, <1>3, Rests DEF Pending

\* The faults that fire are those of the request's own plan.
Marks(r, faults) ==
  /\ applied' = [applied EXCEPT ![r] = @ \cup {f \in faults : f \in plan[r]}]
  /\ disturbed' \in {disturbed, disturbed \cup {r}}

LEMMA TouchFrame ==
  ASSUME NEW r, NEW use, Using(r, use), NEW faults, Marks(r, faults)
  PROVE  /\ applied' \in [Requests -> SUBSET Known] /\ disturbed' \subseteq Requests
         /\ \A q \in Requests \ {r} : applied'[q] = applied[q] /\ (q \in disturbed' <=> q \in disturbed)
         /\ applied[r] \subseteq applied'[r] /\ applied'[r] \subseteq plan[r]
         /\ \A f \in faults : f \in plan[r] => f \in applied'[r]
         /\ r \in disturbed => r \in disturbed'
  <1>1. /\ Shape /\ r \in Requests /\ applied[r] \subseteq plan[r] /\ plan[r] \subseteq Known
    BY InUse
  <1>2. /\ applied \in [Requests -> SUBSET Known] /\ disturbed \subseteq Requests
    BY <1>1 DEF Shape, TypeOK
  <1> QED
    BY <1>1, <1>2 DEF Marks

\* What an answered request is left with.
Ends(r, use, codigo, outcome) ==
  /\ \A q \in Requests \ {r} :
       todo'[q] = todo[q] /\ audit'[q] = audit[q] /\ answer'[q] = answer[q]
  /\ todo'[r] = << >>
  /\ answer'[r] = [codigo |-> codigo, status |-> Status(codigo),
                   header |-> IF codigo = "INTERNAL" THEN {} ELSE applied'[r]]
  /\ audit'[r] = IF settings.hooks = "rotos" THEN audit[r]
                 ELSE audit[r] \cup (Audited(request[r].op, use) \X {outcome})
  /\ todo' \in [Requests -> {<< >>} \cup UNION {Rest(op) : op \in Operations}]
  /\ answer' \in [Requests -> AnswerType \cup {NoAnswer}]
  /\ audit' \in [Requests -> SUBSET AuditType]

LEMMA EndFrame ==
  ASSUME NEW r, NEW use, Using(r, use), NEW codigo \in Codigos, NEW outcome \in {"ok", "error"},
         applied'[r] \subseteq plan[r], Ended(r, outcome), Done(r, codigo)
  PROVE  Ends(r, use, codigo, outcome)
  <1>1. /\ Shape /\ r \in Requests /\ plan[r] \subseteq Known
        /\ use = Head(todo[r])
    BY InUse
  <1>2. /\ todo \in [Requests -> {<< >>} \cup UNION {Rest(op) : op \in Operations}]
        /\ answer \in [Requests -> AnswerType \cup {NoAnswer}]
        /\ audit \in [Requests -> SUBSET AuditType]
    BY <1>1 DEF Shape, TypeOK
  <1>3. PICK a : a = [codigo |-> codigo, status |-> Status(codigo),
                      header |-> IF codigo = "INTERNAL" THEN {} ELSE applied'[r]]
    OBVIOUS
  <1>4. a \in AnswerType
    BY <1>1, <1>3, Statuses DEF AnswerType
  <1>5. todo' = [todo EXCEPT ![r] = << >>] /\ answer' = [answer EXCEPT ![r] = a]
    BY <1>3 DEF Done, Reply
  <1>6. PICK x : x = Audited(request[r].op, use) \X {outcome}
    OBVIOUS
  <1>7. x \subseteq AuditType
    BY <1>6 DEF Audited, AuditType
  <1>8. audit' = [audit EXCEPT ![r] = IF settings.hooks = "rotos" THEN audit[r]
                                                                ELSE audit[r] \cup x]
    BY <1>1, <1>6 DEF Ended, Emit
  <1> QED
    <2>1. /\ todo'[r] = << >> /\ \A q \in Requests \ {r} : todo'[q] = todo[q]
          /\ todo' \in [Requests -> {<< >>} \cup UNION {Rest(op) : op \in Operations}]
      <3> DEFINE T == {<< >>} \cup UNION {Rest(op) : op \in Operations}
      <3>1. todo \in [Requests -> T] /\ << >> \in T
        BY <1>2
      <3> HIDE DEF T
      <3>2. /\ todo'[r] = << >> /\ \A q \in Requests \ {r} : todo'[q] = todo[q]
            /\ todo' \in [Requests -> T]
        BY <1>1, <1>5, <3>1
      <3> QED
        BY <3>2 DEF T
    <2>2. /\ answer'[r] = a /\ \A q \in Requests \ {r} : answer'[q] = answer[q]
          /\ answer' \in [Requests -> AnswerType \cup {NoAnswer}]
      BY <1>1, <1>2, <1>4, <1>5
    <2>3. /\ audit'[r] = IF settings.hooks = "rotos" THEN audit[r] ELSE audit[r] \cup x
          /\ \A q \in Requests \ {r} : audit'[q] = audit[q]
          /\ audit' \in [Requests -> SUBSET AuditType]
      BY <1>1, <1>2, <1>7, <1>8
    <2> QED
      BY <1>3, <1>6, <2>1, <2>2, <2>3 DEF Ends

\* What a request that goes on is left with.
Goes(r) ==
  /\ \A q \in Requests \ {r} : todo'[q] = todo[q]
  /\ todo'[r] = Tail(todo[r])
  /\ todo' \in [Requests -> {<< >>} \cup UNION {Rest(op) : op \in Operations}]
  /\ UNCHANGED << answer, audit >>

LEMMA ContinueFrame ==
  ASSUME NEW r, NEW use, Using(r, use), NEW codigo, Continue(r, codigo)
  PROVE  /\ After(request[r].op, use) # None => Goes(r)
         /\ After(request[r].op, use) = None => Ended(r, "ok") /\ Done(r, codigo)
  <1>1. After(request[r].op, use) = None => Ended(r, "ok") /\ Done(r, codigo)
    BY InUse DEF Continue
  <1>2. ASSUME After(request[r].op, use) # None
        PROVE  Goes(r)
    <2> DEFINE T == {<< >>} \cup UNION {Rest(op) : op \in Operations}
    <2>1. /\ r \in Requests /\ todo \in [Requests -> T] /\ Tail(todo[r]) \in T
      BY <1>2, InUse DEF Shape
    <2>2. todo' = [todo EXCEPT ![r] = Tail(todo[r])] /\ UNCHANGED << answer, audit >>
      BY <1>2, InUse DEF Continue
    <2> HIDE DEF T
    <2>3. /\ todo'[r] = Tail(todo[r]) /\ \A q \in Requests \ {r} : todo'[q] = todo[q]
          /\ todo' \in [Requests -> T]
      BY <2>1, <2>2
    <2> QED
      BY <2>2, <2>3 DEF T, Goes
  <1> QED
    BY <1>1, <1>2

\* What every handler does to the rest of the state.
Framed(r) ==
  /\ UNCHANGED << settings, request, plan >>
  /\ \A q \in Requests \ {r} :
       /\ applied'[q] = applied[q] /\ resultado'[q] = resultado[q] /\ effects'[q] = effects[q]
       /\ q \in disturbed' <=> q \in disturbed
  /\ applied[r] \subseteq applied'[r] /\ applied'[r] \subseteq plan[r]
  /\ r \in disturbed => r \in disturbed'
  /\ applied' \in [Requests -> SUBSET Known] /\ disturbed' \subseteq Requests
  /\ resultado' \in [Requests -> Resultados \cup {None}]
  /\ effects' \in [Requests -> SUBSET Effects]
  /\ failures' \in [Circuits -> 0 .. Threshold]
  /\ outage' \subseteq Dependencies

LEMMA ShapeKept ==
  ASSUME NEW r, NEW use, Using(r, use), Framed(r),
         todo' \in [Requests -> {<< >>} \cup UNION {Rest(op) : op \in Operations}],
         answer' \in [Requests -> AnswerType \cup {NoAnswer}],
         audit' \in [Requests -> SUBSET AuditType]
  PROVE  Shape'
  <1>1. /\ settings \in SettingsType
        /\ request \in [Requests -> RequestType \cup {[op |-> None]}]
        /\ plan \in [Requests -> SUBSET Known]
    BY InUse DEF Shape, TypeOK
  <1>2. /\ settings' = settings /\ request' = request /\ plan' = plan
        /\ applied' \in [Requests -> SUBSET Known] /\ disturbed' \subseteq Requests
        /\ resultado' \in [Requests -> Resultados \cup {None}]
        /\ effects' \in [Requests -> SUBSET Effects]
        /\ failures' \in [Circuits -> 0 .. Threshold]
        /\ outage' \subseteq Dependencies
    BY DEF Framed
  <1>3. TypeOK'
    BY <1>1, <1>2 DEF TypeOK, Effects, Resultados
  <1> QED
    BY <1>3 DEF Shape

\* An answer that is in the tables and says what was kept is all that is asked.
LEMMA Finish ==
  ASSUME NEW r, NEW use, Using(r, use), Framed(r), NEW codigo \in Codigos, NEW outcome,
         Ends(r, use, codigo, outcome), Tells(r, codigo)', Matches(codigo, effects[r], audit[r])'
  PROVE  IInv'
  <1>1. Shape'
    BY ShapeKept DEF Ends
  <1>2. Others(r)
    BY DEF Framed, Ends, Others, Untouched
  <1>3. RequestOK(r)'
    <2>1. /\ todo'[r] = << >> /\ answer'[r].codigo = codigo
          /\ answer'[r].status = Status(codigo)
          /\ codigo # "INTERNAL" => answer'[r].header = applied'[r]
      BY DEF Ends
    <2>2. Arrived(r)' /\ Answered(r)'
      BY <2>1, InUse, Statuses DEF Framed, Arrived, Answered
    <2>3. plan'[r] = Asked(r)' /\ applied'[r] \subseteq plan'[r]
      BY InUse DEF Framed, Asked
    <2> QED
      BY <2>1, <2>2, <2>3 DEF RequestOK
  <1> QED
    BY <1>1, <1>2, <1>3, OthersAreOK DEF IInv, Using

LEMMA Proceed ==
  ASSUME NEW r, NEW use, Using(r, use), Framed(r), Goes(r),
         NEW next, next = After(request[r].op, use), next # None, Passed(r, next)', Holds(r, next)'
  PROVE  IInv'
  <1>1. Shape'
    BY ShapeKept, InUse DEF Goes, Shape, TypeOK
  <1>2. Others(r)
    BY DEF Framed, Goes, Others, Untouched
  <1>3. RequestOK(r)'
    <2>1. /\ Arrived(r)' /\ ~Answered(r)' /\ request'[r] = request[r]
          /\ audit'[r] \subseteq Opened
      BY InUse DEF Framed, Goes, Arrived, Answered
    <2>2. plan'[r] = Asked(r)' /\ applied'[r] \subseteq plan'[r]
      BY InUse DEF Framed, Asked
    <2>3. todo'[r] \in Rest(request[r].op) /\ Head(todo'[r]) = next
      BY InUse DEF Goes
    <2>4. Refusal(request[r]) = None
      BY InUse
    <2>5. Pending(r)'
      BY <2>1, <2>3, <2>4 DEF Pending, Framed, Opened
    <2> QED
      BY <2>1, <2>2, <2>5 DEF RequestOK
  <1> QED
    BY <1>1, <1>2, <1>3, OthersAreOK DEF IInv, Using

-----------------------------------------------------------------------------
(* When an answer tells what happened.                                      *)

LEMMA SameTables ==
  ASSUME NEW r, Framed(r)
  PROVE  /\ \A q, p : Given(q, p)' = Given(q, p)
         /\ \A q, p : Evaluated(q, p)' = Evaluated(q, p)
  BY TablesAreFixed DEF Framed

\* The answer of every plan between what fired and what was asked for.
LEMMA TellsPlain ==
  ASSUME NEW r, Framed(r), NEW codigo,
         \A p : applied'[r] \subseteq p /\ p \subseteq plan[r] =>
                  codigo \in Given(request[r], p)
  PROVE  Tells(r, codigo)'
  <1>1. \A p \in Between(r)' : codigo \in Given(request[r], p)
    BY DEF Between, Framed
  <1>2. codigo \in Given(request[r], plan[r] \cup {})
    BY DEF Framed
  <1>3. request'[r] = request[r] /\ plan'[r] = plan[r]
    BY DEF Framed
  <1>4. \E p \in SUBSET Real : codigo \in Given(request[r], plan[r] \cup p)
    <2>1. {} \in SUBSET Real
      OBVIOUS
    <2> QED
      BY <1>2, <2>1
  <1> QED
    BY <1>1, <1>3, <1>4, SameTables DEF Tells

\* The answer of a fault that fired, or of the outage that did the same.
LEMMA TellsFault ==
  ASSUME NEW r, Framed(r), NEW codigo, NEW d \in Dependencies, Fails(r, d),
         d \in outage => r \in disturbed',
         FaultOf(d) \in plan[r] => FaultOf(d) \in applied'[r],
         \A p : FaultOf(d) \in p /\ p \subseteq plan[r] \cup {FaultOf(d)} =>
                  codigo \in Given(request[r], p)
  PROVE  Tells(r, codigo)'
  <1>1. request'[r] = request[r] /\ plan'[r] = plan[r]
    BY DEF Framed
  <1>2. CASE r \in disturbed'
    <2>1. {FaultOf(d)} \in SUBSET Real
      BY DEF FaultOf, Dependencies, Real
    <2>2. codigo \in Given(request[r], plan[r] \cup {FaultOf(d)})
      OBVIOUS
    <2> QED
      BY <1>1, <1>2, <2>1, <2>2, SameTables DEF Tells
  <1>3. CASE r \notin disturbed'
    <2>1. FaultOf(d) \in applied'[r]
      BY <1>3 DEF Fails, Trips
    <2>2. \A p \in Between(r)' : codigo \in Given(request[r], p)
      BY <1>1, <2>1 DEF Between
    <2> QED
      BY <1>1, <1>3, <2>2, SameTables DEF Tells
  <1> QED
    BY <1>2, <1>3

-----------------------------------------------------------------------------
(* When an answer says what was kept.                                       *)

LEMMA ErrorMatches ==
  ASSUME NEW r, NEW use, Using(r, use), Framed(r), NEW codigo \in Codigos \ Successes,
         Ends(r, use, codigo, "error"),
         codigo = "INTERNAL" \/ effects'[r] \subseteq {"imagen", "revocada"}
  PROVE  Matches(codigo, effects[r], audit[r])'
  <1>1. \A event \in {"credential.issue", "identity.verification"} :
          << event, "ok" >> \notin audit'[r]
    BY InUse DEF Ends, Opened
  <1>2. codigo \notin Resultados /\ codigo # "EXITOSO" /\ codigo # "CREADO"
    BY DEF Successes, Resultados, Verdicts
  <1> QED
    BY <1>1, <1>2 DEF Matches

\* A success, with or without an audit record.
LEMMA SuccessMatches ==
  ASSUME NEW r, NEW use, Using(r, use), Framed(r), NEW codigo \in Successes,
         Ends(r, use, codigo, "ok"),
         "intento" \in effects'[r] <=> codigo \in Resultados,
         "identidad" \in effects'[r] <=> codigo = "EXITOSO",
         codigo = "CREADO" => \/ {"token", "pase"} \subseteq effects'[r]
                              \/ {"imagen", "pasajero"} \subseteq effects'[r],
         "credential.issue" \in Audited(request[r].op, use) <=> "pase" \in effects'[r],
         "identity.verification" \in Audited(request[r].op, use) <=> "intento" \in effects'[r]
  PROVE  Matches(codigo, effects[r], audit[r])'
  <1>1. settings' = settings /\ settings.hooks \in {"sanos", "rotos"}
    BY InUse DEF Framed, Shape, TypeOK, SettingsType
  <1>2. settings.hooks = "sanos" =>
          \A event \in {"credential.issue", "identity.verification"} :
            << event, "ok" >> \in audit'[r] <=> event \in Audited(request[r].op, use)
    BY InUse DEF Ends, Opened
  <1> QED
    BY <1>1, <1>2 DEF Matches

-----------------------------------------------------------------------------
(* A handler's step: it raises, it answers, or it goes on.                  *)

LEMMA RaiseStep ==
  ASSUME NEW r, NEW use, Using(r, use), Framed(r), NEW codigo \in Codigos \ Successes,
         Raise(r, codigo), Tells(r, codigo)',
         codigo = "INTERNAL" \/ effects'[r] \subseteq {"imagen", "revocada"}
  PROVE  IInv'
  <1>1. Ends(r, use, codigo, "error")
    BY EndFrame DEF Raise, Framed
  <1> QED
    BY <1>1, ErrorMatches, Finish

LEMMA AnswerStep ==
  ASSUME NEW r, NEW use, Using(r, use), Framed(r), NEW codigo \in Successes,
         Ended(r, "ok"), Done(r, codigo), Tells(r, codigo)',
         "intento" \in effects'[r] <=> codigo \in Resultados,
         "identidad" \in effects'[r] <=> codigo = "EXITOSO",
         codigo = "CREADO" => \/ {"token", "pase"} \subseteq effects'[r]
                              \/ {"imagen", "pasajero"} \subseteq effects'[r],
         "credential.issue" \in Audited(request[r].op, use) <=> "pase" \in effects'[r],
         "identity.verification" \in Audited(request[r].op, use) <=> "intento" \in effects'[r]
  PROVE  IInv'
  <1>1. codigo \in Codigos
    BY DEF Successes, Codigos
  <1>2. Ends(r, use, codigo, "ok")
    BY <1>1, EndFrame DEF Framed
  <1> QED
    BY <1>1, <1>2, SuccessMatches, Finish

LEMMA GoStep ==
  ASSUME NEW r, NEW use, Using(r, use), Framed(r), NEW codigo, Continue(r, codigo),
         NEW next, next = After(request[r].op, use), next # None, Passed(r, next)', Holds(r, next)'
  PROVE  IInv'
  <1>1. request' = request
    BY DEF Framed
  <1>2. Goes(r)
    BY ContinueFrame
  <1> QED
    BY <1>1, <1>2, Proceed

\* What a handler does besides its answer and its faults.
Keeps(r) ==
  /\ UNCHANGED << settings, request, plan, outage >>
  /\ \A q \in Requests \ {r} : resultado'[q] = resultado[q] /\ effects'[q] = effects[q]
  /\ resultado' \in [Requests -> Resultados \cup {None}]
  /\ effects' \in [Requests -> SUBSET Effects]
  /\ failures' \in [Circuits -> 0 .. Threshold]

LEMMA Typed ==
  ASSUME Shape
  PROVE  /\ resultado \in [Requests -> Resultados \cup {None}]
         /\ effects \in [Requests -> SUBSET Effects]
         /\ failures \in [Circuits -> 0 .. Threshold]
         /\ outage \subseteq Dependencies /\ disturbed \subseteq Requests
         /\ applied \in [Requests -> SUBSET Known]
         /\ settings.hooks \in {"sanos", "rotos"}
         /\ settings.adapters \in {"real", "fake"}
         /\ settings.provider \in {"mock", "vision", "mxface"}
  BY DEF Shape, TypeOK, Resultados, Effects, SettingsType

LEMMA QuietKeeps ==
  ASSUME NEW r, NEW use, Using(r, use), UNCHANGED << settings, request, plan, resultado, effects, outage >>,
         failures' \in [Circuits -> 0 .. Threshold]
  PROVE  Keeps(r)
  BY InUse, Typed DEF Keeps

LEMMA EffectKeeps ==
  ASSUME NEW r, NEW use, Using(r, use), UNCHANGED << settings, request, plan, resultado, failures, outage >>,
         NEW kept \in SUBSET Effects, effects' = [effects EXCEPT ![r] = @ \cup kept]
  PROVE  Keeps(r) /\ effects'[r] = effects[r] \cup kept
  BY InUse, Typed DEF Keeps

LEMMA PerhapsKeeps ==
  ASSUME NEW r, NEW use, Using(r, use), UNCHANGED << settings, request, plan, resultado, failures, outage >>,
         NEW d, NEW kept \in SUBSET Effects, Perhaps(r, d, kept)
  PROVE  Keeps(r) /\ effects'[r] \subseteq effects[r] \cup kept
  <1>1. effects' = effects \/ effects' = [effects EXCEPT ![r] = @ \cup kept]
    BY DEF Perhaps
  <1> QED
    BY <1>1, InUse, Typed DEF Keeps

LEMMA TouchFramed ==
  ASSUME NEW r, NEW use, Using(r, use), NEW faults, Marks(r, faults), Keeps(r)
  PROVE  Framed(r) /\ \A f \in faults : f \in plan[r] => f \in applied'[r]
  <1>1. outage \subseteq Dependencies
    BY InUse, Typed
  <1> QED
    BY <1>1, TouchFrame DEF Keeps, Framed

LEMMA UntouchedFramed ==
  ASSUME NEW r, NEW use, Using(r, use), UNCHANGED << applied, disturbed >>, Keeps(r)
  PROVE  Framed(r)
  <1>1. outage \subseteq Dependencies
    BY InUse, Typed
  <1> QED
    BY <1>1, InUse, Typed DEF Keeps, Framed

-----------------------------------------------------------------------------
(* The tables. *)

LEMMA TableOfRefusals ==
  ASSUME NEW q, NEW p
  PROVE  /\ Refusal(q) # None => Refusal(q) \in Given(q, p)
         /\ Refusal(q) = None /\ q.op = "claves" => "OK" \in Given(q, p)
  BY DEF Given, Documented

LEMMA TableOfHealth ==
  ASSUME NEW q, Refusal(q) = None, q.op = "salud", NEW p
  PROVE  LET down == p \cap {"db_down", IF settings.adapters = "real" THEN "redis_down" ELSE None}
         IN /\ down = {} => "OK" \in Given(q, p)
            /\ down # {} => "NO_DISPONIBLE" \in Given(q, p)
  BY DEF Given, Documented

LEMMA TableOfDatabase ==
  ASSUME NEW q, Refusal(q) = None, q.op \notin {"claves", "salud"}, NEW p
  PROVE  /\ "db_down" \in p => "INTERNAL" \in Given(q, p)
         /\ "db_down" \notin p /\ Says(q) # None => Says(q) \in Given(q, p)
  BY DEF Given, Documented

LEMMA TableOfVerification ==
  ASSUME NEW q, Refusal(q) = None, q.op = "verificar", Says(q) = None, NEW p, "db_down" \notin p
  PROVE  /\ Rejects(q) # None => Rejects(q) \in Given(q, p)
         /\ Rejects(q) = None /\ "blob_down" \in p =>
              "ALMACENAMIENTO_NO_DISPONIBLE" \in Given(q, p)
         /\ Rejects(q) = None /\ "blob_down" \notin p => Evaluated(q, p) \in Given(q, p)
  BY DEF Given, Documented, Unavailable

LEMMA TableOfRegistration ==
  ASSUME NEW q, Refusal(q) = None, q.op = "registrar", Says(q) = None, NEW p, "db_down" \notin p
  PROVE  /\ "blob_down" \in p => "ALMACENAMIENTO_NO_DISPONIBLE" \in Given(q, p)
         /\ "blob_down" \notin p => "CREADO" \in Given(q, p)
  BY DEF Given, Documented, Unavailable

LEMMA TableOfIssue ==
  ASSUME NEW q, Refusal(q) = None, q.op = "emitir", Says(q) = None, NEW p, "db_down" \notin p
  PROVE  /\ "redis_down" \notin p => "LIMITE_EMISION_EXCEDIDO" \in Given(q, p)
         /\ q.user # "titular" => "IDENTIDAD_NO_ACTIVA" \in Given(q, p)
         /\ q.user = "titular" /\ "signing_down" \in p => "INTERNAL" \in Given(q, p)
         /\ q.user = "titular" /\ "signing_down" \notin p /\ "redis_down" \in p =>
              "ALMACENAMIENTO_NO_DISPONIBLE" \in Given(q, p)
         /\ q.user = "titular" /\ "signing_down" \notin p /\ "redis_down" \notin p =>
              "CREADO" \in Given(q, p)
  BY DEF Given, Documented, Unavailable

LEMMA TableOfOthers ==
  ASSUME NEW q, Refusal(q) = None, q.op \in {"yo", "detalle", "despachar"}, Says(q) = None,
         NEW p, "db_down" \notin p
  PROVE  "OK" \in Given(q, p)
  BY DEF Given, Documented

-----------------------------------------------------------------------------
(* Every handler keeps the invariant.                                       *)

\* A handler that waits for its dependency has passed what precedes it.
LEMMA SaysIsError ==
  ASSUME NEW q
  PROVE  /\ Says(q) \notin {"OK", None} => Says(q) \in Codigos \ Successes
         /\ Says(q) = "OK" => q.op = "registrar"
         /\ Rejects(q) # None => Rejects(q) \in Codigos \ Successes
         /\ Refusal(q) # None => Refusal(q) \in Codigos \ Successes
  <1>1. /\ Says(q) \notin {"OK", None} => Says(q) \in Codigos \ Successes
        /\ Says(q) = "OK" => q.op = "registrar"
    BY DEF Says, Codigos, Successes, Resultados, Verdicts, None
  <1>2. Unfit(q) \in {"IMAGEN_DEMASIADO_GRANDE", "FORMATO_NO_ADMITIDO", None}
    BY DEF Unfit
  <1>3. Rejects(q) # None => Rejects(q) \in Codigos \ Successes
    BY <1>2 DEF Rejects, Codigos, Successes, Resultados, Verdicts
  <1>4. Refusal(q) # None => Refusal(q) \in Codigos \ Successes
    BY <1>2 DEF Refusal, Codigos, Successes, Resultados, Verdicts
  <1> QED
    BY <1>1, <1>3, <1>4

LEMMA LeerKeeps ==
  ASSUME IInv, NEW r \in Requests, Leer(r)
  PROVE  IInv'
  <1>1. Using(r, "leer")
    BY DEF Leer, Using
  <1>2. /\ request[r].op \in {"registrar", "yo", "detalle", "verificar", "emitir", "despachar"}
        /\ Refusal(request[r]) = None /\ effects[r] = {} /\ plan[r] \subseteq Known
    BY <1>1, InUse DEF OperationsUsing, Holds
  <1>3. /\ Marks(r, {"db_down"}) /\ ("db" \in outage => r \in disturbed')
        /\ UNCHANGED << settings, request, plan, resultado, effects, failures, outage >>
    BY DEF Leer, Touch, Trips, Marks
  <1>4. Keeps(r)
    BY <1>1, <1>3, InUse, Typed, QuietKeeps
  <1>5. /\ Framed(r)
        /\ "db_down" \in plan[r] => "db_down" \in applied'[r]
    BY <1>1, <1>3, <1>4, TouchFramed
  <1>6. CASE Fails(r, "db")
    <2>1. Raise(r, "INTERNAL")
      BY <1>6 DEF Leer, Raised, Thrown
    <2>2. Tells(r, "INTERNAL")'
      <3>1. FaultOf("db") = "db_down" /\ "db" \in Dependencies
        BY DEF FaultOf, Dependencies
      <3> QED
        BY <1>2, <1>3, <1>5, <1>6, <3>1, TableOfDatabase, TellsFault
    <2> QED
      BY <1>1, <1>5, <2>1, <2>2, RaiseStep DEF Codigos, Successes, Resultados, Verdicts
  <1>7. ASSUME ~Fails(r, "db")
        PROVE  "db_down" \notin plan[r]
    BY <1>7 DEF Fails, Trips, FaultOf
  <1>8. CASE ~Fails(r, "db") /\ Says(request[r]) \notin {"OK", None}
    <2>1. PICK codigo : codigo = Says(request[r])
      OBVIOUS
    <2>2. Raise(r, codigo) /\ codigo \in Codigos \ Successes
      BY <1>8, <2>1, SaysIsError DEF Leer
    <2>3. \A p : p \subseteq plan[r] => codigo \in Given(request[r], p)
      BY <1>2, <1>7, <1>8, <2>1, TableOfDatabase
    <2>4. Tells(r, codigo)'
      BY <1>5, <2>3, TellsPlain
    <2>5. effects'[r] = {}
      BY <1>2, <1>3
    <2> QED
      BY <1>1, <1>5, <2>2, <2>4, <2>5, RaiseStep
  \* The passenger that a resubmission is given.
  <1>9. CASE ~Fails(r, "db") /\ Says(request[r]) = "OK"
    <2>1. Ended(r, "ok") /\ Done(r, "OK")
      BY <1>9 DEF Leer
    <2>2. \A p : p \subseteq plan[r] => "OK" \in Given(request[r], p)
      BY <1>2, <1>7, <1>9, TableOfDatabase DEF None
    <2>3. Tells(r, "OK")'
      BY <1>5, <2>2, TellsPlain
    <2>4. effects'[r] = {}
      BY <1>2, <1>3
    <2>5. Audited(request[r].op, "leer") = {}
      BY <1>9, SaysIsError DEF Audited
    <2> QED
      BY <1>1, <1>5, <2>1, <2>3, <2>4, <2>5, AnswerStep DEF Successes, Resultados, Verdicts
  <1>10. CASE ~Fails(r, "db") /\ Says(request[r]) = None
    <2>1. Continue(r, "OK")
      BY <1>10 DEF Leer, None
    <2>2. request'[r] = request[r] /\ plan'[r] = plan[r] /\ effects'[r] = {}
      BY <1>2, <1>3
    <2>3. CASE request[r].op \in {"yo", "detalle"}
      <3>1. Ended(r, "ok") /\ Done(r, "OK")
        <4>1. After(request[r].op, "leer") = None
          BY <2>3 DEF After
        <4> QED
          BY <1>1, <2>1, <4>1, ContinueFrame
      <3>2. Tells(r, "OK")'
        BY <1>2, <1>5, <1>7, <1>10, <2>3, TableOfOthers, TellsPlain
      <3>3. Audited(request[r].op, "leer") = {}
        BY <2>3 DEF Audited
      <3> QED
        BY <1>1, <1>5, <2>2, <3>1, <3>2, <3>3, AnswerStep DEF Successes, Resultados, Verdicts
    <2>4. CASE request[r].op \notin {"yo", "detalle"}
      <3>1. PICK use : use = After(request[r].op, "leer")
        OBVIOUS
      <3>2. use \in {"blob", "imagen", "limite", "publicar"} /\ use # None
            /\ (use = "blob" => request[r].op = "registrar")
            /\ (use = "publicar" => request[r].op = "despachar")
        BY <1>2, <2>4, <3>1 DEF After, None
      <3>3. Passed(r, use)'
        BY <1>7, <1>10, <2>2, <3>2 DEF Passed
      <3>4. Holds(r, use)'
        BY <2>2, <3>2 DEF Holds
      <3> QED
        BY <1>1, <1>5, <2>1, <3>1, <3>2, <3>3, <3>4, GoStep
    <2> QED
      BY <2>3, <2>4
  <1> QED
    BY <1>6, <1>8, <1>9, <1>10

LEMMA RejectImageKeeps ==
  ASSUME IInv, NEW r \in Requests, RejectImage(r)
  PROVE  IInv'
  <1>1. Using(r, "imagen")
    BY DEF RejectImage, Using
  <1>2. /\ request[r].op = "verificar" /\ Refusal(request[r]) = None /\ effects[r] = {}
        /\ "db_down" \notin plan[r] /\ Says(request[r]) = None
    BY <1>1, InUse DEF OperationsUsing, Holds, Passed
  <1>3. /\ UNCHANGED << applied, disturbed >>
        /\ UNCHANGED << settings, request, plan, resultado, effects, failures, outage >>
    BY DEF RejectImage
  <1>4. Framed(r)
    BY <1>1, <1>3, InUse, Typed, QuietKeeps, UntouchedFramed
  <1>5. CASE Rejects(request[r]) # None
    <2>1. PICK codigo : codigo = Rejects(request[r])
      OBVIOUS
    <2>2. Raise(r, codigo) /\ codigo \in Codigos \ Successes
      BY <1>5, <2>1, SaysIsError DEF RejectImage
    <2>3. \A p : p \subseteq plan[r] => codigo \in Given(request[r], p)
      BY <1>2, <1>5, <2>1, TableOfVerification
    <2>4. Tells(r, codigo)'
      BY <1>4, <2>3, TellsPlain
    <2>5. effects'[r] = {}
      BY <1>2, <1>3
    <2> QED
      BY <1>1, <1>4, <2>2, <2>4, <2>5, RaiseStep
  <1>6. CASE Rejects(request[r]) = None
    <2>1. Continue(r, "OK")
      BY <1>6 DEF RejectImage
    <2>2. After(request[r].op, "imagen") = "blob" /\ "blob" # None
      BY DEF After, None
    <2>3. Passed(r, "blob")' /\ Holds(r, "blob")'
      BY <1>2, <1>3, <1>6 DEF Passed, Holds
    <2> QED
      BY <1>1, <1>4, <2>1, <2>2, <2>3, GoStep
  <1> QED
    BY <1>5, <1>6

LEMMA BlobKeeps ==
  ASSUME IInv, NEW r \in Requests, Blob(r)
  PROVE  IInv'
  <1>1. Using(r, "blob")
    BY DEF Blob, Using
  <1>2. /\ request[r].op \in {"registrar", "verificar"} /\ Refusal(request[r]) = None
        /\ effects[r] = {} /\ "db_down" \notin plan[r] /\ Says(request[r]) = None
        /\ request[r].op = "verificar" => Rejects(request[r]) = None
        /\ plan[r] \subseteq Known
    BY <1>1, InUse DEF OperationsUsing, Holds, Passed
  <1>3. /\ Marks(r, {"blob_down"}) /\ ("blob" \in outage => r \in disturbed')
        /\ UNCHANGED << settings, request, plan, resultado, failures, outage >>
    BY DEF Blob, Touch, Trips, Marks
  <1>4. ASSUME Keeps(r)
        PROVE  /\ Framed(r)
               /\ "blob_down" \in plan[r] => "blob_down" \in applied'[r]
    BY <1>1, <1>3, <1>4, TouchFramed
  <1>5. CASE Fails(r, "blob")
    <2>1. Raise(r, Raised(Adapted(Thrown("blob")))) /\ Perhaps(r, "blob", {"imagen"})
      BY <1>5 DEF Blob
    <2>2. Raised(Adapted(Thrown("blob"))) = "ALMACENAMIENTO_NO_DISPONIBLE"
      BY DEF Raised, Adapted, Thrown
    <2>3. Keeps(r) /\ effects'[r] \subseteq {"imagen"}
      BY <1>1, <1>2, <1>3, <2>1, PerhapsKeeps DEF Effects
    <2>4. FaultOf("blob") = "blob_down" /\ "blob" \in Dependencies
      BY DEF FaultOf, Dependencies
    <2>5. \A p : "blob_down" \in p /\ p \subseteq plan[r] \cup {"blob_down"} =>
             "ALMACENAMIENTO_NO_DISPONIBLE" \in Given(request[r], p)
      BY <1>2, TableOfVerification, TableOfRegistration
    <2>6. Tells(r, "ALMACENAMIENTO_NO_DISPONIBLE")'
      BY <1>3, <1>4, <1>5, <2>3, <2>4, <2>5, TellsFault
    <2>7. "ALMACENAMIENTO_NO_DISPONIBLE" \in Codigos \ Successes
      BY DEF Codigos, Successes, Resultados, Verdicts
    <2> QED
      BY <1>1, <1>4, <2>1, <2>2, <2>3, <2>6, <2>7, RaiseStep
  <1>6. CASE ~Fails(r, "blob")
    <2>1. Continue(r, "OK") /\ effects' = [effects EXCEPT ![r] = @ \cup {"imagen"}]
      BY <1>6 DEF Blob
    <2>2. Keeps(r) /\ effects'[r] = {"imagen"}
      <3>1. {"imagen"} \in SUBSET Effects
        BY DEF Effects
      <3>2. Keeps(r) /\ effects'[r] = effects[r] \cup {"imagen"}
        BY <1>1, <1>3, <2>1, <3>1, EffectKeeps
      <3> QED
        BY <1>2, <3>2
    <2>3. "blob_down" \notin plan[r]
      BY <1>6 DEF Fails, Trips, FaultOf
    <2>4. PICK use : use = After(request[r].op, "blob")
      OBVIOUS
    <2>5. /\ use \in {"guardar", "evaluar"} /\ use # None
          /\ use = "evaluar" => request[r].op = "verificar"
      BY <1>2, <2>4 DEF After, None
    <2>6. Passed(r, use)'
      BY <1>2, <1>3, <2>3, <2>5 DEF Passed
    <2>7. Holds(r, use)'
      BY <2>2, <2>5 DEF Holds
    <2> QED
      BY <1>1, <1>4, <2>1, <2>2, <2>4, <2>5, <2>6, <2>7, GoStep
  <1> QED
    BY <1>5, <1>6

\* The malformed answer that is not caught, where no fault replaces it.
Crashes(q, p) ==
  /\ settings.provider = "mxface" /\ q.face.match = "lista" /\ ~Impostor(q, p)
  /\ Evaluated(q, p) = "NO_CONCLUYENTE"

\* What an evaluation comes to, behind the faults asked for.
LEMMA EvaluationTold ==
  ASSUME NEW r, NEW use, Using(r, use), NEW safe, safe = Safe(Outcome(r)),
         NEW p, ProviderFault(plan[r]) \subseteq p, p \subseteq plan[r]
  PROVE  IF safe \in Resultados
         THEN safe = Evaluated(request[r], p)
         ELSE Raised(safe) = "INTERNAL" /\ Crashes(request[r], p)
  <1>1. settings.provider \in {"mock", "vision", "mxface"}
    BY InUse, Typed
  <1>2. request[r].face \in Faces
    BY InUse DEF RequestType
  <1>3. PICK f : f = request[r].face
    OBVIOUS
  <1>4. /\ f.http \in {"200", "4xx", "5xx", "perdida"} /\ f.liveness \in {"alta", "baja", "mal"}
        /\ f.match \in {"si", "no", "falta", "mal", "lista"}
    BY <1>2, <1>3 DEF Faces
  <1>5. PICK down, slow \in BOOLEAN :
          /\ down <=> p \cap {"mxface_down", "mxface_quota"} # {}
          /\ slow <=> "mxface_slow" \in p /\ ~Brief(request[r])
    OBVIOUS
  <1>6. down \/ slow => /\ safe = "NO_CONCLUYENTE"
                        /\ Evaluated(request[r], p) = "NO_CONCLUYENTE"
    <2>1. down => Outcome(r) = "ProviderUnavailable"
      BY <1>5 DEF Outcome, ProviderFault
    <2>2. ~down /\ slow => Outcome(r) = "TimeoutError"
      BY <1>5 DEF Outcome, ProviderFault
    <2>3. down \/ slow => Evaluated(request[r], p) = "NO_CONCLUYENTE"
      BY <1>5 DEF Evaluated, Impostor
    <2> QED
      BY <2>1, <2>2, <2>3 DEF Safe
  <1>7. ASSUME ~down, ~slow
        PROVE  /\ Outcome(r) = Evaluation(f)
               /\ ~Impostor(request[r], p)
    BY <1>3, <1>5, <1>7 DEF Outcome, ProviderFault, Impostor
  <1>8. ASSUME ~down, ~slow, settings.provider = "mock"
        PROVE  safe \in Resultados /\ safe = Evaluated(request[r], p)
    <2>1. Evaluated(request[r], p) = IF f.http = "perdida" THEN "NO_CONCLUYENTE"
                 ELSE IF {f.liveness, f.match} \cap {"baja", "no"} # {} THEN "FALLIDO"
                 ELSE "EXITOSO"
      BY <1>3, <1>7, <1>8 DEF Evaluated
    <2>2. Evaluation(f) = Mock(f)
      BY <1>8 DEF Evaluation
    <2> QED
      BY <1>4, <1>7, <1>8, <2>1, <2>2 DEF Safe, Mock, Resultados, Verdicts
  <1>9. ASSUME ~down, ~slow, settings.provider = "vision"
        PROVE  safe \in Resultados /\ safe = Evaluated(request[r], p)
    <2>1. Evaluated(request[r], p) =
            IF \/ f.http # "200" \/ f.liveness = "mal" \/ f.match \notin {"si", "no"}
            THEN "NO_CONCLUYENTE"
            ELSE IF f.liveness = "alta" /\ f.match = "si" THEN "EXITOSO" ELSE "FALLIDO"
      BY <1>3, <1>4, <1>7, <1>9 DEF Evaluated
    <2>2. Evaluation(f) = Vision(f)
      BY <1>9 DEF Evaluation
    <2> QED
      BY <1>4, <1>7, <1>9, <2>1, <2>2 DEF Safe, Vision, Verdict, Resultados, Verdicts
  <1>10. ASSUME ~down, ~slow, settings.provider = "mxface"
         PROVE  IF safe \in Resultados THEN safe = Evaluated(request[r], p)
                ELSE Raised(safe) = "INTERNAL" /\ Crashes(request[r], p)
    <2>1. Evaluated(request[r], p) =
            IF f.http # "200" \/ f.liveness = "mal" \/ f.match \in {"mal", "lista"}
            THEN "NO_CONCLUYENTE"
            ELSE IF f.liveness = "alta" /\ f.match = "si" THEN "EXITOSO" ELSE "FALLIDO"
      BY <1>3, <1>4, <1>7, <1>10 DEF Evaluated
    <2>2. Evaluation(f) = MxFace(f)
      BY <1>10 DEF Evaluation
    <2> QED
      BY <1>3, <1>4, <1>7, <1>10, <2>1, <2>2
         DEF Safe, MxFace, Verdict, Resultados, Verdicts, Raised, Crashes
  <1> QED
    BY <1>1, <1>6, <1>8, <1>9, <1>10 DEF Resultados, Verdicts

\* A circuit counts no failure beyond its threshold: it is open then.
LEMMA CountTyped ==
  ASSUME NEW r, NEW use, Using(r, use), NEW c \in Circuits, ~Open(r, c),
         \/ failures' = failures
         \/ ~Fails(r, "redis") /\ (\/ failures' = [failures EXCEPT ![c] = @ + 1]
                                   \/ failures' = [failures EXCEPT ![c] = 0])
  PROVE  failures' \in [Circuits -> 0 .. Threshold]
  <1>1. failures \in [Circuits -> 0 .. Threshold] /\ Threshold \in Nat
    BY InUse, Typed, InputsAssumption
  <1>2. ~Fails(r, "redis") => failures[c] # Threshold
    BY DEF Open
  <1>3. ~Fails(r, "redis") => failures[c] + 1 \in 0 .. Threshold
    BY <1>1, <1>2
  <1> QED
    BY <1>1, <1>3

LEMMA EvaluateKeeps ==
  ASSUME IInv, NEW r \in Requests, Evaluate(r)
  PROVE  IInv'
  <1>1. Using(r, "evaluar")
    BY DEF Evaluate, Using
  <1>2. /\ request[r].op = "verificar" /\ Refusal(request[r]) = None
        /\ effects[r] = {"imagen"} /\ "db_down" \notin plan[r] /\ "blob_down" \notin plan[r]
        /\ Says(request[r]) = None /\ Rejects(request[r]) = None
    BY <1>1, InUse DEF OperationsUsing, Holds, Passed
  <1>3. UNCHANGED << settings, request, plan, effects, outage >>
    BY DEF Evaluate
  <1>4. PICK safe : safe = Safe(IF Open(r, "biometric") THEN "CircuitOpenError" ELSE Outcome(r))
    OBVIOUS
  <1>5. IF safe \in Resultados
        THEN resultado' = [resultado EXCEPT ![r] = safe] /\ Continue(r, "OK")
        ELSE Raise(r, Raised(safe)) /\ UNCHANGED resultado
    BY <1>4 DEF Evaluate, Resultados
  <1>6. failures' \in [Circuits -> 0 .. Threshold]
    <2>1. CASE Open(r, "biometric")
      BY <1>1, <2>1, InUse, Typed DEF Evaluate
    <2>2. CASE ~Open(r, "biometric")
      BY <1>1, <2>2, CountTyped DEF Evaluate, Count, Circuits
    <2> QED
      BY <2>1, <2>2
  <1>7. /\ Keeps(r) /\ (safe \in Resultados => resultado'[r] = safe)
    BY <1>1, <1>3, <1>5, <1>6, InUse, Typed DEF Keeps
  <1>8. /\ Framed(r)
        /\ ~Open(r, "biometric") => ProviderFault(plan[r]) \subseteq applied'[r]
        /\ Open(r, "biometric") => r \in disturbed'
    <2>1. CASE Open(r, "biometric")
      <3>1. Marks(r, {"redis_down"}) /\ r \in disturbed'
        BY <2>1 DEF Evaluate, Touch, Trips, Marks
      <3> QED
        BY <1>1, <1>7, <2>1, <3>1, TouchFramed
    <2>2. CASE ~Open(r, "biometric")
      <3>1. Marks(r, {"redis_down"} \cup ProviderFault(plan[r]))
        BY <2>2 DEF Evaluate, Touch, Trips, Marks
      <3>2. ProviderFault(plan[r]) \subseteq plan[r]
        BY DEF ProviderFault
      <3> QED
        BY <1>1, <1>7, <2>2, <3>1, <3>2, TouchFramed
    <2> QED
      BY <2>1, <2>2
  <1>9. ASSUME ~Open(r, "biometric"), NEW p, applied'[r] \subseteq p, p \subseteq plan[r]
        PROVE  IF safe \in Resultados THEN safe = Evaluated(request[r], p)
               ELSE Raised(safe) = "INTERNAL" /\ Crashes(request[r], p)
    BY <1>1, <1>4, <1>8, <1>9, EvaluationTold
  <1>10. CASE safe \in Resultados
    <2>1. Continue(r, "OK") /\ resultado'[r] = safe
      BY <1>5, <1>7, <1>10
    <2>2. After(request[r].op, "evaluar") = "intento" /\ "intento" # None
      BY DEF After, None
    <2>3. Evaluates(r)'
      <3>1. CASE Open(r, "biometric")
        <4>1. safe = "NO_CONCLUYENTE"
          BY <1>4, <3>1 DEF Safe
        <4> QED
          BY <1>8, <2>1, <3>1, <4>1 DEF Evaluates
      <3>2. CASE ~Open(r, "biometric")
        <4>1. \A p \in Between(r)' : safe = Evaluated(request[r], p)
          BY <1>8, <1>9, <1>10, <3>2 DEF Between, Framed
        <4>2. request'[r] = request[r]
          BY <1>3
        <4> QED
          BY <1>8, <2>1, <4>1, <4>2, SameTables DEF Evaluates
      <3> QED
        BY <3>1, <3>2
    <2>4. Passed(r, "intento")'
      BY <1>2, <1>3 DEF Passed
    <2>5. Holds(r, "intento")'
      BY <1>2, <1>3, <1>10, <2>1, <2>3 DEF Holds
    <2> QED
      BY <1>1, <1>8, <2>1, <2>2, <2>4, <2>5, GoStep
  <1>11. CASE safe \notin Resultados
    <2>1. ~Open(r, "biometric")
      BY <1>4, <1>11 DEF Safe, Resultados
    <2>2. Raise(r, "INTERNAL")
      <3>1. Raised(safe) = "INTERNAL"
        BY <1>8, <1>9, <1>11, <2>1 DEF Framed
      <3> QED
        BY <1>5, <1>11, <3>1
    <2>3. \A p : applied'[r] \subseteq p /\ p \subseteq plan[r] =>
            "INTERNAL" \in Given(request[r], p)
      <3>1. ASSUME NEW p, applied'[r] \subseteq p, p \subseteq plan[r]
            PROVE  "INTERNAL" \in Given(request[r], p)
        <4>1. Crashes(request[r], p)
          BY <1>9, <1>11, <2>1, <3>1
        <4>2. "NO_CONCLUYENTE" \in Given(request[r], p)
          BY <1>2, <3>1, <4>1, TableOfVerification DEF Crashes
        <4> QED
          BY <4>1, <4>2, GivenIsDocumented DEF Crashes, Given
      <3> QED
        BY <3>1
    <2>4. Tells(r, "INTERNAL")'
      BY <1>8, <2>3, TellsPlain
    <2> QED
      BY <1>1, <1>8, <2>2, <2>4, RaiseStep DEF Codigos, Successes, Resultados, Verdicts
  <1> QED
    BY <1>10, <1>11

\* The answer of a verification that has its result.
LEMMA ResultTold ==
  ASSUME NEW r, NEW use \in {"intento", "publicar"}, Using(r, use),
         request[r].op = "verificar", Framed(r), NEW codigo, codigo = resultado[r]
  PROVE  Tells(r, codigo)'
  <1>1. /\ Refusal(request[r]) = None /\ "db_down" \notin plan[r] /\ "blob_down" \notin plan[r]
        /\ Says(request[r]) = None /\ Rejects(request[r]) = None
        /\ Evaluates(r)
    BY InUse DEF Passed, Holds
  <1>2. ASSUME NEW p, "db_down" \notin p, "blob_down" \notin p
        PROVE  Evaluated(request[r], p) \in Given(request[r], p)
    BY <1>1, <1>2, TableOfVerification
  <1>3. CASE r \in disturbed /\ codigo = "NO_CONCLUYENTE"
    <2>1. {"mxface_down"} \in SUBSET Real
      BY DEF Real
    <2>2. PICK p : p = plan[r] \cup {"mxface_down"}
      OBVIOUS
    <2>3. Evaluated(request[r], p) = "NO_CONCLUYENTE"
      BY <2>2 DEF Evaluated, Impostor
    <2>4. codigo \in Given(request[r], p)
      <3>1. "db_down" \notin p /\ "blob_down" \notin p
        BY <1>1, <2>2
      <3> QED
        BY <1>2, <1>3, <2>3, <3>1
    <2>5. r \in disturbed' /\ request'[r] = request[r] /\ plan'[r] = plan[r]
      BY <1>3 DEF Framed
    <2> QED
      BY <2>1, <2>2, <2>4, <2>5, SameTables DEF Tells
  <1>4. CASE \A p \in Between(r) : codigo = Evaluated(request[r], p)
    <2>1. ASSUME NEW p, applied'[r] \subseteq p, p \subseteq plan[r]
          PROVE  codigo \in Given(request[r], p)
      <3>1. p \in Between(r)
        BY <2>1 DEF Between, Framed
      <3> QED
        BY <1>1, <1>2, <1>4, <2>1, <3>1
    <2> QED
      BY <2>1, TellsPlain
  <1> QED
    BY <1>1, <1>3, <1>4 DEF Evaluates

\* What fires later leaves the result what it was.
LEMMA StillEvaluates ==
  ASSUME NEW r, Framed(r), resultado'[r] = resultado[r], Evaluates(r)
  PROVE  Evaluates(r)'
  <1>1. Between(r)' \subseteq Between(r)
    BY DEF Between, Framed
  <1>2. request'[r] = request[r] /\ (r \in disturbed => r \in disturbed')
    BY DEF Framed
  <1> QED
    BY <1>1, <1>2, SameTables DEF Evaluates

LEMMA RecordAttemptKeeps ==
  ASSUME IInv, NEW r \in Requests, RecordAttempt(r)
  PROVE  IInv'
  <1>1. Using(r, "intento")
    BY DEF RecordAttempt, Using
  <1>2. /\ request[r].op = "verificar" /\ Refusal(request[r]) = None
        /\ effects[r] = {"imagen"} /\ "db_down" \notin plan[r]
        /\ resultado[r] \in Resultados /\ Evaluates(r)
        /\ "blob_down" \notin plan[r] /\ Says(request[r]) = None /\ Rejects(request[r]) = None
    BY <1>1, InUse DEF OperationsUsing, Holds, Passed
  <1>3. /\ Marks(r, {"db_down"}) /\ ("db" \in outage => r \in disturbed')
        /\ UNCHANGED << settings, request, plan, resultado, failures, outage >>
    BY DEF RecordAttempt, Touch, Trips, Marks
  <1>4. ASSUME Keeps(r)
        PROVE  Framed(r) /\ ("db_down" \in plan[r] => "db_down" \in applied'[r])
    BY <1>1, <1>3, <1>4, TouchFramed
  <1>5. PICK kept : kept = {"intento"} \cup (IF resultado[r] = "EXITOSO" THEN {"identidad"} ELSE {})
    OBVIOUS
  <1>6. kept \in SUBSET Effects
    BY <1>5 DEF Effects
  <1>7. CASE Fails(r, "db")
    <2>1. Raise(r, "INTERNAL") /\ Perhaps(r, "db", kept)
      BY <1>5, <1>7 DEF RecordAttempt, Raised, Thrown
    <2>2. Keeps(r)
      BY <1>1, <1>3, <1>6, <2>1, PerhapsKeeps
    <2>3. Tells(r, "INTERNAL")'
      <3>1. FaultOf("db") = "db_down" /\ "db" \in Dependencies
        BY DEF FaultOf, Dependencies
      <3> QED
        BY <1>2, <1>3, <1>4, <1>7, <2>2, <3>1, TableOfDatabase, TellsFault
    <2> QED
      BY <1>1, <1>4, <2>1, <2>2, <2>3, RaiseStep DEF Codigos, Successes, Resultados, Verdicts
  <1>8. CASE ~Fails(r, "db")
    <2>1. effects' = [effects EXCEPT ![r] = @ \cup kept]
      BY <1>5, <1>8 DEF RecordAttempt
    <2>2. Keeps(r) /\ effects'[r] = effects[r] \cup kept
      BY <1>1, <1>3, <1>6, <2>1, EffectKeeps
    <2>3. Framed(r)
      BY <1>4, <2>2
    <2>4. CASE resultado[r] = "EXITOSO"
      <3>1. Continue(r, "OK")
        BY <1>8, <2>4 DEF RecordAttempt
      <3>2. After(request[r].op, "intento") = "publicar" /\ "publicar" # None
        BY DEF After, None
      <3>3. effects'[r] = {"imagen", "intento", "identidad"}
        BY <1>2, <1>5, <2>2, <2>4
      <3>4. Passed(r, "publicar")'
        BY <1>2, <1>3 DEF Passed
      <3>5. Evaluates(r)'
        BY <1>2, <1>3, <2>3, StillEvaluates
      <3>6. resultado'[r] = "EXITOSO" /\ "EXITOSO" \in Resultados
        BY <1>2, <1>3, <2>4
      <3>7. Holds(r, "publicar")'
        BY <1>2, <1>3, <3>3, <3>5, <3>6 DEF Holds
      <3> QED
        BY <1>1, <2>3, <3>1, <3>2, <3>4, <3>7, GoStep
    <2>5. CASE resultado[r] # "EXITOSO"
      <3>1. PICK codigo : codigo = resultado[r]
        OBVIOUS
      <3>2. Ended(r, "ok") /\ Done(r, codigo)
        BY <1>8, <2>5, <3>1 DEF RecordAttempt
      <3>3. Tells(r, codigo)'
        BY <1>1, <1>2, <2>3, <3>1, ResultTold
      <3>4. effects'[r] = {"imagen", "intento"}
        BY <1>2, <1>5, <2>2, <2>5
      <3>5. codigo \in Resultados /\ codigo # "EXITOSO" /\ codigo # "CREADO" /\ codigo \in Successes
        BY <1>2, <2>5, <3>1 DEF Successes, Resultados, Verdicts
      <3>6. Audited(request[r].op, "intento") = {"identity.verification"}
        BY <1>2 DEF Audited
      <3> QED
        BY <1>1, <2>3, <3>2, <3>3, <3>4, <3>5, <3>6, AnswerStep
    <2> QED
      BY <2>4, <2>5
  <1> QED
    BY <1>7, <1>8

LEMMA PublishKeeps ==
  ASSUME IInv, NEW r \in Requests, Publish(r)
  PROVE  IInv'
  <1>1. Using(r, "publicar")
    BY DEF Publish, Using
  <1>2. /\ request[r].op \in {"verificar", "despachar"} /\ Refusal(request[r]) = None
        /\ "db_down" \notin plan[r] /\ Says(request[r]) = None
    BY <1>1, InUse DEF OperationsUsing, Passed
  <1>3. UNCHANGED << settings, request, plan, resultado, effects, outage >>
    BY DEF Publish
  <1>4. After(request[r].op, "publicar") =
          IF request[r].op = "despachar" THEN "barrer" ELSE None
    BY <1>2 DEF After
  <1>5. /\ failures' \in [Circuits -> 0 .. Threshold]
        /\ \E faults : Marks(r, faults)
        /\ "db" \in outage => r \in disturbed'
    <2>1. CASE /\ request[r].op = "despachar" \/ "db" \in outage
               /\ Touch(r, {}, "db" \in outage)
               /\ UNCHANGED failures
      <3>1. Marks(r, {}) /\ ("db" \in outage => r \in disturbed')
        BY <2>1 DEF Touch, Trips, Marks
      <3> QED
        BY <1>1, <2>1, <3>1, InUse, Typed
    <2>2. CASE /\ Open(r, "qstash")
               /\ Touch(r, {"db_down", "redis_down"}, TRUE)
               /\ UNCHANGED failures
      <3>1. Marks(r, {"db_down", "redis_down"}) /\ r \in disturbed'
        BY <2>2 DEF Touch, Trips, Marks
      <3> QED
        BY <1>1, <2>2, <3>1, InUse, Typed
    <2>3. CASE /\ ~Open(r, "qstash")
               /\ Touch(r, {"db_down", "redis_down", "qstash_down"},
                        outage \cap {"db", "redis", "qstash"} # {})
               /\ Count(r, "qstash", Fails(r, "qstash"))
      <3>1. /\ Marks(r, {"db_down", "redis_down", "qstash_down"})
            /\ "db" \in outage => r \in disturbed'
        BY <2>3 DEF Touch, Trips, Marks
      <3>2. failures' \in [Circuits -> 0 .. Threshold]
        BY <1>1, <2>3, CountTyped DEF Count, Circuits
      <3> QED
        BY <3>1, <3>2
    <2>4. {"db_down", "redis_down"} \cup {"qstash_down"} = {"db_down", "redis_down", "qstash_down"}
          /\ {"db_down", "redis_down"} \cup {} = {"db_down", "redis_down"}
      OBVIOUS
    <2> QED
      BY <2>1, <2>2, <2>3, <2>4 DEF Publish
  <1>6. Framed(r)
    BY <1>1, <1>3, <1>5, QuietKeeps, TouchFramed
  <1>7. CASE request[r].op = "verificar"
    <2>1. PICK codigo : codigo = resultado[r]
      OBVIOUS
    <2>2. Ended(r, "ok") /\ Done(r, codigo)
      BY <1>1, <1>4, <1>7, <2>1, ContinueFrame DEF Publish
    <2>3. Tells(r, codigo)'
      BY <1>1, <1>6, <1>7, <2>1, ResultTold
    <2>4. effects'[r] = {"imagen", "intento", "identidad"} /\ codigo = "EXITOSO"
      BY <1>1, <1>3, <1>7, <2>1, InUse DEF Holds
    <2>5. Audited(request[r].op, "publicar") = {"identity.verification"}
      BY <1>7 DEF Audited
    <2> QED
      BY <1>1, <1>6, <2>2, <2>3, <2>4, <2>5, AnswerStep DEF Successes, Resultados, Verdicts
  <1>8. CASE request[r].op = "despachar"
    <2>1. effects'[r] = {}
      BY <1>1, <1>3, <1>8, InUse DEF Holds
    <2>2. CASE "db" \in outage
      <3>1. Raise(r, "INTERNAL")
        BY <1>8, <2>2 DEF Publish
      <3>2. FaultOf("db") = "db_down" /\ "db" \in Dependencies /\ Fails(r, "db")
        BY <2>2 DEF FaultOf, Dependencies, Fails
      <3>3. Tells(r, "INTERNAL")'
        BY <1>2, <1>5, <1>6, <1>8, <2>2, <3>2, TableOfDatabase, TellsFault
      <3> QED
        BY <1>1, <1>6, <3>1, <3>3, RaiseStep DEF Codigos, Successes, Resultados, Verdicts
    <2>3. CASE "db" \notin outage
      <3>1. Continue(r, "OK")
        BY <1>8, <2>3 DEF Publish
      <3>2. After(request[r].op, "publicar") = "barrer" /\ "barrer" # None
        BY <1>4, <1>8 DEF None
      <3>3. Passed(r, "barrer")' /\ Holds(r, "barrer")'
        BY <1>2, <1>3, <2>1 DEF Passed, Holds
      <3> QED
        BY <1>1, <1>6, <3>1, <3>2, <3>3, GoStep
    <2> QED
      BY <2>2, <2>3
  <1> QED
    BY <1>2, <1>7, <1>8

LEMMA SweepKeeps ==
  ASSUME IInv, NEW r \in Requests, Sweep(r)
  PROVE  IInv'
  <1>1. Using(r, "barrer")
    BY DEF Sweep, Using
  <1>2. /\ request[r].op = "despachar" /\ Refusal(request[r]) = None /\ effects[r] = {}
        /\ "db_down" \notin plan[r] /\ Says(request[r]) = None
    BY <1>1, InUse DEF OperationsUsing, Passed, Holds
  <1>3. /\ Marks(r, {"db_down"}) /\ ("db" \in outage => r \in disturbed')
        /\ UNCHANGED << settings, request, plan, resultado, effects, failures, outage >>
    BY DEF Sweep, Touch, Trips, Marks
  <1>4. /\ Framed(r) /\ ("db_down" \in plan[r] => "db_down" \in applied'[r])
        /\ effects'[r] = {}
    BY <1>1, <1>2, <1>3, InUse, Typed, QuietKeeps, TouchFramed
  <1>5. CASE Fails(r, "db")
    <2>1. Raise(r, "INTERNAL")
      BY <1>5 DEF Sweep, Raised, Thrown
    <2>2. FaultOf("db") = "db_down" /\ "db" \in Dependencies
      BY DEF FaultOf, Dependencies
    <2>3. Tells(r, "INTERNAL")'
      BY <1>2, <1>3, <1>4, <1>5, <2>2, TableOfDatabase, TellsFault
    <2> QED
      BY <1>1, <1>4, <2>1, <2>3, RaiseStep DEF Codigos, Successes, Resultados, Verdicts
  <1>6. CASE ~Fails(r, "db")
    <2>1. Continue(r, "OK") /\ After(request[r].op, "barrer") = None
      BY <1>6 DEF Sweep, After
    <2>2. Ended(r, "ok") /\ Done(r, "OK")
      BY <1>1, <2>1, ContinueFrame
    <2>3. Tells(r, "OK")'
      BY <1>2, <1>4, TableOfOthers, TellsPlain
    <2>4. Audited(request[r].op, "barrer") = {}
      BY <1>2 DEF Audited
    <2> QED
      BY <1>1, <1>4, <2>2, <2>3, <2>4, AnswerStep DEF Successes, Resultados, Verdicts
  <1> QED
    BY <1>5, <1>6

LEMMA RateLimitKeeps ==
  ASSUME IInv, NEW r \in Requests, RateLimit(r)
  PROVE  IInv'
  <1>1. Using(r, "limite")
    BY DEF RateLimit, Using
  <1>2. /\ request[r].op = "emitir" /\ Refusal(request[r]) = None /\ effects[r] = {}
        /\ "db_down" \notin plan[r] /\ Says(request[r]) = None
    BY <1>1, InUse DEF OperationsUsing, Passed, Holds
  <1>3. /\ Marks(r, {"redis_down"})
        /\ UNCHANGED << settings, request, plan, resultado, effects, failures, outage >>
    BY DEF RateLimit, Touch, Trips, Marks
  <1>4. Framed(r)
    BY <1>1, <1>3, InUse, Typed, QuietKeeps, TouchFramed
  <1>5. effects'[r] = {} /\ request'[r] = request[r] /\ plan'[r] = plan[r]
    BY <1>2, <1>3
  <1>6. CASE Continue(r, "OK")
    <2>1. After(request[r].op, "limite") = "emitir" /\ "emitir" # None
      BY DEF After, None
    <2>2. Passed(r, "emitir")' /\ Holds(r, "emitir")'
      BY <1>2, <1>5 DEF Passed, Holds
    <2> QED
      BY <1>1, <1>4, <1>6, <2>1, <2>2, GoStep
  <1>7. CASE ~Fails(r, "redis") /\ Raise(r, "LIMITE_EMISION_EXCEDIDO")
    <2>1. "redis_down" \notin plan[r]
      BY <1>7 DEF Fails, Trips, FaultOf
    <2>2. Tells(r, "LIMITE_EMISION_EXCEDIDO")'
      BY <1>2, <1>4, <2>1, TableOfIssue, TellsPlain
    <2> QED
      BY <1>1, <1>4, <1>5, <1>7, <2>2, RaiseStep DEF Codigos, Successes, Resultados, Verdicts
  <1> QED
    BY <1>6, <1>7 DEF RateLimit

LEMMA RegisterKeeps ==
  ASSUME IInv, NEW r \in Requests, Register(r)
  PROVE  IInv'
  <1>1. Using(r, "guardar")
    BY DEF Register, Using
  <1>2. /\ request[r].op = "registrar" /\ Refusal(request[r]) = None
        /\ effects[r] = {"imagen"} /\ "db_down" \notin plan[r] /\ "blob_down" \notin plan[r]
        /\ Says(request[r]) = None
    BY <1>1, InUse DEF OperationsUsing, Holds, Passed
  <1>3. /\ Marks(r, {"db_down"}) /\ ("db" \in outage => r \in disturbed')
        /\ UNCHANGED << settings, request, plan, resultado, failures, outage >>
    BY DEF Register, Touch, Trips, Marks
  <1>4. ASSUME Keeps(r)
        PROVE  Framed(r) /\ ("db_down" \in plan[r] => "db_down" \in applied'[r])
    BY <1>1, <1>3, <1>4, TouchFramed
  <1>5. {"pasajero"} \in SUBSET Effects
    BY DEF Effects
  <1>6. CASE Fails(r, "db")
    <2>1. Raise(r, "INTERNAL") /\ Perhaps(r, "db", {"pasajero"})
      BY <1>6 DEF Register, Raised, Thrown
    <2>2. Keeps(r)
      BY <1>1, <1>3, <1>5, <2>1, PerhapsKeeps
    <2>3. Tells(r, "INTERNAL")'
      <3>1. FaultOf("db") = "db_down" /\ "db" \in Dependencies
        BY DEF FaultOf, Dependencies
      <3> QED
        BY <1>2, <1>3, <1>4, <1>6, <2>2, <3>1, TableOfDatabase, TellsFault
    <2> QED
      BY <1>1, <1>4, <2>1, <2>2, <2>3, RaiseStep DEF Codigos, Successes, Resultados, Verdicts
  <1>7. CASE ~Fails(r, "db")
    <2>1. Continue(r, "CREADO") /\ effects' = [effects EXCEPT ![r] = @ \cup {"pasajero"}]
      BY <1>7 DEF Register
    <2>2. Keeps(r) /\ effects'[r] = effects[r] \cup {"pasajero"}
      BY <1>1, <1>3, <1>5, <2>1, EffectKeeps
    <2>3. effects'[r] = {"imagen", "pasajero"}
      BY <1>2, <2>2
    <2>4. Ended(r, "ok") /\ Done(r, "CREADO")
      <3>1. After(request[r].op, "guardar") = None
        BY <1>2 DEF After
      <3> QED
        BY <1>1, <2>1, <3>1, ContinueFrame
    <2>5. Tells(r, "CREADO")'
      BY <1>2, <1>4, <2>2, TableOfRegistration, TellsPlain
    <2>6. Audited(request[r].op, "guardar") = {}
      BY <1>2 DEF Audited
    <2> QED
      BY <1>1, <1>4, <2>2, <2>3, <2>4, <2>5, <2>6, AnswerStep
         DEF Successes, Resultados, Verdicts
  <1> QED
    BY <1>6, <1>7

\* Only the last of the five outcomes of an issue leaves a pass that is answered.
LEMMA MintKeeps ==
  ASSUME IInv, NEW r \in Requests, Mint(r)
  PROVE  IInv'
  <1>1. Using(r, "emitir")
    BY DEF Mint, Using
  <1>2. /\ request[r].op = "emitir" /\ Refusal(request[r]) = None
        /\ effects[r] = {} /\ "db_down" \notin plan[r] /\ Says(request[r]) = None
    BY <1>1, InUse DEF OperationsUsing, Holds, Passed
  <1>3. PICK db, holder, signed \in BOOLEAN :
          /\ db <=> Fails(r, "db")
          /\ holder <=> request[r].user = "titular"
          /\ signed <=> ~db /\ holder /\ ~Trips(r, "signing_down")
    OBVIOUS
  <1>4. PICK faults : faults = {"db_down"} \cup (IF db \/ ~holder THEN {} ELSE {"signing_down"})
                                 \cup (IF signed THEN {"redis_down"} ELSE {})
    OBVIOUS
  <1>5. /\ UNCHANGED << settings, request, plan, resultado, failures, outage >>
        /\ Marks(r, faults)
        /\ "db" \in outage => r \in disturbed'
        /\ signed /\ "redis" \in outage => r \in disturbed'
    BY <1>3, <1>4 DEF Mint, Touch, Trips, Marks
  <1>6. ASSUME Keeps(r)
        PROVE  Framed(r) /\ \A f \in faults : f \in plan[r] => f \in applied'[r]
    BY <1>1, <1>5, <1>6, TouchFramed
  <1>7. ASSUME UNCHANGED effects
        PROVE  Framed(r) /\ effects'[r] = {}
    <2>1. Keeps(r)
      BY <1>1, <1>5, <1>7, InUse, Typed, QuietKeeps
    <2> QED
      BY <1>2, <1>6, <1>7, <2>1
  <1>8. CASE db
    <2>1. PICK kept \in {{"token"}, {"token", "pase"}} : Perhaps(r, "db", kept)
      BY <1>3, <1>8 DEF Mint
    <2>2. kept \in SUBSET Effects
      BY <2>1 DEF Effects
    <2>3. Raise(r, "INTERNAL")
      BY <1>3, <1>8 DEF Mint, Raised, Thrown
    <2>4. Framed(r)
      BY <1>1, <1>5, <1>6, <2>1, <2>2, PerhapsKeeps
    <2>5. FaultOf("db") = "db_down" /\ "db" \in Dependencies
      BY DEF FaultOf, Dependencies
    <2>6. Tells(r, "INTERNAL")'
      BY <1>2, <1>3, <1>5, <1>8, <2>4, <2>5, TableOfDatabase, TellsFault
    <2> QED
      BY <1>1, <2>3, <2>4, <2>6, RaiseStep DEF Codigos, Successes, Resultados, Verdicts
  <1>9. CASE ~db /\ ~holder
    <2>1. Raise(r, "IDENTIDAD_NO_ACTIVA") /\ UNCHANGED effects
      BY <1>3, <1>9 DEF Mint
    <2>2. Tells(r, "IDENTIDAD_NO_ACTIVA")'
      BY <1>2, <1>3, <1>7, <1>9, <2>1, TableOfIssue, TellsPlain
    <2> QED
      BY <1>1, <1>7, <2>1, <2>2, RaiseStep DEF Codigos, Successes, Resultados, Verdicts
  <1>10. CASE ~db /\ holder /\ ~signed
    <2>1. Raise(r, "INTERNAL") /\ UNCHANGED effects
      BY <1>3, <1>10 DEF Mint, Raised, Thrown
    <2>2. Framed(r) /\ "signing_down" \in applied'[r]
      <3>1. "signing_down" \in faults /\ "signing_down" \in plan[r]
        BY <1>3, <1>4, <1>10 DEF Trips
      <3>2. Keeps(r)
        BY <1>1, <1>5, <2>1, InUse, Typed, QuietKeeps
      <3> QED
        BY <1>6, <3>1, <3>2
    <2>3. Tells(r, "INTERNAL")'
      BY <1>2, <1>3, <1>10, <2>2, TableOfIssue, TellsPlain
    <2> QED
      BY <1>1, <2>1, <2>2, <2>3, RaiseStep DEF Codigos, Successes, Resultados, Verdicts
  <1>11. ASSUME signed
         PROVE  "signing_down" \notin plan[r] /\ request[r].user = "titular" /\ "redis_down" \in faults
    BY <1>3, <1>4, <1>11 DEF Trips
  <1>12. CASE signed /\ Fails(r, "redis")
    <2>1. /\ Raise(r, "ALMACENAMIENTO_NO_DISPONIBLE")
          /\ effects' = [effects EXCEPT ![r] = @ \cup {"revocada"}]
      <3>1. Raised(Adapted(Thrown("redis"))) = "ALMACENAMIENTO_NO_DISPONIBLE"
        BY DEF Raised, Adapted, Thrown
      <3>2. /\ Raise(r, Raised(Adapted(Thrown("redis"))))
            /\ effects' = [effects EXCEPT ![r] = @ \cup {"revocada"}]
        BY <1>3, <1>12 DEF Mint
      <3> QED
        BY <3>1, <3>2
    <2>2. {"revocada"} \in SUBSET Effects
      BY DEF Effects
    <2>3. Keeps(r) /\ effects'[r] = effects[r] \cup {"revocada"}
      BY <1>1, <1>5, <2>1, <2>2, EffectKeeps
    <2>4. Framed(r) /\ effects'[r] = {"revocada"}
      BY <1>2, <1>6, <2>3
    <2>5. FaultOf("redis") = "redis_down" /\ "redis" \in Dependencies
      BY DEF FaultOf, Dependencies
    <2>6. \A p : "redis_down" \in p /\ p \subseteq plan[r] \cup {"redis_down"} =>
             "ALMACENAMIENTO_NO_DISPONIBLE" \in Given(request[r], p)
      BY <1>2, <1>11, <1>12, TableOfIssue
    <2>7. "redis_down" \in plan[r] => "redis_down" \in applied'[r]
      BY <1>6, <1>11, <1>12, <2>3
    <2>8. Tells(r, "ALMACENAMIENTO_NO_DISPONIBLE")'
      BY <1>5, <1>12, <2>4, <2>5, <2>6, <2>7, TellsFault
    <2> QED
      BY <1>1, <2>1, <2>4, <2>8, RaiseStep DEF Codigos, Successes, Resultados, Verdicts
  <1>13. CASE signed /\ ~Fails(r, "redis")
    <2>1. Continue(r, "CREADO") /\ effects' = [effects EXCEPT ![r] = @ \cup {"token", "pase"}]
      BY <1>3, <1>13 DEF Mint
    <2>2. {"token", "pase"} \in SUBSET Effects
      BY DEF Effects
    <2>3. Keeps(r) /\ effects'[r] = effects[r] \cup {"token", "pase"}
      BY <1>1, <1>5, <2>1, <2>2, EffectKeeps
    <2>4. Framed(r) /\ effects'[r] = {"token", "pase"}
      BY <1>2, <1>6, <2>3
    <2>5. Ended(r, "ok") /\ Done(r, "CREADO")
      <3>1. After(request[r].op, "emitir") = None
        BY DEF After
      <3> QED
        BY <1>1, <2>1, <3>1, ContinueFrame
    <2>6. "redis_down" \notin plan[r]
      BY <1>13 DEF Fails, Trips, FaultOf
    <2>7. Tells(r, "CREADO")'
      BY <1>2, <1>11, <1>13, <2>4, <2>6, TableOfIssue, TellsPlain
    <2>8. Audited(request[r].op, "emitir") = {"credential.issue"}
      BY <1>2 DEF Audited
    <2> QED
      BY <1>1, <2>4, <2>5, <2>7, <2>8, AnswerStep DEF Successes, Resultados, Verdicts
  <1> QED
    BY <1>3, <1>8, <1>9, <1>10, <1>12, <1>13

LEMMA HealthKeeps ==
  ASSUME IInv, NEW r \in Requests, Health(r)
  PROVE  IInv'
  <1>1. Using(r, "ping")
    BY DEF Health, Using
  <1>2. /\ request[r].op = "salud" /\ Refusal(request[r]) = None /\ effects[r] = {}
    BY <1>1, InUse DEF OperationsUsing, Holds
  <1>3. settings.adapters \in {"real", "fake"}
    BY <1>1, InUse, Typed
  <1>4. PICK checked : checked = IF settings.adapters = "fake" THEN {"db"} ELSE {"db", "redis"}
    OBVIOUS
  <1>5. PICK faults : faults = {FaultOf(d) : d \in checked}
    OBVIOUS
  <1>6. PICK codigo : codigo = IF \E d \in checked : Fails(r, d) THEN "NO_DISPONIBLE" ELSE "OK"
    OBVIOUS
  <1>7. /\ Marks(r, faults)
        /\ \A d \in checked : d \in outage => r \in disturbed'
        /\ UNCHANGED << settings, request, plan, resultado, effects, failures, outage >>
        /\ Continue(r, codigo)
    BY <1>4, <1>5, <1>6 DEF Health, Touch, Trips, Marks
  <1>8. /\ Framed(r)
        /\ \A f \in faults : f \in plan[r] => f \in applied'[r]
    BY <1>1, <1>7, InUse, Typed, QuietKeeps, TouchFramed
  <1>9. Ended(r, "ok") /\ Done(r, codigo)
    <2>1. After(request[r].op, "ping") = None
      BY DEF After
    <2> QED
      BY <1>1, <1>7, <2>1, ContinueFrame
  <1>10. effects'[r] = {} /\ Audited(request[r].op, "ping") = {}
    BY <1>2, <1>7 DEF Audited
  <1>11. PICK named : named = {"db_down", IF settings.adapters = "real" THEN "redis_down" ELSE None}
    OBVIOUS
  <1>12. \A p : /\ p \cap named = {} => "OK" \in Given(request[r], p)
                /\ p \cap named # {} => "NO_DISPONIBLE" \in Given(request[r], p)
    BY <1>2, <1>11, TableOfHealth
  <1>13. /\ checked \subseteq Dependencies
         /\ \A d \in checked : FaultOf(d) \in named /\ FaultOf(d) \in faults
         /\ \A f \in named : f # None => \E d \in checked : f = FaultOf(d)
    BY <1>3, <1>4, <1>5, <1>11 DEF Dependencies, FaultOf
  <1>14. CASE \E d \in checked : Fails(r, d)
    <2>1. PICK d \in checked : Fails(r, d)
      BY <1>14
    <2>2. \A p : FaultOf(d) \in p => codigo \in Given(request[r], p)
      BY <1>6, <1>12, <1>13, <1>14
    <2>3. Tells(r, codigo)'
      BY <1>7, <1>8, <1>13, <2>1, <2>2, TellsFault
    <2>4. codigo \in Codigos \ Successes
      BY <1>6, <1>14 DEF Codigos, Successes, Resultados, Verdicts
    <2>5. Matches(codigo, effects[r], audit[r])'
      <3>1. Ends(r, "ping", codigo, "ok")
        BY <1>1, <1>8, <1>9, <2>4, EndFrame DEF Framed
      <3>2. audit'[r] \subseteq Opened
        BY <1>1, <1>10, <3>1, InUse DEF Ends
      <3>3. codigo \notin Resultados /\ codigo # "EXITOSO" /\ codigo # "CREADO"
        BY <2>4 DEF Successes, Resultados, Verdicts
      <3> QED
        BY <1>10, <3>2, <3>3 DEF Matches, Opened
    <2> QED
      BY <1>1, <1>8, <1>9, <2>3, <2>4, <2>5, EndFrame, Finish DEF Framed
  <1>15. CASE ~ \E d \in checked : Fails(r, d)
    <2>1. \A p : p \subseteq plan[r] => codigo \in Given(request[r], p)
      <3>1. plan[r] \cap named = {}
        <4>1. \A d \in checked : FaultOf(d) \notin plan[r]
          BY <1>15 DEF Fails, Trips
        <4>2. None \notin plan[r]
          BY <1>1, InUse DEF Known, None
        <4> QED
          BY <1>13, <4>1, <4>2
      <3> QED
        BY <1>6, <1>12, <1>15, <3>1
    <2>2. Tells(r, codigo)'
      BY <1>8, <2>1, TellsPlain
    <2>3. codigo = "OK"
      BY <1>6, <1>15
    <2> QED
      BY <1>1, <1>8, <1>9, <1>10, <2>2, <2>3, AnswerStep DEF Successes, Resultados, Verdicts
  <1> QED
    BY <1>14, <1>15

\* A request that arrives is refused, or has its plan and everything to do.
LEMMA ArriveKeeps ==
  ASSUME IInv, NEW r \in Requests, Arrive(r)
  PROVE  IInv'
  <1>1. PICK q \in Incoming[r] :
          /\ request' = [request EXCEPT ![r] = q]
          /\ plan' = [plan EXCEPT ![r] = Plan(settings, q)]
          /\ applied' = [applied EXCEPT ![r] = Plan(settings, q) \cap {"slow"}]
          /\ IF Refusal(q) # None
             THEN Done(r, Refusal(q))
             ELSE /\ todo' = [todo EXCEPT ![r] = Uses(q.op)]
                  /\ IF q.op = "claves" THEN Reply(r, "OK") ELSE UNCHANGED answer
          /\ Emit(r, Session(q))
    BY DEF Arrive
  <1>2. UNCHANGED << settings, resultado, effects, failures, outage, disturbed >>
    BY DEF Arrive
  <1>3. q \in RequestType /\ q.op \in Operations /\ q.op # None
    BY <1>1, InputsAssumption DEF RequestType, Operations, None
  <1>4. /\ Shape /\ effects[r] = {} /\ audit[r] = {} /\ ~Answered(r) /\ r \notin disturbed
    BY DEF Arrive, IInv, RequestOK
  <1>5. PICK asked : asked = Plan(settings, q)
    OBVIOUS
  <1>6. asked \subseteq Known
    BY <1>5 DEF Plan, Parse
  <1>7. /\ request'[r] = q /\ plan'[r] = asked /\ applied'[r] = asked \cap {"slow"}
        /\ \A x \in Requests \ {r} :
             request'[x] = request[x] /\ plan'[x] = plan[x] /\ applied'[x] = applied[x]
        /\ request' \in [Requests -> RequestType \cup {[op |-> None]}]
        /\ plan' \in [Requests -> SUBSET Known] /\ applied' \in [Requests -> SUBSET Known]
    BY <1>1, <1>3, <1>4, <1>5, <1>6 DEF Shape, TypeOK
  <1>8. Arrived(r)' /\ Asked(r)' = asked /\ plan'[r] = Asked(r)' /\ applied'[r] \subseteq plan'[r]
    BY <1>2, <1>3, <1>5, <1>7 DEF Arrived, Asked
  <1>9. /\ todo \in [Requests -> {<< >>} \cup UNION {Rest(op) : op \in Operations}]
        /\ answer \in [Requests -> AnswerType \cup {NoAnswer}]
        /\ audit \in [Requests -> SUBSET AuditType]
    BY <1>4 DEF Shape, TypeOK
  <1>10. PICK T : T = {<< >>} \cup UNION {Rest(op) : op \in Operations}
    OBVIOUS
  \* What a step does to the lists, if it puts s, a and x in them.
  <1>11. ASSUME NEW s \in T, NEW a \in AnswerType \cup {NoAnswer}, NEW x \in SUBSET AuditType,
                todo' = [todo EXCEPT ![r] = s], answer' = [answer EXCEPT ![r] = a],
                audit' = [audit EXCEPT ![r] = x]
         PROVE  /\ Shape' /\ Others(r)
                /\ todo'[r] = s /\ answer'[r] = a /\ audit'[r] = x
    <2>1. /\ todo' \in [Requests -> T] /\ todo'[r] = s
          /\ \A y \in Requests \ {r} : todo'[y] = todo[y]
      BY <1>9, <1>10, <1>11
    <2>2. /\ answer' \in [Requests -> AnswerType \cup {NoAnswer}] /\ answer'[r] = a
          /\ \A y \in Requests \ {r} : answer'[y] = answer[y]
      BY <1>9, <1>11
    <2>3. /\ audit' \in [Requests -> SUBSET AuditType] /\ audit'[r] = x
          /\ \A y \in Requests \ {r} : audit'[y] = audit[y]
      BY <1>9, <1>11
    <2>4. TypeOK'
      BY <1>2, <1>4, <1>7, <2>3 DEF Shape, TypeOK
    <2> QED
      BY <1>2, <1>7, <1>10, <2>1, <2>2, <2>3, <2>4 DEF Shape, Others, Untouched
  <1>12. << >> \in T /\ (q.op # "claves" => Uses(q.op) \in T)
    BY <1>3, <1>10, UsesAreRests
  <1>13. SUFFICES Shape' /\ Others(r) /\ RequestOK(r)'
    BY OthersAreOK DEF IInv
  <1>14. PICK x : x = IF settings.hooks = "rotos" THEN {} ELSE Session(q)
    OBVIOUS
  <1>15. /\ audit' = [audit EXCEPT ![r] = x] /\ x \in SUBSET AuditType
         /\ \A event \in {"credential.issue", "identity.verification"} :
              << event, "ok" >> \notin x
         /\ Refusal(q) = None => x \subseteq Opened
    <2>1. audit' = [audit EXCEPT ![r] = x]
      BY <1>1, <1>4, <1>14 DEF Emit
    <2>2. x \subseteq {"auth.authenticate"} \X {"ok", "error"}
      BY <1>14 DEF Session
    <2>3. Refusal(q) = None => x \subseteq Opened
      BY <1>14 DEF Session, Refusal, Opened, None
    <2> QED
      BY <2>1, <2>2, <2>3 DEF AuditType
  <1>16. CASE Refusal(q) # None
    <2>1. PICK codigo : codigo = Refusal(q)
      OBVIOUS
    <2>2. codigo \in Codigos \ Successes
      BY <1>16, <2>1, SaysIsError
    <2>3. PICK a : a = [codigo |-> codigo, status |-> Status(codigo),
                        header |-> IF codigo = "INTERNAL" THEN {} ELSE applied'[r]]
      OBVIOUS
    <2>4. a \in AnswerType
      BY <1>6, <1>7, <2>2, <2>3, Statuses DEF AnswerType
    <2>7. todo' = [todo EXCEPT ![r] = << >>] /\ answer' = [answer EXCEPT ![r] = a]
      BY <1>1, <1>16, <2>1, <2>3 DEF Done, Reply
    <2>9. /\ Shape' /\ Others(r)
          /\ todo'[r] = << >> /\ answer'[r] = a /\ audit'[r] = x
      BY <1>11, <1>12, <1>15, <2>4, <2>7
    <2>10. Tells(r, codigo)'
      <3>1. r \notin disturbed' /\ request'[r] = q
        BY <1>2, <1>4, <1>7
      <3>2. \A p : codigo \in Given(q, p)'
        BY <1>2, <1>16, <2>1, TablesAreFixed, TableOfRefusals
      <3> QED
        BY <3>1, <3>2 DEF Tells
    <2>11. Matches(codigo, effects[r], audit[r])'
      <3>1. codigo \notin Resultados /\ codigo # "EXITOSO" /\ codigo # "CREADO"
        BY <2>2 DEF Successes, Resultados, Verdicts
      <3>2. effects'[r] = {}
        BY <1>2, <1>4
      <3> QED
        BY <1>15, <2>9, <3>1, <3>2 DEF Matches
    <2>12. /\ answer'[r].codigo = codigo /\ answer'[r].status = Status(codigo)
           /\ codigo # "INTERNAL" => answer'[r].header = applied'[r]
      BY <2>3, <2>9
    <2>13. Answered(r)'
      BY <2>2, <2>12, Statuses DEF Answered
    <2> QED
      BY <1>8, <2>9, <2>10, <2>11, <2>12, <2>13 DEF RequestOK
  <1>17. CASE Refusal(q) = None /\ q.op = "claves"
    <2>1. PICK a : a = [codigo |-> "OK", status |-> Status("OK"), header |-> applied'[r]]
      OBVIOUS
    <2>2. "OK" \in Codigos /\ "OK" # "INTERNAL" /\ "OK" \in Successes
      BY DEF Codigos, Successes
    <2>3. a \in AnswerType
      BY <1>6, <1>7, <2>1, <2>2, Statuses DEF AnswerType
    <2>4. /\ todo' = [todo EXCEPT ![r] = << >>] /\ answer' = [answer EXCEPT ![r] = a]
      BY <1>1, <1>3, <1>17, <2>1, UsesAreRests DEF Reply
    <2>6. /\ Shape' /\ Others(r)
          /\ todo'[r] = << >> /\ answer'[r] = a /\ audit'[r] = x
      BY <1>11, <1>12, <1>15, <2>3, <2>4
    <2>7. Tells(r, "OK")'
      <3>1. r \notin disturbed' /\ request'[r] = q
        BY <1>2, <1>4, <1>7
      <3>2. \A p : "OK" \in Given(q, p)'
        BY <1>2, <1>17, TablesAreFixed, TableOfRefusals
      <3> QED
        BY <3>1, <3>2 DEF Tells
    <2>8. Matches("OK", effects[r], audit[r])'
      <3>1. effects'[r] = {}
        BY <1>2, <1>4
      <3> QED
        BY <1>15, <2>2, <2>6, <3>1 DEF Matches, Resultados, Verdicts
    <2>9. /\ answer'[r].codigo = "OK" /\ answer'[r].status = Status("OK")
          /\ answer'[r].header = applied'[r]
      BY <2>1, <2>6
    <2>10. Answered(r)'
      BY <2>9 DEF Answered, None
    <2> QED
      BY <1>8, <2>6, <2>7, <2>8, <2>9, <2>10 DEF RequestOK
  <1>18. CASE Refusal(q) = None /\ q.op # "claves"
    <2>1. PICK s, a : s = Uses(q.op) /\ a = answer[r]
      OBVIOUS
    <2>2. /\ todo' = [todo EXCEPT ![r] = s] /\ answer' = [answer EXCEPT ![r] = a]
      BY <1>1, <1>9, <1>18, <2>1
    <2>3. Shape' /\ Others(r) /\ todo'[r] = s /\ answer'[r] = a /\ audit'[r] = x
      <3>1. s \in T /\ a \in AnswerType \cup {NoAnswer}
        BY <1>9, <1>12, <1>18, <2>1
      <3> QED
        BY <1>11, <1>15, <2>2, <3>1
    <2>4. PICK use : use = Head(Uses(q.op))
      OBVIOUS
    <2>5. Uses(q.op) \in Rest(q.op) /\ use \in {"leer", "ping"}
      BY <1>3, <1>18, <2>4, UsesAreRests
    <2>6. Passed(r, use)' /\ Holds(r, use)'
      BY <1>2, <1>4, <2>5 DEF Passed, Holds
    <2>7. Pending(r)'
      BY <1>7, <1>18, <1>15, <2>1, <2>3, <2>4, <2>5, <2>6 DEF Pending, Opened
    <2>8. ~Answered(r)'
      BY <1>4, <2>1, <2>3 DEF Answered
    <2> QED
      BY <1>8, <2>3, <2>7, <2>8 DEF RequestOK
  <1> QED
    BY <1>16, <1>17, <1>18

\* A circuit that lets a trial through, or a dependency that goes down, changes
\* no request.
LEMMA NobodyMoves ==
  ASSUME IInv, UNCHANGED << settings, request, plan, applied, todo, resultado, effects, audit,
                            answer, disturbed >>,
         failures' \in [Circuits -> 0 .. Threshold], outage' \subseteq Dependencies
  PROVE  IInv'
  <1>1. Shape'
    BY DEF IInv, Shape, TypeOK
  <1>2. ASSUME NEW r \in Requests
        PROVE  RequestOK(r)'
    BY <1>2, UntouchedIsOK DEF Untouched
  <1> QED
    BY <1>1, <1>2 DEF IInv

LEMMA HalfOpenKeeps ==
  ASSUME IInv, NEW c \in Circuits, HalfOpen(c)
  PROVE  IInv'
  <1>1. failures \in [Circuits -> 0 .. Threshold] /\ outage \subseteq Dependencies
    BY Typed DEF IInv
  <1>2. failures' \in [Circuits -> 0 .. Threshold] /\ outage' \subseteq Dependencies
    BY <1>1, InputsAssumption DEF HalfOpen
  <1> QED
    BY <1>2, NobodyMoves DEF HalfOpen

LEMMA OutageKeeps ==
  ASSUME IInv, NEW d \in Dependencies, Outage(d)
  PROVE  IInv'
  <1>1. failures' \in [Circuits -> 0 .. Threshold] /\ outage' \subseteq Dependencies
    BY Typed DEF IInv, Outage
  <1> QED
    BY <1>1, NobodyMoves DEF Outage

LEMMA InitOK ==
  ASSUME Init
  PROVE  IInv
  <1>1. /\ settings \in SettingsType
        /\ failures \in [Circuits -> 0 .. Threshold]
    BY InputsAssumption DEF Init
  <1>2. TypeOK
    BY <1>1 DEF Init, TypeOK
  <1>3. Shape
    BY <1>2 DEF Init, Shape, NoAnswer
  <1>4. ASSUME NEW r \in Requests
        PROVE  RequestOK(r)
    BY <1>4 DEF Init, RequestOK, Arrived, Answered
  <1> QED
    BY <1>3, <1>4 DEF IInv

LEMMA NextKeeps ==
  ASSUME IInv, Next
  PROVE  IInv'
  <1>1. ASSUME NEW r \in Requests, Handle(r)
        PROVE  IInv'
    BY <1>1, ArriveKeeps, LeerKeeps, RejectImageKeeps, BlobKeeps, EvaluateKeeps,
       RecordAttemptKeeps, PublishKeeps, SweepKeeps, RateLimitKeeps, MintKeeps,
       RegisterKeeps, HealthKeeps
       DEF Handle
  <1> QED
    BY <1>1, HalfOpenKeeps, OutageKeeps DEF Next

\* Every request is where its plan, its refusals and its faults have left it, at
\* every moment.
THEOREM Invariance == Spec => []IInv
  <1>1. IInv /\ [Next]_vars => IInv'
    <2>1. CASE Next
      BY <2>1, NextKeeps
    <2>2. ASSUME IInv, UNCHANGED vars
          PROVE  IInv'
      <3>1. /\ failures' \in [Circuits -> 0 .. Threshold] /\ outage' \subseteq Dependencies
        BY <2>2, Typed DEF IInv, vars
      <3> QED
        BY <2>2, <3>1, NobodyMoves DEF vars
    <2> QED
      BY <2>1, <2>2
  <1> QED
    BY InitOK, <1>1, PTL DEF Spec

\* The settings, the requests, their plans, what they keep, what they record and
\* the circuits' counts keep their types (api/main.py, api/deps.py,
\* api/fault_injection.py and adapters/biometric/circuit_breaker.py).
THEOREM TypeCorrect == Spec => []TypeOK
  <1>1. IInv => TypeOK
    BY DEF IInv, Shape
  <1> QED
    BY <1>1, Invariance, PTL

\* Whatever the other requests ask to fail, a request gets the answer its own
\* plan has in the tables, or, once it met an outage or an open circuit, one that
\* some plan has; the one exception is the 500 that MX Face's malformed JSON ends
\* in, where the tables have NO_CONCLUYENTE (api/fault_injection.py,
\* adapters/faults/inject.py, mxface_adapter.py and the handlers of api/main.py).
THEOREM AnswersAreDocumented == Spec => []AnswersAsDocumented
  <1>1. ASSUME IInv, NEW r \in Requests, Answered(r)
        PROVE  IF r \in disturbed
               THEN \E p \in SUBSET Real : answer[r].codigo \in Given(request[r], Asked(r) \cup p)
               ELSE answer[r].codigo \in Given(request[r], Asked(r))
    <2>1. RequestOK(r) /\ (~Arrived(r) => ~Answered(r))
      BY <1>1 DEF IInv, RequestOK
    <2>2. plan[r] = Asked(r) /\ applied[r] \subseteq plan[r] /\ Tells(r, answer[r].codigo)
      BY <1>1, <2>1 DEF RequestOK
    <2>3. plan[r] \in Between(r)
      BY <2>2 DEF Between
    <2> QED
      BY <2>2, <2>3 DEF Tells
  <1>2. IInv => AnswersAsDocumented
    BY <1>1 DEF AnswersAsDocumented, Real
  <1> QED
    BY <1>2, Invariance, PTL

\* The header of an answer that is no crash names faults that were asked for,
\* every one without which the answer would have been another, and some fault
\* when it would have been another without any (send_with_applied of
\* api/fault_injection.py, FaultPlan.trip of faults.py).
THEOREM FaultsAreNamed == Spec => []FaultsAreTold
  <1>1. ASSUME IInv, NEW r \in Requests, Answered(r), answer[r].status # 500
        PROVE  /\ answer[r].header \subseteq Asked(r)
               /\ r \in disturbed \/
                    /\ {f \in Asked(r) : answer[r].codigo \notin Documented(request[r], Asked(r) \ {f})}
                         \subseteq answer[r].header
                    /\ answer[r].codigo \notin Documented(request[r], {}) => answer[r].header # {}
    <2>1. RequestOK(r) /\ (~Arrived(r) => ~Answered(r)) /\ Shape
      BY <1>1 DEF IInv, RequestOK
    <2>2. answer[r].codigo \in Codigos
      BY <1>1, <2>1 DEF Shape, AnswerType, NoAnswer, Answered
    <2>3. /\ plan[r] = Asked(r) /\ applied[r] \subseteq plan[r] /\ Tells(r, answer[r].codigo)
          /\ answer[r].header = applied[r]
      BY <1>1, <2>1, <2>2, Statuses DEF RequestOK
    <2>4. ASSUME r \notin disturbed, NEW p, applied[r] \subseteq p, p \subseteq plan[r]
          PROVE  answer[r].codigo \in Documented(request[r], p)
      <3>1. answer[r].codigo \in Given(request[r], p)
        BY <2>3, <2>4 DEF Tells, Between
      <3>2. answer[r].codigo # "INTERNAL"
        BY <1>1, <2>1, <2>2, Statuses DEF RequestOK
      <3> QED
        BY <3>1, <3>2, GivenIsDocumented
    <2>5. ASSUME r \notin disturbed, NEW f \in Asked(r), f \notin applied[r]
          PROVE  answer[r].codigo \in Documented(request[r], Asked(r) \ {f})
      BY <2>3, <2>4, <2>5
    <2>6. r \notin disturbed /\ applied[r] = {} => answer[r].codigo \in Documented(request[r], {})
      BY <2>4
    <2> QED
      BY <2>3, <2>5, <2>6
  <1>2. IInv => FaultsAreTold
    BY <1>1 DEF FaultsAreTold
  <1> QED
    BY <1>2, Invariance, PTL

\* An answer that is no crash says what was kept: no error leaves more than a
\* photograph or a revoked pass, a verdict has its attempt and EXITOSO its
\* identity, and the audit says ok exactly of what was committed
\* (services/verification.py, passes.py and registration.py, audit.py).
THEOREM RepliesAreTrue == Spec => []RepliesMatchEffects
  <1>1. ASSUME IInv, NEW r \in Requests, Answered(r), answer[r].status # 500
        PROVE  /\ answer[r].status > 201 => effects[r] \subseteq {"imagen", "revocada"}
               /\ answer[r].codigo # "INTERNAL"
               /\ Matches(answer[r].codigo, effects[r], audit[r])
    <2>1. RequestOK(r) /\ Shape
      BY <1>1 DEF IInv
    <2>2. answer[r].codigo \in Codigos
      BY <1>1, <2>1 DEF Shape, AnswerType, NoAnswer, Answered
    <2>3. /\ answer[r].status = Status(answer[r].codigo)
          /\ Matches(answer[r].codigo, effects[r], audit[r])
      BY <1>1, <2>1 DEF RequestOK
    <2>4. answer[r].codigo # "INTERNAL"
      BY <1>1, <2>2, <2>3, Statuses
    <2>5. answer[r].status > 201 => answer[r].codigo \notin Successes
      BY <2>2, <2>3, Statuses
    <2> QED
      BY <2>3, <2>4, <2>5 DEF Matches
  <1>2. IInv => RepliesMatchEffects
    BY <1>1 DEF RepliesMatchEffects, Matches, Resultados
  <1> QED
    BY <1>2, Invariance, PTL
=============================================================================
