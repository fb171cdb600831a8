--------------------------- MODULE ApiRequests ---------------------------
(***************************************************************************)
(* One HTTP request through the layers of the application: the fault       *)
(* middleware and its plan, the dependencies the container wires for it,   *)
(* the adapters that translate their exceptions, the services that answer  *)
(* them and the handlers that turn what is left into a status. What other  *)
(* modules say of the services themselves is left out; here is who         *)
(* answers what when a dependency fails, by itself or by request.          *)
(***************************************************************************)
EXTENDS Integers, FiniteSets, Sequences

CONSTANTS
  Requests,
  Incoming,     \* Incoming[r]: what r may ask for
  Deployments,  \* settings an operator may write
  Threshold,    \* failure_threshold of both breakers
  MaxOutages    \* bound: dependencies that really go down

Known == {"blob_down", "mxface_down", "mxface_slow", "mxface_quota", "db_down",
          "redis_down", "signing_down", "qstash_down", "slow"}
Operations == {"registrar", "yo", "verificar", "emitir", "detalle", "salud",
               "claves", "despachar"}
Users == {"nadie", "desconocido", "pasajero", "titular"}
Images == {"valida", "enorme", "grande", "otra"}
Documents == {"propio", "ajeno"}    \* of the form; "ajeno" is of another account
Items == [name : Known \cup {"teleport"}, value : {"", "corta", "mal"}]

\* What the provider makes of the two photographs, or fails to.
Faces == [http : {"200", "4xx", "5xx", "perdida"},
          liveness : {"alta", "baja", "mal"},
          match : {"si", "no", "falta", "mal", "lista"}]

Headers == {h \in SUBSET Items : \A i, j \in h : i.name = j.name => i = j}

RequestType == [op : Operations, user : Users, document : Documents, image : Images,
                face : Faces, header : Headers, key : BOOLEAN]
SettingsType == [adapters : {"real", "fake"}, provider : {"mock", "vision", "mxface"},
                 faults : BOOLEAN, secret : BOOLEAN, production : BOOLEAN,
                 hooks : {"sanos", "rotos"}]

ASSUME InputsAssumption ==
  /\ Incoming \in [Requests -> SUBSET RequestType]
  /\ Deployments \subseteq SettingsType
  /\ Threshold \in Nat \ {0} /\ MaxOutages \in Nat

VARIABLES
  settings,
  request,    \* what each request asked for, once it arrived
  plan,       \* faults of the plan its context carries
  applied,    \* FaultPlan.applied
  todo,       \* dependencies it has yet to use
  resultado,  \* of its verification
  effects,    \* what it has committed or stored
  audit,      \* audit records it has emitted, with their outcome
  answer,
  failures,   \* counted by each circuit
  outage,     \* dependencies that are really down
  disturbed   \* history: requests that met an outage or an open circuit

vars == << settings, request, plan, applied, todo, resultado, effects, audit,
           answer, failures, outage, disturbed >>

None == "none"
Circuits == {"biometric", "qstash"}
Dependencies == {"db", "blob", "redis", "qstash"}

-----------------------------------------------------------------------------
(* Settings and wiring. *)

\* Settings with the flag on refuse to load in production.
Loads(s) == ~(s.faults /\ s.production)

\* parse: unknown names, and values that are no number, are only logged.
Parse(header) ==
  {i.name : i \in {j \in header : /\ j.name \in Known
                                  /\ ~(j.name \in {"slow", "mxface_slow"} /\ j.value = "mal")}}

\* The delay asked for is shorter than the provider's timeout.
Brief(q) == [name |-> "mxface_slow", value |-> "corta"] \in q.header

\* The plan the middleware activates; the key is asked for only with a secret.
Plan(s, q) ==
  IF s.faults /\ (s.secret => q.key) THEN Parse(q.header) ELSE {}

\* The exception a fault raises at the wrapper, where the container puts it:
\* over the double in fake mode, under the real adapter otherwise.
Thrown(d) ==
  CASE d = "db"    -> "OperationalError"
    [] d = "blob"  -> IF settings.adapters = "fake" THEN "MediaUnavailable" ELSE "OSError"
    [] d = "redis" -> IF settings.adapters = "fake" THEN "TokenStoreUnavailable"
                                                    ELSE "ConnectionError"
    [] d = "qstash" -> "PublishFailed"
    [] d = "firma"  -> "SigningUnavailable"

\* VercelBlobStorage and UpstashTokenStore over the exceptions of their clients.
Adapted(e) ==
  CASE e \in {"OSError", "BlobError", "TimeoutError"} -> "MediaUnavailable"
    [] e = "ConnectionError" -> "TokenStoreUnavailable"
    [] OTHER -> e

\* What a service raises for it; anything else is handled by nobody.
Raised(e) ==
  IF e \in {"MediaUnavailable", "TokenStoreUnavailable"}
  THEN "ALMACENAMIENTO_NO_DISPONIBLE" ELSE "INTERNAL"

\* http_status of the domain errors, of the handlers' successes and of nobody's.
Status(codigo) ==
  CASE codigo \in {"OK", "EXITOSO", "FALLIDO", "NO_CONCLUYENTE"} -> 200
    [] codigo = "CREADO" -> 201
    [] codigo = "NO_AUTENTICADO" -> 401
    [] codigo = "IDENTIDAD_NO_ACTIVA" -> 403
    [] codigo \in {"PASAJERO_NO_REGISTRADO", "CREDENCIAL_NO_ENCONTRADA"} -> 404
    [] codigo \in {"ESTADO_NO_PERMITE_VERIFICACION", "CUENTA_YA_REGISTRADA",
                   "DOCUMENTO_YA_REGISTRADO"} -> 409
    [] codigo = "IMAGEN_DEMASIADO_GRANDE" -> 413
    [] codigo = "FORMATO_NO_ADMITIDO" -> 415
    [] codigo = "LIMITE_EMISION_EXCEDIDO" -> 429
    [] codigo \in {"ALMACENAMIENTO_NO_DISPONIBLE", "NO_DISPONIBLE"} -> 503
    [] codigo = "INTERNAL" -> 500

-----------------------------------------------------------------------------
(* The biometric adapters: a verdict, or the exception they raise. *)

Verdict(liveness, match) ==
  IF liveness = "alta" /\ match = "si" THEN "EXITOSO" ELSE "FALLIDO"

MxFace(face) ==
  IF face.http # "200" \/ face.liveness = "mal" \/ face.match = "mal"
  THEN "ProviderUnavailable"
  ELSE IF face.match = "lista" THEN "AttributeError"
                               ELSE Verdict(face.liveness, face.match)

Vision(face) ==
  IF face.http # "200" \/ face.liveness = "mal" \/ face.match \notin {"si", "no"}
  THEN "ProviderUnavailable" ELSE Verdict(face.liveness, face.match)

\* The marker in the selfie stands for what a provider would see.
Mock(face) ==
  IF face.http = "perdida" THEN "TimeoutError" ELSE
  IF face.liveness = "baja" \/ face.match = "no" THEN "FALLIDO" ELSE "EXITOSO"

Evaluation(face) ==
  CASE settings.provider = "mxface" -> MxFace(face)
    [] settings.provider = "vision" -> Vision(face)
    [] settings.provider = "mock"   -> Mock(face)

\* The transport, or the mock's wrapper, looks for its faults in this order.
ProviderFault(p) ==
  CASE "mxface_down" \in p  -> {"mxface_down"}
    [] "mxface_down" \notin p /\ "mxface_quota" \in p -> {"mxface_quota"}
    [] OTHER -> p \cap {"mxface_slow"}

\* ResilientBiometricProvider: what it turns into None.
Safe(outcome) ==
  IF outcome \in {"ProviderUnavailable", "CircuitOpenError", "TimeoutError"}
  THEN "NO_CONCLUYENTE" ELSE outcome

-----------------------------------------------------------------------------
(* Before any dependency is used: the body, the session, the form. *)

\* The body is over what the platform takes.
Oversized(q) == q.op \in {"registrar", "verificar"} /\ q.image = "enorme"

\* No session, or no signature of QStash.
Anonymous(q) == q.op \notin {"salud", "claves"} /\ q.user = "nadie"

\* validate_image.
Unfit(q) ==
  CASE q.image = "grande" -> "IMAGEN_DEMASIADO_GRANDE"
    [] q.image = "otra" -> "FORMATO_NO_ADMITIDO"
    [] OTHER -> None

Refusal(q) ==
  IF Oversized(q) THEN "IMAGEN_DEMASIADO_GRANDE" ELSE
  IF Anonymous(q) THEN "NO_AUTENTICADO" ELSE
  IF q.op = "registrar" THEN Unfit(q) ELSE None

\* authenticate, and how it ends; QStash's signature is checked unaudited.
Session(q) ==
  IF Oversized(q) \/ q.op \in {"salud", "claves", "despachar"} THEN {}
  ELSE {<< "auth.authenticate", IF Anonymous(q) THEN "error" ELSE "ok" >>}

\* What the first reads decide. A resubmission is given its passenger.
Says(q) ==
  CASE q.op \in {"yo", "verificar"} /\ q.user = "desconocido" -> "PASAJERO_NO_REGISTRADO"
    [] q.op = "detalle" /\ q.user # "titular" -> "CREDENCIAL_NO_ENCONTRADA"
    [] q.op = "emitir" /\ q.user = "desconocido" -> "IDENTIDAD_NO_ACTIVA"
    [] q.op = "registrar" /\ q.user # "desconocido" /\ q.document = "propio" -> "OK"
    [] q.op = "registrar" /\ q.user # "desconocido" /\ q.document = "ajeno" ->
         "CUENTA_YA_REGISTRADA"
    [] q.op = "registrar" /\ q.user = "desconocido" /\ q.document = "ajeno" ->
         "DOCUMENTO_YA_REGISTRADO"
    [] OTHER -> None

\* The early checks of the facade.
Rejects(q) ==
  IF Unfit(q) = None /\ q.user = "titular" THEN "ESTADO_NO_PERMITE_VERIFICACION"
                                           ELSE Unfit(q)

\* The dependencies an operation uses, in order.
Uses(op) ==
  CASE op = "registrar" -> << "leer", "blob", "guardar" >>
    [] op \in {"yo", "detalle"} -> << "leer" >>
    [] op = "verificar" -> << "leer", "imagen", "blob", "evaluar", "intento", "publicar" >>
    [] op = "emitir" -> << "leer", "limite", "emitir" >>
    [] op = "salud" -> << "ping" >>
    [] op = "despachar" -> << "leer", "publicar", "barrer" >>
    [] op = "claves" -> << >>

Init ==
  /\ settings \in {s \in Deployments : Loads(s)}
  /\ request = [r \in Requests |-> [op |-> None]]
  /\ plan = [r \in Requests |-> {}]
  /\ applied = [r \in Requests |-> {}]
  /\ todo = [r \in Requests |-> << >>]
  /\ resultado = [r \in Requests |-> None]
  /\ effects = [r \in Requests |-> {}]
  /\ audit = [r \in Requests |-> {}]
  /\ answer = [r \in Requests |-> [codigo |-> None]]
  /\ failures = [c \in Circuits |-> 0]
  /\ outage = {}
  /\ disturbed = {}

-----------------------------------------------------------------------------
Arrived(r) == request[r].op # None
Answered(r) == answer[r].codigo # None
At(r, use) == Arrived(r) /\ ~Answered(r) /\ todo[r] # << >> /\ Head(todo[r]) = use

FaultOf(d) ==
  CASE d = "db" -> "db_down" [] d = "blob" -> "blob_down" [] d = "redis" -> "redis_down"
    [] d = "qstash" -> "qstash_down" [] d = "firma" -> "signing_down"

\* Mutant of Trips: the plan is a global of the process.
TripsAny(r, fault) == \E q \in Requests : ~Answered(q) /\ fault \in plan[q]

\* trip: the plan of the request's own context asks for it.
Trips(r, fault) == fault \in plan[r]

Fails(r, d) == Trips(r, FaultOf(d)) \/ d \in outage

\* Mutant of Touch: a task works on a copy of applied.
TouchCopy(r, faults, met) ==
  /\ applied' = applied
  /\ disturbed' = IF met THEN disturbed \cup {r} ELSE disturbed

\* The faults among these that fire are added to applied, which the tasks of
\* the request share; an outage or an open circuit is remembered.
Touch(r, faults, met) ==
  /\ applied' = [applied EXCEPT ![r] = @ \cup {f \in faults : Trips(r, f)}]
  /\ disturbed' = IF met THEN disturbed \cup {r} ELSE disturbed

\* emit_audit: a hook that fails is only logged; the record is lost with it.
Emit(r, records) ==
  audit' = [audit EXCEPT ![r] = IF settings.hooks = "rotos" THEN @ ELSE @ \cup records]

\* audited: the calls that record how they end, the ones that raise included.
\* The router reads the passenger before it calls the facade.
Audited(op, use) ==
  CASE op = "verificar" /\ use # "leer" -> {"identity.verification"}
    [] op = "emitir" -> {"credential.issue"}
    [] OTHER -> {}

\* The outermost frame of Starlette answers what nobody handles, without the
\* headers of the middlewares; send_with_applied adds what has fired.
Reply(r, codigo) ==
  answer' = [answer EXCEPT ![r] =
    [codigo |-> codigo, status |-> Status(codigo),
     header |-> IF codigo = "INTERNAL" THEN {} ELSE applied'[r]]]

Done(r, codigo) ==
  /\ Reply(r, codigo)
  /\ todo' = [todo EXCEPT ![r] = << >>]

\* Mutant of Ended: the record is emitted when the call is entered.
EndedOk(r, outcome) == Emit(r, Audited(request[r].op, Head(todo[r])) \X {"ok"})

Ended(r, outcome) == Emit(r, Audited(request[r].op, Head(todo[r])) \X {outcome})

\* An exception leaves the service: its audit, then its answer.
Raise(r, codigo) == Ended(r, "error") /\ Done(r, codigo)

\* The dependency has been used; the last one is followed by the answer.
Continue(r, codigo) ==
  IF Tail(todo[r]) = << >>
  THEN Ended(r, "ok") /\ Done(r, codigo)
  ELSE todo' = [todo EXCEPT ![r] = Tail(@)] /\ UNCHANGED << answer, audit >>

\* The middleware, and everything that precedes the service.
Arrive(r) ==
  /\ ~Arrived(r)
  /\ \E q \in Incoming[r] :
       /\ request' = [request EXCEPT ![r] = q]
       /\ plan' = [plan EXCEPT ![r] = Plan(settings, q)]
       /\ applied' = [applied EXCEPT ![r] = Plan(settings, q) \cap {"slow"}]
       /\ IF Refusal(q) # None
          THEN Done(r, Refusal(q))
          ELSE /\ todo' = [todo EXCEPT ![r] = Uses(q.op)]
               /\ IF q.op = "claves" THEN Reply(r, "OK") ELSE UNCHANGED answer
       /\ Emit(r, Session(q))
  /\ UNCHANGED << settings, resultado, effects, failures, outage, disturbed >>

\* A dependency that really goes down may take only the reply with it; an
\* injected fault comes before the call.
Perhaps(r, d, kept) ==
  effects' \in {effects} \cup
    IF Trips(r, FaultOf(d)) THEN {} ELSE {[effects EXCEPT ![r] = @ \cup kept]}

\* A session is opened; what it reads may end the request.
Leer(r) ==
  /\ At(r, "leer")
  /\ Touch(r, {"db_down"}, "db" \in outage)
  /\ CASE Fails(r, "db") -> Raise(r, Raised(Thrown("db")))
       [] ~Fails(r, "db") /\ Says(request[r]) = "OK" -> Ended(r, "ok") /\ Done(r, "OK")
       [] ~Fails(r, "db") /\ Says(request[r]) \notin {"OK", None} -> Raise(r, Says(request[r]))
       [] OTHER -> Continue(r, "OK")
  /\ UNCHANGED << settings, request, plan, resultado, effects, failures, outage >>

RejectImage(r) ==
  /\ At(r, "imagen")
  /\ UNCHANGED << applied, disturbed >>
  /\ IF Rejects(request[r]) # None THEN Raise(r, Rejects(request[r])) ELSE Continue(r, "OK")
  /\ UNCHANGED << settings, request, plan, resultado, effects, failures, outage >>

\* The photograph is stored; in a verification the reference is read at once
\* with it, and either failure is the storage's.
Blob(r) ==
  /\ At(r, "blob")
  /\ Touch(r, {"blob_down"}, "blob" \in outage)
  /\ IF Fails(r, "blob")
     THEN Raise(r, Raised(Adapted(Thrown("blob")))) /\ Perhaps(r, "blob", {"imagen"})
     ELSE /\ Continue(r, "OK")
          /\ effects' = [effects EXCEPT ![r] = @ \cup {"imagen"}]
  /\ UNCHANGED << settings, request, plan, resultado, failures, outage >>

\* Mutant of Open: one failure more than the threshold.
OpenLate(r, c) == failures[c] > Threshold /\ ~Fails(r, "redis")

\* The breaker's state store fails open, and its circuit lets a trial through
\* once open_seconds are over.
Open(r, c) == failures[c] = Threshold /\ ~Fails(r, "redis")

\* What a call leaves of the count: a failure may be lost among stale states.
Count(r, c, failed) ==
  \/ Fails(r, "redis") /\ UNCHANGED failures
  \/ /\ ~Fails(r, "redis")
     /\ failures' = [failures EXCEPT ![c] = IF failed THEN @ + 1 ELSE 0]
  \/ failed /\ ~Fails(r, "redis") /\ UNCHANGED failures

HalfOpen(c) ==
  /\ failures[c] = Threshold
  /\ failures' = [failures EXCEPT ![c] = Threshold - 1]
  /\ UNCHANGED << settings, request, plan, applied, todo, resultado, effects, audit,
                  answer, outage, disturbed >>

\* What the provider, behind its faults and the breaker's timeout, comes to.
Outcome(r) ==
  LET hit == ProviderFault(plan[r])
  IN CASE hit \cap {"mxface_down", "mxface_quota"} # {} -> "ProviderUnavailable"
       [] hit = {"mxface_slow"} /\ ~Brief(request[r]) -> "TimeoutError"
       [] OTHER -> Evaluation(request[r].face)

Verdicts == {"EXITOSO", "FALLIDO"}

Evaluate(r) ==
  /\ At(r, "evaluar")
  /\ LET refused == Open(r, "biometric")
         outcome == IF refused THEN "CircuitOpenError" ELSE Outcome(r)
         safe == Safe(outcome)
     IN /\ Touch(r, {"redis_down"} \cup (IF refused THEN {} ELSE ProviderFault(plan[r])),
                 refused \/ "redis" \in outage)
        /\ IF refused THEN UNCHANGED failures
                      ELSE Count(r, "biometric", outcome \notin Verdicts)
        /\ IF safe \in Verdicts \cup {"NO_CONCLUYENTE"}
           THEN /\ resultado' = [resultado EXCEPT ![r] = safe]
                /\ Continue(r, "OK")
           ELSE /\ Raise(r, Raised(safe))
                /\ UNCHANGED resultado
  /\ UNCHANGED << settings, request, plan, effects, outage >>

\* The attempt and what follows from it are one commit; only an identity's
\* event is published, the others answer at once.
RecordAttempt(r) ==
  /\ At(r, "intento")
  /\ Touch(r, {"db_down"}, "db" \in outage)
  /\ LET kept == {"intento"} \cup (IF resultado[r] = "EXITOSO" THEN {"identidad"} ELSE {})
     IN IF Fails(r, "db")
        THEN Raise(r, Raised(Thrown("db"))) /\ Perhaps(r, "db", kept)
        ELSE /\ effects' = [effects EXCEPT ![r] = @ \cup kept]
             /\ IF resultado[r] = "EXITOSO"
                THEN Continue(r, "OK")
                ELSE Ended(r, "ok") /\ Done(r, resultado[r])
  /\ UNCHANGED << settings, request, plan, resultado, failures, outage >>

\* A publication that fails, or that the circuit refuses, stays in the outbox.
\* The sweep may find nothing to publish, and what is lost with the database
\* may be the claim.
Publish(r) ==
  /\ At(r, "publicar")
  /\ \/ LET refused == Open(r, "qstash")
        IN /\ Touch(r, {"db_down", "redis_down"} \cup (IF refused THEN {} ELSE {"qstash_down"}),
                    refused \/ outage \cap {"db", "redis", "qstash"} # {})
           /\ IF refused THEN UNCHANGED failures
                         ELSE Count(r, "qstash", Fails(r, "qstash"))
     \/ /\ request[r].op = "despachar" \/ "db" \in outage
        /\ Touch(r, {}, "db" \in outage)
        /\ UNCHANGED failures
  /\ IF request[r].op = "despachar" /\ "db" \in outage
     THEN Raise(r, "INTERNAL")
     ELSE Continue(r, IF request[r].op = "despachar" THEN "OK" ELSE resultado[r])
  /\ UNCHANGED << settings, request, plan, resultado, effects, outage >>

\* What is left pending is counted, and the lifecycle sweep follows.
Sweep(r) ==
  /\ At(r, "barrer")
  /\ Touch(r, {"db_down"}, "db" \in outage)
  /\ IF Fails(r, "db") THEN Raise(r, Raised(Thrown("db"))) ELSE Continue(r, "OK")
  /\ UNCHANGED << settings, request, plan, resultado, effects, failures, outage >>

\* A Redis that fails, or the double in its place, lets everybody through.
RateLimit(r) ==
  /\ At(r, "limite")
  /\ Touch(r, {"redis_down"}, "redis" \in outage)
  /\ \/ Continue(r, "OK")
     \/ ~Fails(r, "redis") /\ Raise(r, "LIMITE_EMISION_EXCEDIDO")
  /\ UNCHANGED << settings, request, plan, resultado, effects, failures, outage >>

\* One transaction: signature, row, key in Redis, commit. A refused key leaves
\* the row REVOCADA; a failed commit leaves a key that no row answers for.
Mint(r) ==
  /\ At(r, "emitir")
  /\ LET db == Fails(r, "db")
         holder == request[r].user = "titular"
         signed == ~db /\ holder /\ ~Trips(r, "signing_down")
     IN /\ Touch(r, {"db_down"} \cup (IF db \/ ~holder THEN {} ELSE {"signing_down"})
                    \cup (IF signed THEN {"redis_down"} ELSE {}),
                 "db" \in outage \/ (signed /\ "redis" \in outage))
        /\ CASE db ->
                  /\ Raise(r, Raised(Thrown("db")))
                  /\ \E kept \in {{"token"}, {"token", "pase"}} : Perhaps(r, "db", kept)
             [] ~db /\ ~holder -> Raise(r, "IDENTIDAD_NO_ACTIVA") /\ UNCHANGED effects
             [] ~db /\ holder /\ ~signed ->
                  Raise(r, Raised(Thrown("firma"))) /\ UNCHANGED effects
             [] signed /\ Fails(r, "redis") ->
                  /\ Raise(r, Raised(Adapted(Thrown("redis"))))
                  /\ effects' = [effects EXCEPT ![r] = @ \cup {"revocada"}]
             [] OTHER ->
                  /\ Continue(r, "CREADO")
                  /\ effects' = [effects EXCEPT ![r] = @ \cup {"token", "pase"}]
  /\ UNCHANGED << settings, request, plan, resultado, failures, outage >>

Register(r) ==
  /\ At(r, "guardar")
  /\ Touch(r, {"db_down"}, "db" \in outage)
  /\ IF Fails(r, "db")
     THEN Raise(r, Raised(Thrown("db"))) /\ Perhaps(r, "db", {"pasajero"})
     ELSE /\ Continue(r, "CREADO")
          /\ effects' = [effects EXCEPT ![r] = @ \cup {"pasajero"}]
  /\ UNCHANGED << settings, request, plan, resultado, failures, outage >>

\* Every check runs, each bounded by its timeout; in fake mode no Redis is
\* there to be checked.
Health(r) ==
  LET checked == IF settings.adapters = "fake" THEN {"db"} ELSE {"db", "redis"}
  IN /\ At(r, "ping")
     /\ Touch(r, {FaultOf(d) : d \in checked}, checked \cap outage # {})
     /\ Continue(r, IF \E d \in checked : Fails(r, d) THEN "NO_DISPONIBLE" ELSE "OK")
     /\ UNCHANGED << settings, request, plan, resultado, effects, failures, outage >>

\* A dependency goes down, and stays down.
Outage(d) ==
  /\ Cardinality(outage) < MaxOutages
  /\ settings.adapters = "real" \/ d = "db"
  /\ outage' = outage \cup {d}
  /\ UNCHANGED << settings, request, plan, applied, todo, resultado, effects, audit,
                  answer, failures, disturbed >>

Handle(r) ==
  \/ Arrive(r) \/ Leer(r) \/ RejectImage(r) \/ Blob(r) \/ Evaluate(r) \/ RecordAttempt(r)
  \/ Publish(r) \/ Sweep(r) \/ RateLimit(r) \/ Mint(r) \/ Register(r) \/ Health(r)

Next ==
  \/ \E r \in Requests : Handle(r)
  \/ \E c \in Circuits : HalfOpen(c)
  \/ \E d \in Dependencies : Outage(d)

Spec == Init /\ [][Next]_vars

-----------------------------------------------------------------------------
(* Correctness. *)

AuditType == {"identity.verification", "credential.issue", "auth.authenticate"} \X {"ok", "error"}

TypeOK ==
  /\ settings \in SettingsType
  /\ request \in [Requests -> RequestType \cup {[op |-> None]}]
  /\ plan \in [Requests -> SUBSET Known] /\ applied \in [Requests -> SUBSET Known]
  /\ resultado \in [Requests -> Verdicts \cup {"NO_CONCLUYENTE", None}]
  /\ effects \in [Requests -> SUBSET {"imagen", "pasajero", "intento", "identidad",
                                      "token", "pase", "revocada"}]
  /\ audit \in [Requests -> SUBSET AuditType]
  /\ failures \in [Circuits -> 0..Threshold]
  /\ outage \subseteq Dependencies /\ disturbed \subseteq Requests

\* A fault of p answers in the provider's place.
Impostor(q, p) ==
  p \cap {"mxface_down", "mxface_quota"} # {} \/ ("mxface_slow" \in p /\ ~Brief(q))

\* Tables of specs/003 section 3 and of the API's contract: what may be answered
\* to q when the dependencies of p fail. README.md:97-99: an error, a timeout or a
\* malformed response of the provider is a NO_CONCLUYENTE attempt.
Evaluated(q, p) ==
  LET face == q.face
      malformed == face.http # "200" \/ face.liveness = "mal" \/
                   face.match \in (IF settings.provider = "mxface" THEN {"mal", "lista"}
                                                                 ELSE {"falta", "mal", "lista"})
  IN CASE Impostor(q, p) -> "NO_CONCLUYENTE"
       [] ~Impostor(q, p) /\ settings.provider = "mock" ->
            IF face.http = "perdida" THEN "NO_CONCLUYENTE"
            ELSE IF {face.liveness, face.match} \cap {"baja", "no"} # {} THEN "FALLIDO"
            ELSE "EXITOSO"
       [] ~Impostor(q, p) /\ settings.provider # "mock" /\ malformed -> "NO_CONCLUYENTE"
       [] OTHER -> IF face.liveness = "alta" /\ face.match = "si" THEN "EXITOSO" ELSE "FALLIDO"

Unavailable(fault, p, codigo) ==
  IF fault \in p THEN "ALMACENAMIENTO_NO_DISPONIBLE" ELSE codigo

Documented(q, p) ==
  CASE Refusal(q) # None -> {Refusal(q)}
    [] Refusal(q) = None /\ q.op = "claves" -> {"OK"}
    [] Refusal(q) = None /\ q.op = "salud" ->
         LET down == p \cap {"db_down", IF settings.adapters = "real" THEN "redis_down" ELSE None}
         IN {IF down = {} THEN "OK" ELSE "NO_DISPONIBLE"}
    [] Refusal(q) = None /\ q.op \notin {"claves", "salud"} /\ "db_down" \in p -> {"INTERNAL"}
    [] OTHER ->
         CASE Says(q) # None -> {Says(q)}
           [] q.op = "verificar" /\ Says(q) = None ->
                {IF Rejects(q) # None THEN Rejects(q)
                 ELSE Unavailable("blob_down", p, Evaluated(q, p))}
           [] q.op = "registrar" /\ Says(q) = None -> {Unavailable("blob_down", p, "CREADO")}
           [] q.op = "emitir" /\ Says(q) = None ->
                (IF "redis_down" \in p THEN {} ELSE {"LIMITE_EMISION_EXCEDIDO"}) \cup
                {IF q.user # "titular" THEN "IDENTIDAD_NO_ACTIVA"
                 ELSE IF "signing_down" \in p THEN "INTERNAL"
                 ELSE Unavailable("redis_down", p, "CREADO")}
           [] OTHER -> {"OK"}

Asked(r) == Plan(settings, request[r])

\* The one answer outside the tables: JSON that is no object, where MX Face's match
\* was due, is not what evaluate catches, and the 500 takes the attempt's place.
Given(q, p) ==
  Documented(q, p) \cup
    IF /\ settings.provider = "mxface" /\ q.face.match = "lista"
       /\ "NO_CONCLUYENTE" \in Documented(q, p) /\ ~Impostor(q, p)
    THEN {"INTERNAL"} ELSE {}

\* Whatever other requests ask to fail meanwhile, a request gets the answer its
\* own plan has in the tables, but for that 500; one that met a real outage or an
\* open circuit gets an answer some plan has. (api/fault_injection.py,
\* adapters/faults, the adapters' translation of exceptions, api/errors of main.py.)
AnswersAsDocumented ==
  \A r \in {x \in Requests : Answered(x)} :
    IF r \in disturbed
    THEN \E p \in SUBSET {"db_down", "blob_down", "redis_down", "qstash_down", "mxface_down"} :
           answer[r].codigo \in Given(request[r], Asked(r) \cup p)
    ELSE answer[r].codigo \in Given(request[r], Asked(r))

\* ResilientBiometricProvider "never blocks or raises: returns None when the provider
\* fails" (factory.py:22), whatever the provider answers: each selfie that reaches
\* it has a result, a verdict or NO_CONCLUYENTE, to be recorded.
NeverRaises ==
  [][\A r \in Requests :
       At(r, "evaluar") /\ todo'[r] # todo[r] => resultado'[r] # None]_vars

\* X-AeroPass-Fault-Applied names every fault without which the answer would
\* have been another, and none that was not asked for; the answer of a crash
\* carries no such header.
FaultsAreTold ==
  \A r \in {x \in Requests : Answered(x) /\ answer[x].status # 500} :
    /\ answer[r].header \subseteq Asked(r)
    /\ r \in disturbed \/
       LET without(p) == answer[r].codigo \notin Documented(request[r], p)
       IN /\ {f \in Asked(r) : without(Asked(r) \ {f})} \subseteq answer[r].header
          /\ without({}) => answer[r].header # {}

\* A controlled answer says what was kept: an error leaves neither an attempt,
\* nor a passenger, nor a token that can be redeemed, though it may leave a
\* photograph or a revoked pass; a verdict has its attempt, EXITOSO its
\* identity; and the audit says ok exactly of what was committed.
RepliesMatchEffects ==
  \A r \in {x \in Requests : Answered(x) /\ answer[x].status # 500} :
    LET kept == effects[r]
        codigo == answer[r].codigo
        says(event) == << event, "ok" >> \in audit[r]
    IN /\ answer[r].status > 201 => kept \subseteq {"imagen", "revocada"}
       /\ "intento" \in kept <=> codigo \in Verdicts \cup {"NO_CONCLUYENTE"}
       /\ "identidad" \in kept <=> codigo = "EXITOSO"
       /\ codigo = "CREADO" => \/ {"token", "pase"} \subseteq kept
                               \/ {"imagen", "pasajero"} \subseteq kept
       /\ settings.hooks = "sanos" =>
            /\ says("credential.issue") <=> "pase" \in kept
            /\ says("identity.verification") <=> "intento" \in kept
=============================================================================
