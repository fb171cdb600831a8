--------------------------- MODULE MCApiRequests ---------------------------
(* Constants of the run of ApiRequests. *)
EXTENDS ApiRequests

Fault(name) == [name |-> name, value |-> ""]
Good == [http |-> "200", liveness |-> "alta", match |-> "si"]

Ask(op, user, header) ==
  [op |-> op, user |-> user, document |-> "propio", image |-> "valida", face |-> Good,
   header |-> header, key |-> TRUE]

\* Who may ask for what: every operation as every user.
Plain == {Ask(op, user, {}) : op \in Operations, user \in Users}

\* Every fault by itself, and some together, where they can be met.
Faulty ==
  {Ask(op, user, {Fault(f)}) :
     op \in {"verificar", "emitir", "registrar", "salud", "despachar"},
     user \in {"desconocido", "pasajero", "titular"}, f \in Known}
  \cup {Ask(op, user, h) :
     op \in {"verificar", "emitir", "salud"}, user \in {"pasajero", "titular"},
     h \in {{Fault("db_down"), Fault("redis_down")},
            {Fault("redis_down"), Fault("signing_down")},
            {Fault("mxface_down"), Fault("redis_down"), Fault("slow")},
            {Fault("teleport"), Fault("blob_down")},
            {[name |-> "mxface_slow", value |-> "corta"]},
            {[name |-> "mxface_slow", value |-> "mal"]}}}
  \cup {[Ask("emitir", "titular", {Fault("redis_down")}) EXCEPT !.key = FALSE]}

\* Documents of another account, photographs no one accepts, and everything a
\* provider may answer.
Odd ==
  {[Ask("registrar", user, h) EXCEPT !.document = "ajeno"] :
     user \in {"desconocido", "pasajero"}, h \in {{}, {Fault("db_down")}, {Fault("blob_down")}}}
  \cup
  {[Ask(op, user, {}) EXCEPT !.image = i] :
     op \in {"registrar", "verificar"}, user \in {"desconocido", "pasajero", "titular"},
     i \in Images}
  \cup {[Ask("verificar", "pasajero", {}) EXCEPT !.face = f] : f \in Faces}

\* The request beside it.
Beside == {Ask("verificar", "pasajero", {Fault("mxface_down")}),
           Ask("verificar", "pasajero", {}),
           Ask("emitir", "titular", {Fault("redis_down")})}

CONSTANTS r1, r2
IncomingHere == [r \in Requests |-> IF r = r1 THEN Plain \cup Faulty \cup Odd ELSE Beside]

Deployment(adapters, provider) ==
  [adapters |-> adapters, provider |-> provider, faults |-> TRUE, secret |-> FALSE,
   production |-> FALSE, hooks |-> "sanos"]

DeploymentsHere ==
  {Deployment("fake", "mock"), Deployment("real", "vision"),
   [Deployment("real", "mxface") EXCEPT !.secret = TRUE],
   [Deployment("real", "mxface") EXCEPT !.faults = FALSE, !.production = TRUE, !.hooks = "rotos"],
   [Deployment("real", "mxface") EXCEPT !.production = TRUE]}
=============================================================================
