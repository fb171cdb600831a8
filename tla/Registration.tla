--------------------------- MODULE Registration ---------------------------
(***************************************************************************)
(* POST /v1/identity: RegistrationService.register. Two reads in one       *)
(* transaction, the photo in Blob outside any transaction, then an INSERT  *)
(* that the unique indexes of pasajeros judge. Each statement of a READ    *)
(* COMMITTED transaction sees what is committed when it starts, so each is *)
(* a step. A request's name is the pasajero_id it would create.            *)
(***************************************************************************)
EXTENDS FiniteSets

CONSTANTS
  Requests,
  Accounts,     \* clerk_user_id
  Documents,    \* tipo and numero
  Nobody        \* no account, no document, no request

ASSUME NobodyAssumption == Nobody \notin Requests \cup Accounts \cup Documents

VARIABLES
  pc,
  who, doc,     \* what each request submits
  pasajeros,    \* ids of the committed rows
  blob,         \* ids under which a photo is stored
  cuenta,       \* holder of each entry of uq_pasajeros_clerk_user_id
  documento,    \* holder of each entry of uq_pasajeros_documento
  answer

vars == << pc, who, doc, pasajeros, blob, cuenta, documento, answer >>
index == << cuenta, documento >>

Init ==
  /\ pc = [r \in Requests |-> "start"]
  /\ who = [r \in Requests |-> Nobody]
  /\ doc = [r \in Requests |-> Nobody]
  /\ pasajeros = {}
  /\ blob = {}
  /\ cuenta = [a \in Accounts |-> Nobody]
  /\ documento = [d \in Documents |-> Nobody]
  /\ answer = [r \in Requests |-> "NINGUNO"]

-----------------------------------------------------------------------------
Goto(r, l) == pc' = [pc EXCEPT ![r] = l]
Say(r, codigo) == Goto(r, "done") /\ answer' = [answer EXCEPT ![r] = codigo]

\* The committed row of an account: get_by_clerk_user.
Own(a) == {p \in pasajeros : who[p] = a}

SameDocument(r) == \E p \in Own(who[r]) : doc[p] = doc[r]

\* _validate and validate_image pass.
Submit(r) ==
  /\ pc[r] = "start"
  /\ \E a \in Accounts, d \in Documents :
       who' = [who EXCEPT ![r] = a] /\ doc' = [doc EXCEPT ![r] = d]
  /\ Goto(r, "account")
  /\ UNCHANGED << pasajeros, blob, index, answer >>

\* First statement: the passenger of this account, if any.
CheckAccount(r) ==
  /\ pc[r] = "account"
  /\ CASE Own(who[r]) = {} -> Goto(r, "document") /\ UNCHANGED answer
       [] Own(who[r]) # {} /\ SameDocument(r) -> Say(r, "EXISTENTE")
       [] OTHER -> Say(r, "CUENTA_YA_REGISTRADA")
  /\ UNCHANGED << who, doc, pasajeros, blob, index >>

\* Second statement, with a snapshot of its own: the passenger of this document.
CheckDocument(r) ==
  /\ pc[r] = "document"
  /\ IF \E p \in pasajeros : doc[p] = doc[r]
     THEN Say(r, "DOCUMENTO_YA_REGISTRADO")
     ELSE Goto(r, "photo") /\ UNCHANGED answer
  /\ UNCHANGED << who, doc, pasajeros, blob, index >>

StorePhoto(r) ==
  /\ pc[r] = "photo"
  /\ blob' = blob \cup {r}
  /\ Goto(r, "insert")
  /\ UNCHANGED << who, doc, pasajeros, index, answer >>

\* MediaUnavailable; Blob may have stored it all the same.
StorePhotoFailed(r) ==
  /\ pc[r] = "photo"
  /\ blob' \in {blob, blob \cup {r}}
  /\ Say(r, "ALMACENAMIENTO_NO_DISPONIBLE")
  /\ UNCHANGED << who, doc, pasajeros, index >>

-----------------------------------------------------------------------------
(* INSERT INTO pasajeros: the entries are made index by index, in the      *)
(* order the migration creates them. An entry of a transaction still open  *)
(* is waited for; a committed one is a UniqueViolation.                    *)

\* Rolled back: the entries of r are gone.
Undo(r) ==
  /\ cuenta' = [a \in Accounts |-> IF cuenta[a] = r THEN Nobody ELSE cuenta[a]]
  /\ documento' = [d \in Documents |-> IF documento[d] = r THEN Nobody ELSE documento[d]]

\* Mutant of InsertAccount: no unique index on clerk_user_id.
InsertAccountFree(r) ==
  /\ pc[r] = "insert"
  /\ Goto(r, "insert_document") /\ cuenta' = [cuenta EXCEPT ![who[r]] = r]
  /\ UNCHANGED << who, doc, pasajeros, blob, documento, answer >>

InsertAccount(r) ==
  /\ pc[r] = "insert"
  /\ \/ /\ cuenta[who[r]] = Nobody
        /\ cuenta' = [cuenta EXCEPT ![who[r]] = r]
        /\ Goto(r, "insert_document")
     \/ /\ cuenta[who[r]] \in pasajeros
        /\ Goto(r, "resolve")
        /\ UNCHANGED cuenta
  /\ UNCHANGED << who, doc, pasajeros, blob, documento, answer >>

\* Mutant of InsertDocument: the losing transaction is never rolled back.
InsertDocumentLeaky(r) ==
  /\ pc[r] = "insert_document"
  /\ \/ /\ documento[doc[r]] = Nobody
        /\ documento' = [documento EXCEPT ![doc[r]] = r]
        /\ Goto(r, "commit")
     \/ /\ documento[doc[r]] \in pasajeros
        /\ Goto(r, "resolve")
        /\ UNCHANGED documento
  /\ UNCHANGED << who, doc, pasajeros, blob, cuenta, answer >>

InsertDocument(r) ==
  /\ pc[r] = "insert_document"
  /\ \/ /\ documento[doc[r]] = Nobody
        /\ documento' = [documento EXCEPT ![doc[r]] = r]
        /\ Goto(r, "commit")
        /\ UNCHANGED cuenta
     \/ /\ documento[doc[r]] \in pasajeros
        /\ Goto(r, "resolve")
        /\ Undo(r)
  /\ UNCHANGED << who, doc, pasajeros, blob, answer >>

Commit(r) ==
  /\ pc[r] = "commit"
  /\ pasajeros' = pasajeros \cup {r}
  /\ Say(r, "CREADO")
  /\ UNCHANGED << who, doc, blob, index >>

\* Mutant of ResolveRace: the account is not looked at again.
ResolveBlind(r) ==
  /\ pc[r] = "resolve"
  /\ IF Own(who[r]) # {} THEN Say(r, "EXISTENTE") ELSE Say(r, "DOCUMENTO_YA_REGISTRADO")
  /\ UNCHANGED << who, doc, pasajeros, blob, index >>

\* _resolve_race: a concurrent request won.
ResolveRace(r) ==
  /\ pc[r] = "resolve"
  /\ CASE SameDocument(r) -> Say(r, "EXISTENTE")
       [] ~SameDocument(r) /\ Own(who[r]) # {} -> Say(r, "CUENTA_YA_REGISTRADA")
       [] OTHER -> Say(r, "DOCUMENTO_YA_REGISTRADO")
  /\ UNCHANGED << who, doc, pasajeros, blob, index >>

\* The function is killed; a COMMIT whose reply is lost has taken effect.
Crash(r) ==
  /\ pc[r] \notin {"start", "done"}
  /\ \/ Undo(r) /\ UNCHANGED pasajeros
     \/ pc[r] = "commit" /\ pasajeros' = pasajeros \cup {r} /\ UNCHANGED index
  /\ Say(r, "ERROR")
  /\ UNCHANGED << who, doc, blob >>

Register(r) ==
  \/ Submit(r) \/ CheckAccount(r) \/ CheckDocument(r) \/ StorePhoto(r)
  \/ StorePhotoFailed(r) \/ InsertAccount(r) \/ InsertDocument(r)
  \/ Commit(r) \/ ResolveRace(r)

Next == \E r \in Requests : Register(r) \/ Crash(r)

\* A request that has arrived is driven on by the event loop; a passenger who
\* got no row submits again only by another request.
Fairness == \A r \in Requests : WF_vars(pc[r] # "start" /\ Register(r))

Spec == Init /\ [][Next]_vars /\ Fairness

-----------------------------------------------------------------------------
(* Correctness. *)

Codigos == {"NINGUNO", "CREADO", "EXISTENTE", "CUENTA_YA_REGISTRADA", "ERROR",
            "DOCUMENTO_YA_REGISTRADO", "ALMACENAMIENTO_NO_DISPONIBLE"}

\* Every variable keeps its type, and an open transaction holds its entries.
TypeOK ==
  /\ pc \in [Requests -> {"start", "account", "document", "photo", "insert",
                          "insert_document", "commit", "resolve", "done"}]
  /\ who \in [Requests -> Accounts \cup {Nobody}]
  /\ doc \in [Requests -> Documents \cup {Nobody}]
  /\ pasajeros \subseteq Requests
  /\ blob \subseteq Requests
  /\ cuenta \in [Accounts -> Requests \cup {Nobody}]
  /\ documento \in [Documents -> Requests \cup {Nobody}]
  /\ answer \in [Requests -> Codigos]
  /\ \A r \in Requests :
       /\ pc[r] \in {"insert_document", "commit"} => cuenta[who[r]] = r
       /\ pc[r] = "commit" => documento[doc[r]] = r

\* FR-004: an account is one passenger and a document is one passenger, no
\* matter how many submissions passed both reads, and every row has its photo.
OnePassengerEach ==
  /\ \A p, q \in pasajeros : who[p] = who[q] \/ doc[p] = doc[q] => p = q
  /\ pasajeros \subseteq blob

\* What a request was told of the register is so: CREADO and EXISTENTE mean a
\* row of that account with that document, CUENTA_YA_REGISTRADA one with
\* another document, DOCUMENTO_YA_REGISTRADO a row with the document; and only
\* the request that made the row is told CREADO.
AnswersAreTrue ==
  \A r \in Requests :
    /\ answer[r] = "CREADO" => r \in pasajeros
    /\ answer[r] = "EXISTENTE" => SameDocument(r) /\ r \notin pasajeros
    /\ answer[r] = "CUENTA_YA_REGISTRADA" => Own(who[r]) # {} /\ ~SameDocument(r)
    /\ answer[r] = "DOCUMENTO_YA_REGISTRADO" => \E p \in pasajeros : doc[p] = doc[r]

\* FR-004: "a resubmission from the same account returns the existing
\* passenger"; only a document of another account is refused as taken.
ResubmissionReturnsPassenger ==
  \A r \in Requests :
    answer[r] = "DOCUMENTO_YA_REGISTRADO" =>
      \E p \in pasajeros : doc[p] = doc[r] /\ who[p] # who[r]

\* Whoever waits on another's index entry is answered in the end.
SubmissionsAreAnswered ==
  \A r \in Requests : pc[r] \notin {"start", "done"} ~> pc[r] = "done"
===========================================================================
