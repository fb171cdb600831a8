------------------------ MODULE RegistrationProofs ------------------------
(***************************************************************************)
(* What Registration guarantees for any number of submissions, accounts    *)
(* and documents. The unique indexes are the whole argument: an entry      *)
(* belongs to an open transaction or to a committed row, never to both.    *)
(***************************************************************************)
EXTENDS Registration, TLAPS

\* An entry names a request that submitted its key, and only a transaction
\* still open or a committed row has one.
EntriesOK ==
  /\ \A a \in Accounts : cuenta[a] # Nobody =>
       /\ who[cuenta[a]] = a
       /\ cuenta[a] \in pasajeros \/ pc[cuenta[a]] \in {"insert_document", "commit"}
  /\ \A d \in Documents : documento[d] # Nobody =>
       /\ doc[documento[d]] = d
       /\ documento[d] \in pasajeros \/ pc[documento[d]] = "commit"

\* A committed row holds both its entries and has its photo, and its request
\* has ended.
RowsOK ==
  \A p \in pasajeros :
    /\ pc[p] = "done" /\ answer[p] \in {"CREADO", "ERROR"}
    /\ who[p] \in Accounts /\ cuenta[who[p]] = p
    /\ doc[p] \in Documents /\ documento[doc[p]] = p
    /\ p \in blob

\* A row with the account or the document of r.
Taken(r) == \E p \in pasajeros : who[p] = who[r] \/ doc[p] = doc[r]

AnswerOK(r) ==
  /\ answer[r] = "CREADO" => r \in pasajeros
  /\ answer[r] = "EXISTENTE" => SameDocument(r) /\ r \notin pasajeros
  /\ answer[r] = "CUENTA_YA_REGISTRADA" => Own(who[r]) # {} /\ ~SameDocument(r)
  /\ answer[r] = "DOCUMENTO_YA_REGISTRADO" => \E p \in pasajeros : doc[p] = doc[r]

\* Where a request stands: what it submitted, that its photo precedes its row,
\* and that it loses the race only to a committed row.
RequestOK(r) ==
  /\ pc[r] # "start" => who[r] \in Accounts /\ doc[r] \in Documents
  /\ pc[r] # "done" => answer[r] = "NINGUNO"
  /\ pc[r] \in {"insert", "insert_document", "commit", "resolve"} => r \in blob
  /\ pc[r] = "resolve" => Taken(r)
  /\ AnswerOK(r)

IInv ==
  /\ TypeOK
  /\ EntriesOK
  /\ RowsOK
  /\ \A r \in Requests : RequestOK(r)

-----------------------------------------------------------------------------
(* The rows and the steps of other requests.                               *)

\* A step of r: the rest of the requests stay, and what was submitted is not
\* changed under a committed row.
StepOf(r) ==
  /\ \A q \in Requests \ {r} : /\ pc'[q] = pc[q]
                               /\ who'[q] = who[q] /\ doc'[q] = doc[q]
                               /\ answer'[q] = answer[q]
  /\ blob \subseteq blob'
  /\ pasajeros \subseteq pasajeros' /\ pasajeros' \subseteq pasajeros \cup {r}
  /\ r \in pasajeros' => who'[r] = who[r] /\ doc'[r] = doc[r]

\* Rows are only added, so what a request was told of them stays so.
LEMMA AnswersAreKept ==
  ASSUME IInv, NEW r \in Requests, StepOf(r), RowsOK', NEW q \in Requests,
         who'[q] = who[q], doc'[q] = doc[q], answer'[q] = answer[q], q # r
  PROVE  AnswerOK(q)'
  <1>1. /\ pasajeros \subseteq Requests /\ AnswerOK(q)
        /\ \A p \in pasajeros : /\ p \in pasajeros'
                               /\ who'[p] = who[p] /\ doc'[p] = doc[p]
    BY DEF IInv, TypeOK, RequestOK, StepOf
  <1>2. Own(who[q]) \subseteq Own(who[q])'
    BY <1>1 DEF Own
  <1>3. SameDocument(q) => SameDocument(q)'
    BY <1>1 DEF SameDocument, Own
  <1>4. Own(who[q]) # {} /\ ~SameDocument(q) => ~SameDocument(q)'
    <2> SUFFICES ASSUME NEW p \in Own(who[q]), doc[p] # doc[q]
                 PROVE  ~SameDocument(q)'
      BY DEF SameDocument
    <2>1. p \in pasajeros' /\ who'[p] = who'[q] /\ doc'[p] # doc'[q]
      BY <1>1 DEF Own
    <2>2. OnePassengerEach'
      BY DEF RowsOK, OnePassengerEach
    <2> QED
      BY <2>1, <2>2 DEF OnePassengerEach, Own, SameDocument
  <1>5. q \notin pasajeros => q \notin pasajeros'
    BY DEF StepOf
  <1> QED
    BY <1>1, <1>2, <1>3, <1>4, <1>5 DEF AnswerOK, Own

LEMMA OthersAreKept ==
  ASSUME IInv, NEW r \in Requests, StepOf(r), RowsOK', NEW q \in Requests \ {r}
  PROVE  RequestOK(q)'
  <1>1. AnswerOK(q)'
    BY AnswersAreKept DEF StepOf
  <1>2. Taken(q) => Taken(q)'
    BY DEF Taken, StepOf, IInv, TypeOK
  <1> QED
    BY <1>1, <1>2 DEF IInv, RequestOK, StepOf

LEMMA OneRequestStep ==
  ASSUME IInv, NEW r \in Requests, StepOf(r),
         TypeOK', EntriesOK', RowsOK', RequestOK(r)'
  PROVE  IInv'
  BY OthersAreKept DEF IInv

\* A step that leaves the table and its indexes alone, of a request without
\* entries.
LEMMA QuietStep ==
  ASSUME IInv, NEW r \in Requests, StepOf(r), UNCHANGED << pasajeros, index >>,
         pc[r] \notin {"insert_document", "commit", "done"}, TypeOK', RequestOK(r)'
  PROVE  IInv'
  <1>1. r \notin pasajeros
    BY DEF IInv, RowsOK
  <1>2. EntriesOK'
    BY <1>1, NobodyAssumption DEF IInv, EntriesOK, StepOf, TypeOK, index
  <1>3. RowsOK'
    BY <1>1 DEF IInv, RowsOK, StepOf, TypeOK, index
  <1> QED
    BY <1>2, <1>3, OneRequestStep

-----------------------------------------------------------------------------
(* Before the INSERT, and after losing the race: nothing is written to the *)
(* table or its indexes.                                                   *)

LEMMA ReadsKeep ==
  ASSUME IInv, NEW r \in Requests,
         Submit(r) \/ CheckAccount(r) \/ CheckDocument(r) \/ ResolveRace(r)
  PROVE  IInv'
  <1>1. /\ UNCHANGED << pasajeros, blob, cuenta, documento >>
        /\ pc[r] \in {"start", "account", "document", "resolve"}
    BY DEF Submit, CheckAccount, CheckDocument, ResolveRace, index
  <1>2. r \notin pasajeros
    BY <1>1 DEF IInv, RowsOK
  <1>3. CASE Submit(r)
    <2>1. StepOf(r) /\ TypeOK' /\ RequestOK(r)'
      BY <1>1, <1>2, <1>3
         DEF Submit, Goto, StepOf, IInv, TypeOK, RequestOK, AnswerOK
    <2> QED
      BY <2>1, <1>1, QuietStep DEF index
  <1>4. CASE ~Submit(r)
    <2>1. /\ UNCHANGED << who, doc >>
          /\ StepOf(r) /\ TypeOK'
      BY <1>1, <1>4
         DEF CheckAccount, CheckDocument, ResolveRace, Goto, Say, StepOf, IInv, TypeOK, Codigos
    <2>2. AnswerOK(r)'
      <3>1. Own(who[r])' = Own(who[r]) /\ SameDocument(r)' = SameDocument(r)
        BY <1>1, <2>1 DEF Own, SameDocument
      <3>2. CASE CheckAccount(r)
        BY <3>1, <3>2, <1>1, <1>2, <2>1
           DEF CheckAccount, Say, Goto, IInv, TypeOK, RequestOK, AnswerOK, Own
      <3>3. CASE CheckDocument(r)
        BY <3>1, <3>3, <1>1, <1>2, <2>1
           DEF CheckDocument, Say, Goto, IInv, TypeOK, RequestOK, AnswerOK, Own
      <3>4. CASE ResolveRace(r)
        BY <3>1, <3>4, <1>1, <1>2, <2>1
           DEF ResolveRace, Say, Goto, IInv, TypeOK, RequestOK, AnswerOK, Own, Taken
      <3> QED
        BY <3>2, <3>3, <3>4, <1>4
    <2>3. RequestOK(r)'
      BY <2>1, <2>2, <1>1, <1>4
         DEF CheckAccount, CheckDocument, ResolveRace, Goto, Say, IInv, TypeOK, RequestOK
    <2> QED
      BY <2>1, <2>3, <1>1, QuietStep DEF index
  <1> QED
    BY <1>3, <1>4

LEMMA PhotoKeeps ==
  ASSUME IInv, NEW r \in Requests, StorePhoto(r) \/ StorePhotoFailed(r)
  PROVE  IInv'
  <1>1. /\ UNCHANGED << who, doc, pasajeros, index >>
        /\ pc[r] = "photo" /\ StepOf(r) /\ TypeOK' /\ RequestOK(r)'
    BY DEF StorePhoto, StorePhotoFailed, Goto, Say, StepOf, IInv, TypeOK, Codigos,
           RequestOK, AnswerOK, index
  <1> QED
    BY <1>1, QuietStep

-----------------------------------------------------------------------------
(* The INSERT.                                                             *)

LEMMA InsertAccountKeeps ==
  ASSUME IInv, NEW r \in Requests, InsertAccount(r)
  PROVE  IInv'
  <1> DEFINE a == who[r]
  <1>1. /\ pc[r] = "insert" /\ r \notin pasajeros /\ a \in Accounts /\ doc[r] \in Documents
        /\ UNCHANGED << who, doc, pasajeros, blob, documento, answer >>
    BY DEF InsertAccount, IInv, RowsOK, RequestOK
  <1>2. CASE cuenta[a] \in pasajeros /\ Goto(r, "resolve") /\ UNCHANGED cuenta
    <2>1. Taken(r) /\ Taken(r)'
      BY <1>1, <1>2, NobodyAssumption DEF Taken, IInv, EntriesOK, TypeOK
    <2>2. StepOf(r) /\ TypeOK' /\ RequestOK(r)'
      BY <1>1, <1>2, <2>1
         DEF Goto, StepOf, IInv, TypeOK, RequestOK, AnswerOK, Own, SameDocument
    <2> QED
      BY <1>1, <1>2, <2>2, QuietStep DEF index
  <1>3. CASE /\ cuenta[a] = Nobody /\ cuenta' = [cuenta EXCEPT ![a] = r]
             /\ Goto(r, "insert_document")
    <2>1. StepOf(r) /\ TypeOK'
      BY <1>1, <1>3, NobodyAssumption DEF Goto, StepOf, IInv, TypeOK
    <2>2. RequestOK(r)'
      BY <1>1, <1>3, <2>1
         DEF Goto, IInv, TypeOK, RequestOK, AnswerOK, Own, SameDocument
    <2>3. EntriesOK'
      BY <1>1, <1>3, NobodyAssumption DEF Goto, IInv, TypeOK, EntriesOK
    <2>4. RowsOK'
      BY <1>1, <1>3, NobodyAssumption DEF Goto, IInv, TypeOK, RowsOK
    <2> QED
      BY <2>1, <2>2, <2>3, <2>4, OneRequestStep
  <1> QED
    BY <1>2, <1>3 DEF InsertAccount

\* A rollback takes back the entries of r and of nobody else.
LEMMA UndoKeepsTheRest ==
  ASSUME IInv, NEW r \in Requests, r \notin pasajeros, Undo(r), StepOf(r),
         UNCHANGED << who, doc, pasajeros >>
  PROVE  /\ cuenta' \in [Accounts -> Requests \cup {Nobody}]
         /\ documento' \in [Documents -> Requests \cup {Nobody}]
         /\ \A q \in Requests \ {r} :
              /\ pc[q] \in {"insert_document", "commit"} => cuenta'[who[q]] = q
              /\ pc[q] = "commit" => documento'[doc[q]] = q
         /\ EntriesOK'
         /\ RowsOK'
  <1>1. TypeOK /\ EntriesOK /\ RowsOK /\ \A q \in Requests : RequestOK(q)
    BY DEF IInv
  <1>2. /\ cuenta' \in [Accounts -> Requests \cup {Nobody}]
        /\ documento' \in [Documents -> Requests \cup {Nobody}]
    BY <1>1 DEF Undo, TypeOK
  <1>3. ASSUME NEW q \in Requests \ {r}
        PROVE  /\ pc[q] \in {"insert_document", "commit"} => cuenta'[who[q]] = q
               /\ pc[q] = "commit" => documento'[doc[q]] = q
    BY <1>1 DEF Undo, TypeOK, RequestOK
  <1>4. EntriesOK'
    BY <1>1, NobodyAssumption DEF Undo, TypeOK, EntriesOK, StepOf
  <1>5. RowsOK'
    BY <1>1 DEF Undo, TypeOK, RowsOK, StepOf
  <1> QED
    BY <1>2, <1>3, <1>4, <1>5

LEMMA InsertDocumentKeeps ==
  ASSUME IInv, NEW r \in Requests, InsertDocument(r)
  PROVE  IInv'
  <1> DEFINE d == doc[r]
  <1>1. /\ pc[r] = "insert_document" /\ r \notin pasajeros
        /\ who[r] \in Accounts /\ d \in Documents
        /\ UNCHANGED << who, doc, pasajeros, blob, answer >>
    BY DEF InsertDocument, IInv, RowsOK, RequestOK
  <1>2. CASE documento[d] \in pasajeros /\ Goto(r, "resolve") /\ Undo(r)
    <2>1. Taken(r)'
      BY <1>1, <1>2, NobodyAssumption DEF Taken, IInv, EntriesOK, TypeOK
    <2>2. StepOf(r)
      BY <1>1, <1>2 DEF Goto, StepOf, IInv, TypeOK
    <2>3. RequestOK(r)'
      BY <1>1, <1>2, <2>1
         DEF Goto, IInv, TypeOK, RequestOK, AnswerOK, Own, SameDocument
    <2>4. EntriesOK' /\ RowsOK'
      BY <1>1, <1>2, <2>2, UndoKeepsTheRest
    <2>5. TypeOK'
      BY <1>1, <1>2, <2>2, UndoKeepsTheRest DEF Goto, IInv, TypeOK
    <2> QED
      BY <2>2, <2>3, <2>4, <2>5, OneRequestStep
  <1>3. CASE /\ documento[d] = Nobody /\ documento' = [documento EXCEPT ![d] = r]
             /\ Goto(r, "commit") /\ UNCHANGED cuenta
    <2>1. StepOf(r) /\ TypeOK'
      BY <1>1, <1>3, NobodyAssumption DEF Goto, StepOf, IInv, TypeOK
    <2>2. RequestOK(r)'
      BY <1>1, <1>3, <2>1
         DEF Goto, IInv, TypeOK, RequestOK, AnswerOK, Own, SameDocument
    <2>3. EntriesOK'
      BY <1>1, <1>3, NobodyAssumption DEF Goto, IInv, TypeOK, EntriesOK
    <2>4. RowsOK'
      BY <1>1, <1>3, NobodyAssumption DEF Goto, IInv, TypeOK, RowsOK
    <2> QED
      BY <2>1, <2>2, <2>3, <2>4, OneRequestStep
  <1> QED
    BY <1>2, <1>3 DEF InsertDocument

-----------------------------------------------------------------------------
(* The end of a request.                                                   *)

\* The row becomes visible, whatever the request is told.
LEMMA RowKeeps ==
  ASSUME IInv, NEW r \in Requests, pc[r] = "commit",
         pasajeros' = pasajeros \cup {r}, NEW c \in {"CREADO", "ERROR"}, Say(r, c),
         UNCHANGED << who, doc, blob, index >>
  PROVE  IInv'
  <1>1. StepOf(r) /\ TypeOK'
    BY DEF Say, Goto, StepOf, IInv, TypeOK, Codigos, index
  <1>2. RowsOK'
    BY <1>1 DEF Say, Goto, StepOf, IInv, TypeOK, RequestOK, RowsOK, index
  <1>3. EntriesOK'
    BY <1>1, NobodyAssumption DEF StepOf, IInv, TypeOK, EntriesOK, index
  <1>4. RequestOK(r)'
    BY DEF Say, Goto, IInv, TypeOK, RequestOK, AnswerOK
  <1> QED
    BY <1>1, <1>2, <1>3, <1>4, OneRequestStep

LEMMA CrashKeeps ==
  ASSUME IInv, NEW r \in Requests, Crash(r)
  PROVE  IInv'
  <1>1. CASE pc[r] = "commit" /\ pasajeros' = pasajeros \cup {r} /\ UNCHANGED index
    BY <1>1, RowKeeps DEF Crash
  <1>2. CASE Undo(r) /\ UNCHANGED pasajeros
    <2>1. r \notin pasajeros
      BY DEF Crash, IInv, RowsOK
    <2>2. StepOf(r)
      BY <1>2, <2>1 DEF Crash, Say, Goto, StepOf, IInv, TypeOK
    <2>3. EntriesOK' /\ RowsOK'
      BY <1>2, <2>1, <2>2, UndoKeepsTheRest DEF Crash
    <2>4. TypeOK'
      BY <1>2, <2>1, <2>2, UndoKeepsTheRest DEF Crash, Say, Goto, IInv, TypeOK, Codigos
    <2>5. RequestOK(r)'
      BY <1>2 DEF Crash, Say, Goto, IInv, TypeOK, RequestOK, AnswerOK
    <2> QED
      BY <2>2, <2>3, <2>4, <2>5, OneRequestStep
  <1> QED
    BY <1>1, <1>2 DEF Crash

-----------------------------------------------------------------------------
LEMMA InitEstablishes == Init => IInv
  BY NobodyAssumption
     DEF Init, IInv, TypeOK, Codigos, EntriesOK, RowsOK, RequestOK, AnswerOK

LEMMA NextKeeps == IInv /\ [Next]_vars => IInv'
  <1> SUFFICES ASSUME IInv, [Next]_vars PROVE IInv'
    OBVIOUS
  <1>1. ASSUME NEW r \in Requests, Register(r)
        PROVE  IInv'
    <2>1. CASE Submit(r) \/ CheckAccount(r) \/ CheckDocument(r) \/ ResolveRace(r)
      BY <2>1, ReadsKeep
    <2>2. CASE StorePhoto(r) \/ StorePhotoFailed(r)
      BY <2>2, PhotoKeeps
    <2>3. CASE InsertAccount(r)
      BY <2>3, InsertAccountKeeps
    <2>4. CASE InsertDocument(r)
      BY <2>4, InsertDocumentKeeps
    <2>5. CASE Commit(r)
      BY <2>5, RowKeeps DEF Commit
    <2> QED
      BY <1>1, <2>1, <2>2, <2>3, <2>4, <2>5 DEF Register
  <1>2. ASSUME NEW r \in Requests, Crash(r)
        PROVE  IInv'
    BY <1>2, CrashKeeps
  <1>3. CASE UNCHANGED vars
    BY <1>3 DEF vars, IInv, TypeOK, EntriesOK, RowsOK, RequestOK, AnswerOK, Taken,
                SameDocument, Own
  <1> QED
    BY <1>1, <1>2, <1>3 DEF Next

\* The inductive invariant holds in every reachable state.
THEOREM Invariance == Spec => []IInv
  BY InitEstablishes, NextKeeps, PTL DEF Spec

\* Every variable keeps its type, and an open transaction holds its entries.
THEOREM TypeCorrect == Spec => []TypeOK
  <1>1. IInv => TypeOK
    BY DEF IInv
  <1> QED
    BY <1>1, Invariance, PTL

\* FR-004: however many submissions passed both reads at once, an account is
\* one passenger, a document is one passenger, and a row never precedes its
\* photo. Two rows with one key would be two holders of one index entry.
THEOREM OnePassengerEachHolds == Spec => []OnePassengerEach
  <1>1. IInv => OnePassengerEach
    BY DEF IInv, RowsOK, OnePassengerEach
  <1> QED
    BY <1>1, Invariance, PTL

\* What a request was told of the register stays true of it: rows are only
\* added, and never a second one for an account.
THEOREM AnswersAreTrueHolds == Spec => []AnswersAreTrue
  <1>1. IInv => AnswersAreTrue
    BY DEF IInv, RequestOK, AnswerOK, AnswersAreTrue
  <1> QED
    BY <1>1, Invariance, PTL
=============================================================================
