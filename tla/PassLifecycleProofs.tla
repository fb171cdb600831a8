------------------------ MODULE PassLifecycleProofs ------------------------
(***************************************************************************)
(* What PassLifecycle guarantees for any number of requests, passengers    *)
(* and flights. The argument has two halves: what a transition does to a   *)
(* credential (CredentialDomain), and who may write a credential while     *)
(* (the locks).                                                            *)
(***************************************************************************)
EXTENDS PassLifecycle, TLAPS

Actors == Consumers \cup {Sistema}

-----------------------------------------------------------------------------
(* One credential. *)

\* The history explains the estado and holds at most one redemption: one when
\* the estado is CONSUMIDA, for good, and none otherwise.
GoodRow(c) ==
  /\ c \in Row
  /\ Explains(c.hist, c.estado)
  /\ \A k \in 1 .. Len(c.hist) : Redemption(c.hist[k]) => c.estado = "CONSUMIDA"
  /\ c.estado = "CONSUMIDA" => \E k \in 1 .. Len(c.hist) : Redemption(c.hist[k])
  /\ \A k, l \in 1 .. Len(c.hist) :
       Redemption(c.hist[k]) /\ Redemption(c.hist[l]) => k = l

\* d is c after some transitions, accepted or not.
Grows(c, d) ==
  /\ Extends(c.hist, d.hist)
  /\ d.expira = c.expira
  /\ c.estado \in Finales => d.estado = c.estado
  /\ d.estado = "EMITIDA" => c.estado = "EMITIDA"

\* The transition table of the State classes is the documented one (FR-019).
LEMMA AllowedIsLegal ==
  ASSUME NEW e \in Estados, NEW a \in Estados
  PROVE  CanTransitionTo(e, a) <=> << e, a >> \in Legal
  BY DEF CanTransitionTo, Allowed, Legal, Estados

\* Final states allow nothing.
LEMMA FinalAllowsNothing ==
  ASSUME NEW e \in Finales
  PROVE  Allowed(e) = {} /\ e \in Estados
  BY DEF Allowed, Finales, Estados

\* NoRow is not a row of the table.
LEMMA NoRowIsNoRow == NoRow \notin Row
  BY DEF NoRow, Row, Estados

LEMMA GrowsReflexive ==
  ASSUME NEW c, GoodRow(c)
  PROVE  Grows(c, c)
  BY DEF Grows, Extends, GoodRow, Row

LEMMA GrowsTransitive ==
  ASSUME NEW c, NEW d, NEW e, GoodRow(c), GoodRow(d), GoodRow(e), Grows(c, d), Grows(d, e)
  PROVE  Grows(c, e)
  <1>1. Len(c.hist) \in Nat /\ Len(d.hist) \in Nat /\ Len(e.hist) \in Nat
    BY DEF GoodRow, Row
  <1>2. Extends(c.hist, e.hist)
    BY <1>1 DEF Grows, Extends
  <1> QED
    BY <1>2 DEF Grows

\* Appending an entry that starts at the estado of c, and is accepted exactly
\* when it is legal, keeps a credential good and only adds to its history.
LEMMA AppendGood ==
  ASSUME NEW c, GoodRow(c), NEW t \in Entry, NEW d \in Row,
         d.hist = Append(c.hist, t),
         d.expira = c.expira,
         d.estado = Despues(t),
         t.de = c.estado,
         t.a # "EMITIDA",
         t.aceptada <=> << t.de, t.a >> \in Legal
  PROVE  GoodRow(d) /\ Grows(c, d)
  <1> DEFINE n == Len(c.hist)
  <1>1. /\ c \in Row /\ c.estado \in Estados /\ c.hist \in Seq(Entry) /\ n \in Nat
        /\ Explains(c.hist, c.estado) /\ n > 0
    <2>1. c \in Row /\ Explains(c.hist, c.estado)
      BY DEF GoodRow
    <2> QED
      BY <2>1 DEF Row, Explains
  <1>2. /\ Len(d.hist) = n + 1 /\ d.hist[n + 1] = t
        /\ \A k \in 1 .. n : d.hist[k] = c.hist[k]
    BY <1>1
  <1>3. c.estado \in Finales => ~t.aceptada
    BY DEF Finales, Legal
  <1>4. Explains(d.hist, d.estado)
    <2>1. Len(d.hist) > 0 /\ d.hist[1] = c.hist[1]
      BY <1>1, <1>2
    <2>2. ASSUME NEW k \in 2 .. Len(d.hist)
          PROVE  Follows(d.hist[k - 1], d.hist[k])
      <3>1. CASE k \in 2 .. n
        <4>1. d.hist[k] = c.hist[k] /\ d.hist[k - 1] = c.hist[k - 1]
          BY <3>1, <1>1, <1>2
        <4> QED
          BY <4>1, <3>1, <1>1 DEF Explains
      <3>2. CASE k = n + 1
        <4>1. d.hist[k] = t /\ d.hist[k - 1] = c.hist[n]
          BY <3>2, <1>1, <1>2
        <4>2. t.de = Despues(c.hist[n])
          BY <1>1 DEF Explains
        <4>3. Follows(c.hist[n], t)
          BY <4>2, Zenon DEF Follows
        <4> QED
          BY <4>1, <4>3
      <3> QED
        BY <3>1, <3>2, <1>1, <1>2
    <2> QED
      BY <2>1, <2>2, <1>1, <1>2 DEF Explains
  <1>5. \A k \in 1 .. n : Redemption(c.hist[k]) => d.estado = "CONSUMIDA" /\ ~t.aceptada
    BY <1>1, <1>3 DEF GoodRow, Finales, Despues
  <1>6. Redemption(t) => d.estado = "CONSUMIDA" /\ t.aceptada
    BY DEF Redemption, Despues
  <1>7. \A k \in 1 .. Len(d.hist) : k \in 1 .. n \/ k = n + 1
    BY <1>1, <1>2
  <1>8. \A k \in 1 .. Len(d.hist) : Redemption(d.hist[k]) => d.estado = "CONSUMIDA"
    BY <1>2, <1>5, <1>6, <1>7
  <1>9. \A k, l \in 1 .. Len(d.hist) :
          Redemption(d.hist[k]) /\ Redemption(d.hist[l]) => k = l
    BY <1>2, <1>5, <1>6, <1>7 DEF GoodRow
  <1>10. GoodRow(d)
    <2>1. ASSUME d.estado = "CONSUMIDA"
          PROVE  \E k \in 1 .. Len(d.hist) : Redemption(d.hist[k])
      <3>1. CASE t.aceptada
        <4>1. Redemption(d.hist[n + 1]) /\ n + 1 \in 1 .. Len(d.hist)
          BY <1>1, <1>2, <2>1, <3>1 DEF Redemption, Despues
        <4> QED
          BY <4>1
      <3>2. CASE ~t.aceptada
        <4>1. c.estado = "CONSUMIDA"
          BY <2>1, <3>2 DEF Despues
        <4>2. PICK k \in 1 .. n : Redemption(c.hist[k])
          BY <4>1 DEF GoodRow
        <4>3. k \in 1 .. Len(d.hist) /\ Redemption(d.hist[k])
          BY <1>1, <1>2, <4>2
        <4> QED
          BY <4>3
      <3> QED
        BY <3>1, <3>2
    <2> QED
      BY <1>4, <1>8, <1>9, <2>1 DEF GoodRow
  <1>11. Grows(c, d)
    BY <1>1, <1>2, <1>3 DEF Grows, Extends, Despues
  <1> QED
    BY <1>10, <1>11

\* A transition, accepted or rejected, keeps a credential good and only adds to
\* its history, and no transition leaves EMITIDA where it was but a consumption.
LEMMA TransitionGood ==
  ASSUME NEW c, GoodRow(c), NEW a \in Estados \ {"EMITIDA"}, NEW por \in Actors,
         NEW d, d = Transition(c, a, por)
  PROVE  /\ GoodRow(d)
         /\ Grows(c, d)
         /\ Len(d.hist) = Len(c.hist) + 1
         /\ d.hist[Len(d.hist)].a = a
         /\ d.hist[Len(d.hist)].por = por
         /\ c.estado = "EMITIDA" /\ a # "CONSUMIDA" => d.estado = a
  <1>0. PICK ok \in BOOLEAN : ok <=> CanTransitionTo(c.estado, a)
    BY DEF CanTransitionTo
  <1>1. PICK t : t = Transicion(c.estado, a, ok, por)
    OBVIOUS
  <1>2. /\ c \in Row /\ c.estado \in Estados /\ c.hist \in Seq(Entry)
        /\ c.expira \in Nat /\ Len(c.hist) \in Nat
    BY DEF GoodRow, Row
  <1>3. /\ t = [de |-> c.estado, a |-> a, aceptada |-> ok, por |-> por]
        /\ t \in Entry
    BY <1>1, <1>2 DEF Transicion, Entry, Actors
  <1>4. d = [c EXCEPT !.estado = IF ok THEN a ELSE c.estado, !.hist = Append(c.hist, t)]
    <2>1. Transicion(c.estado, a, CanTransitionTo(c.estado, a), por) = t
      BY <1>0, <1>1, CanTransitionTo(c.estado, a) \in BOOLEAN DEF CanTransitionTo
    <2> QED
      BY <1>0, <2>1, Zenon DEF Transition
  <1>5. d = [estado |-> IF ok THEN a ELSE c.estado, expira |-> c.expira,
             hist |-> Append(c.hist, t)]
    BY <1>2, <1>4 DEF Row
  <1>6. d \in Row
    BY <1>2, <1>3, <1>5 DEF Row
  <1>7. t.aceptada <=> << t.de, t.a >> \in Legal
    BY <1>0, <1>2, <1>3, AllowedIsLegal
  <1>8. d.estado = Despues(t) /\ d.hist = Append(c.hist, t) /\ d.expira = c.expira
    BY <1>3, <1>5 DEF Despues
  <1>9. GoodRow(d) /\ Grows(c, d)
    BY <1>3, <1>6, <1>7, <1>8, AppendGood
  <1>10. Len(d.hist) = Len(c.hist) + 1 /\ d.hist[Len(c.hist) + 1] = t
    BY <1>2, <1>3, <1>8
  <1>11. c.estado = "EMITIDA" /\ a # "CONSUMIDA" => d.estado = a
    BY <1>0, <1>5 DEF CanTransitionTo, Allowed, Estados
  <1> QED
    BY <1>3, <1>9, <1>10, <1>11

-----------------------------------------------------------------------------
(* Who writes a credential: the holder of its row lock, or its own issuer    *)
(* while nobody else can see it.                                             *)

Askers == Consumers \cup Revokers \cup Viewers

RowsOK == \A j \in Passes : row[j] # NoRow => GoodRow(row[j])

TxOK ==
  \A r \in Requests, j \in Passes :
    tx[r][j] # NoRow =>
      /\ GoodRow(tx[r][j])
      /\ row[j] # NoRow => rowLock[j] = r /\ Grows(row[j], tx[r][j])
      /\ row[j] = NoRow => r = j

DataOK == RowsOK /\ TxOK

\* A step that touches neither rows nor transactions nor row locks.
LEMMA QuietKeepsData ==
  ASSUME DataOK, UNCHANGED << row, tx, rowLock >>
  PROVE  DataOK'
  BY DEF DataOK, RowsOK, TxOK

\* A write by r of the credentials in S, all of which it locks (or issues).
LEMMA WriteKeepsData ==
  ASSUME TypeOK, DataOK, NEW r \in Requests, NEW S \in SUBSET Passes,
         UNCHANGED row,
         \A q \in Requests \ {r} : tx'[q] = tx[q],
         \A j \in Passes \ S : tx'[r][j] \in {tx[r][j], NoRow} /\ rowLock'[j] = rowLock[j],
         \A j \in S : GoodRow(tx'[r][j]),
         \A j \in S : row[j] = NoRow => r = j /\ rowLock'[j] = rowLock[j],
         \A j \in S : row[j] # NoRow =>
            Free(j) /\ rowLock'[j] = r /\ Grows(row[j], tx'[r][j])
  PROVE  DataOK'
  <1>1. RowsOK'
    BY DEF DataOK, RowsOK
  <1>2. ASSUME NEW q \in Requests, NEW j \in Passes, tx'[q][j] # NoRow
        PROVE  /\ GoodRow(tx'[q][j])
               /\ row'[j] # NoRow => rowLock'[j] = q /\ Grows(row'[j], tx'[q][j])
               /\ row'[j] = NoRow => q = j
    <2>1. CASE q = r /\ j \in S
      BY <2>1
    <2>2. CASE q = r /\ j \notin S
      BY <1>2, <2>2 DEF DataOK, TxOK
    <2>3. CASE q # r /\ j \in S
      <3>1. Nobody \notin Requests
        BY RequestsAssumption
      <3>2. tx'[q][j] = tx[q][j]
        BY <2>3
      <3>3. row[j] = NoRow
        BY <1>2, <2>3, <3>1, <3>2 DEF DataOK, TxOK, Free
      <3> QED
        BY <1>2, <2>3, <3>2, <3>3 DEF DataOK, TxOK
    <2>4. CASE q # r /\ j \notin S
      BY <1>2, <2>4 DEF DataOK, TxOK
    <2> QED
      BY <2>1, <2>2, <2>3, <2>4
  <1> QED
    BY <1>1, <1>2 DEF DataOK, TxOK

\* A rollback.
LEMMA ReleaseKeepsData ==
  ASSUME TypeOK, DataOK, NEW r \in Requests, Release(r), UNCHANGED row
  PROVE  DataOK'
  <1>1. \A q \in Requests, j \in Passes : tx'[q][j] = IF q = r THEN NoRow ELSE tx[q][j]
    BY DEF Release, TypeOK, NoTx
  <1>2. \A q \in Requests \ {r}, j \in Passes : rowLock[j] = q => rowLock'[j] = q
    BY DEF Release, TypeOK
  <1> QED
    BY <1>1, <1>2 DEF DataOK, RowsOK, TxOK

\* A step makes rows grow, and only its issuer makes a credential appear.
Keeps(r) ==
  \A j \in Passes :
    /\ row[j] # NoRow => row'[j] # NoRow /\ Grows(row[j], row'[j])
    /\ row[j] = NoRow => row'[j] = NoRow \/ j = r

LEMMA QuietKeepsRows ==
  ASSUME DataOK, UNCHANGED row, NEW r
  PROVE  Keeps(r)
  BY GrowsReflexive DEF DataOK, RowsOK, Keeps

\* A commit publishes what its transaction was entitled to write.
LEMMA CommitKeepsData ==
  ASSUME TypeOK, DataOK, NEW r \in Requests, Commit(r)
  PROVE  DataOK' /\ Keeps(r)
  <1>1. \A j \in Passes : row'[j] = IF tx[r][j] = NoRow THEN row[j] ELSE tx[r][j]
    BY DEF Commit, Committed
  <1>2. \A q \in Requests, j \in Passes : tx'[q][j] = IF q = r THEN NoRow ELSE tx[q][j]
    BY DEF Commit, Release, TypeOK, NoTx
  <1>3. \A q \in Requests \ {r}, j \in Passes : rowLock[j] = q => rowLock'[j] = q
    BY DEF Commit, Release, TypeOK
  <1>4. RowsOK'
    BY <1>1 DEF DataOK, RowsOK, TxOK
  <1>5. \A q \in Requests \ {r}, j \in Passes :
          tx[q][j] # NoRow => tx[r][j] = NoRow
    BY DEF DataOK, TxOK
  <1>6. TxOK'
    BY <1>1, <1>2, <1>3, <1>5 DEF DataOK, TxOK
  <1>7. Keeps(r)
    BY <1>1, GrowsReflexive DEF DataOK, RowsOK, TxOK, Keeps
  <1> QED
    BY <1>4, <1>6, <1>7 DEF DataOK

-----------------------------------------------------------------------------
(* One request.                                                             *)

Redeemed(c) ==
  /\ row[target[c]] # NoRow
  /\ \E k \in 1 .. Len(row[target[c]].hist) :
       Redemption(row[target[c]].hist[k]) /\ row[target[c]].hist[k].por = c

\* An issuer's credential is nobody's until it commits.
IssuerOK(i) ==
  /\ pc[i] \in {"start", "lockPassenger", "lockLive", "register", "commit", "commitFailed"} =>
       row[i] = NoRow
  /\ pc[i] = "register" => tx[i][i] # NoRow

\* The attempt a consumer is about to commit is the last entry of the row it
\* writes; once told CONSUMIDA, the row holds its redemption.
ConsumerOK(c) ==
  /\ pc[c] = "commit" =>
       LET h == tx[c][target[c]].hist IN h[Len(h)].a = "CONSUMIDA" /\ h[Len(h)].por = c
  /\ answer[c] = "CONSUMIDA" => pc[c] = "done"
  /\ pc[c] = "redis" \/ answer[c] = "CONSUMIDA" => Redeemed(c)

AskerOK(r) ==
  /\ pc[r] # "start" => target[r] \in Passes
  /\ pc[r] = "commit" => tx[r][target[r]] # NoRow

\* EMITIDA is written only between the insertion and activar.
EmitidaOK(r) ==
  \A j \in Passes : tx[r][j].estado = "EMITIDA" => pc[r] = "register" /\ j = r

RequestOK(r) ==
  /\ r \in Issuers => IssuerOK(r)
  /\ r \in Askers => AskerOK(r)
  /\ r \in Consumers => ConsumerOK(r)
  /\ EmitidaOK(r)

\* The inductive invariant.
IInv ==
  /\ TypeOK
  /\ DataOK
  /\ \A r \in Requests : RequestOK(r)

\* The other requests are where they were.
Others(r) ==
  \A q \in Requests \ {r} :
    /\ pc'[q] = pc[q] /\ answer'[q] = answer[q] /\ tx'[q] = tx[q]
    /\ q \in Askers => target'[q] = target[q]

LEMMA NoRowIsNotEmitida == NoRow.estado = "AUSENTE"
  BY DEF NoRow

LEMMA RedeemedIsKept ==
  ASSUME TypeOK, DataOK, DataOK', NEW r, Keeps(r), NEW c \in Consumers,
         target[c] \in Passes, target'[c] = target[c], Redeemed(c)
  PROVE  Redeemed(c)'
  <1> DEFINE g == row[target[c]].hist
             h == row'[target[c]].hist
  <1>1. /\ row[target[c]] # NoRow /\ row'[target[c]] # NoRow
        /\ Extends(g, h)
    BY DEF Redeemed, Keeps, Grows
  <1>2. Len(g) \in Nat /\ Len(h) \in Nat
    BY <1>1 DEF DataOK, RowsOK, GoodRow, Row
  <1>3. PICK k \in 1 .. Len(g) : Redemption(g[k]) /\ g[k].por = c
    BY DEF Redeemed
  <1>4. k \in 1 .. Len(h) /\ h[k] = g[k]
    BY <1>1, <1>2, <1>3 DEF Extends
  <1> QED
    BY <1>1, <1>3, <1>4 DEF Redeemed

LEMMA OthersAreKept ==
  ASSUME IInv, NEW r \in Requests, Others(r), Keeps(r), DataOK',
         NEW q \in Requests \ {r}
  PROVE  RequestOK(q)'
  <1>1. RequestOK(q) /\ TypeOK /\ DataOK
    BY DEF IInv
  <1>2. q \in Issuers => IssuerOK(q)'
    BY <1>1 DEF RequestOK, IssuerOK, Others, Keeps, Passes
  <1>3. q \in Askers => AskerOK(q)'
    BY <1>1 DEF RequestOK, AskerOK, Others
  <1>4. q \in Consumers => ConsumerOK(q)'
    <2> SUFFICES ASSUME q \in Consumers
                 PROVE  ConsumerOK(q)'
      OBVIOUS
    <2>1. target'[q] = target[q] /\ q \in Askers
      BY DEF Others, Askers
    <2>2. (pc'[q] = "redis" \/ answer'[q] = "CONSUMIDA") => Redeemed(q)'
      <3> SUFFICES ASSUME pc'[q] = "redis" \/ answer'[q] = "CONSUMIDA"
                   PROVE  Redeemed(q)'
        OBVIOUS
      <3>1. Redeemed(q) /\ target[q] \in Passes
        BY <1>1, <2>1 DEF RequestOK, ConsumerOK, AskerOK, Others
      <3> QED
        BY <1>1, <2>1, <3>1, RedeemedIsKept
    <2> QED
      BY <1>1, <2>1, <2>2 DEF RequestOK, ConsumerOK, Others
  <1>5. EmitidaOK(q)'
    BY <1>1 DEF RequestOK, EmitidaOK, Others
  <1> QED
    BY <1>2, <1>3, <1>4, <1>5 DEF RequestOK

\* No step of anybody takes back what is committed.
Kept == \A j \in Passes : row[j] # NoRow => row'[j] # NoRow /\ Grows(row[j], row'[j])

LEMMA OneRequestStep ==
  ASSUME IInv, NEW r \in Requests, Others(r), Keeps(r), DataOK', TypeOK', RequestOK(r)'
  PROVE  IInv' /\ Kept
  BY OthersAreKept DEF IInv, Keeps, Kept

-----------------------------------------------------------------------------
(* The types of what transactions touch.                                    *)

TablesTyped ==
  /\ row \in [Passes -> Row \cup {NoRow}]
  /\ \A j \in Passes : row[j].estado # "EMITIDA"
  /\ tx \in [Requests -> [Passes -> Row \cup {NoRow}]]
  /\ paxLock \in [Passengers -> Issuers \cup {Nobody}]
  /\ rowLock \in [Passes -> Lockers]

\* What a write by r of good rows leaves, and what is left after it.
LEMMA WriteTyped ==
  ASSUME TypeOK, NEW r \in Requests, NEW j \in Passes, NEW d \in Row, Write(r, j, d),
         UNCHANGED row, paxLock' \in [Passengers -> Issuers \cup {Nobody}],
         rowLock' \in [Passes -> Lockers]
  PROVE  TablesTyped'
  BY DEF TypeOK, TablesTyped, Write

LEMMA ReleaseTyped ==
  ASSUME TypeOK, NEW r \in Requests, Release(r)
  PROVE  /\ tx' \in [Requests -> [Passes -> Row \cup {NoRow}]]
         /\ paxLock' \in [Passengers -> Issuers \cup {Nobody}]
         /\ rowLock' \in [Passes -> Lockers]
         /\ tx'[r] = NoTx
         /\ \A q \in Requests \ {r} : tx'[q] = tx[q]
  BY DEF TypeOK, Release, NoTx, Lockers

LEMMA CommitTyped ==
  ASSUME IInv, NEW r \in Requests, Commit(r), pc[r] # "register"
  PROVE  TablesTyped'
  <1>1. TypeOK /\ Release(r) /\ EmitidaOK(r)
    BY DEF IInv, Commit, RequestOK
  <1>2. row' = [j \in Passes |-> IF tx[r][j] = NoRow THEN row[j] ELSE tx[r][j]]
    BY DEF Commit, Committed
  <1>3. row' \in [Passes -> Row \cup {NoRow}]
    BY <1>1, <1>2 DEF TypeOK
  <1>4. \A j \in Passes : row'[j].estado # "EMITIDA"
    BY <1>1, <1>2 DEF EmitidaOK, TypeOK
  <1> QED
    BY <1>1, <1>3, <1>4, ReleaseTyped DEF TablesTyped

\* After a commit or a rollback the request holds nothing.
LEMMA NothingHeld ==
  ASSUME NEW r, tx'[r] = NoTx
  PROVE  EmitidaOK(r)'
  BY NoRowIsNotEmitida DEF EmitidaOK, NoTx

\* RefreshExpiry keeps a committed credential good.
LEMMA RefreshGood ==
  ASSUME NEW c, GoodRow(c), NEW now, NEW d, d = RefreshExpiry(c, now)
  PROVE  GoodRow(d) /\ Grows(c, d)
  <1>1. "EXPIRADA" \in Estados \ {"EMITIDA"} /\ Sistema \in Actors
    BY DEF Estados, Actors
  <1>2. CASE d = c
    BY <1>2, GrowsReflexive
  <1>3. CASE d = Transition(c, "EXPIRADA", Sistema)
    BY <1>1, <1>3, TransitionGood
  <1> QED
    BY <1>2, <1>3 DEF RefreshExpiry, Expirar

\* consumir and revocar after the lazy expiry.
LEMMA RefreshedTransitionGood ==
  ASSUME NEW c, GoodRow(c), NEW now, NEW a \in Estados \ {"EMITIDA"}, NEW por \in Actors,
         NEW d, d = Transition(RefreshExpiry(c, now), a, por)
  PROVE  /\ GoodRow(d) /\ Grows(c, d)
         /\ d.hist[Len(d.hist)].a = a /\ d.hist[Len(d.hist)].por = por
  <1> DEFINE e == RefreshExpiry(c, now)
  <1>1. GoodRow(e) /\ Grows(c, e)
    BY RefreshGood
  <1> HIDE DEF e
  <1>2. GoodRow(d) /\ Grows(e, d)
         /\ d.hist[Len(d.hist)].a = a /\ d.hist[Len(d.hist)].por = por
    <2>1. d = Transition(e, a, por)
      BY DEF e
    <2> QED
      BY <1>1, <2>1, TransitionGood
  <1> QED
    BY <1>1, <1>2, GrowsTransitive

\* Growing from a committed credential never reaches EMITIDA.
LEMMA GrowsNotEmitida ==
  ASSUME TypeOK, NEW j \in Passes, NEW d, Grows(row[j], d)
  PROVE  d.estado # "EMITIDA"
  BY DEF TypeOK, Grows

\* A request other than an issuer writes a committed credential it locks.
LEMMA LockedWrite ==
  ASSUME TypeOK, DataOK, NEW r \in Requests, NEW j \in Passes, NEW d,
         row[j] # NoRow, Free(j), Lock(r, j), Write(r, j, d),
         GoodRow(d), Grows(row[j], d), UNCHANGED << row, paxLock >>
  PROVE  /\ DataOK' /\ TablesTyped' /\ Keeps(r)
         /\ tx'[r][j] = d
         /\ \A q \in Requests \ {r} : tx'[q] = tx[q]
         /\ \A k \in Passes \ {j} : tx'[r][k] = tx[r][k]
         /\ d # NoRow
  <1>1. d \in Row /\ d # NoRow
    BY NoRowIsNoRow DEF GoodRow
  <1>2. rowLock' \in [Passes -> Lockers] /\ rowLock'[j] = r
        /\ \A k \in Passes \ {j} : rowLock'[k] = rowLock[k]
    BY DEF TypeOK, Lock, Lockers
  <1>3. TablesTyped'
    BY <1>1, <1>2, WriteTyped DEF TypeOK
  <1>4. /\ tx'[r][j] = d
        /\ \A q \in Requests \ {r} : tx'[q] = tx[q]
        /\ \A k \in Passes \ {j} : tx'[r][k] = tx[r][k]
    BY DEF TypeOK, Write
  <1>5. DataOK'
    <2> DEFINE S == {j}
    <2>1. S \in SUBSET Passes
      OBVIOUS
    <2>2. \A k \in Passes \ S : tx'[r][k] \in {tx[r][k], NoRow} /\ rowLock'[k] = rowLock[k]
      BY <1>2, <1>4
    <2>3. \A k \in S : /\ GoodRow(tx'[r][k])
                        /\ row[k] # NoRow
                        /\ Free(k) /\ rowLock'[k] = r /\ Grows(row[k], tx'[r][k])
      BY <1>2, <1>4
    <2> HIDE DEF S
    <2> QED
      BY <1>4, <2>1, <2>2, <2>3, WriteKeepsData
  <1>6. Keeps(r)
    BY QuietKeepsRows
  <1> QED
    BY <1>1, <1>3, <1>4, <1>5, <1>6

-----------------------------------------------------------------------------
(* Every step of every operation keeps the invariant.                       *)

LEMMA ConsumeKeeps ==
  ASSUME IInv, NEW c \in Consumers, Consume(c)
  PROVE  IInv' /\ Kept
  <1>1. /\ TypeOK /\ DataOK /\ RequestOK(c) /\ ConsumerOK(c) /\ AskerOK(c) /\ EmitidaOK(c)
        /\ c \in Requests /\ c \notin Issuers /\ c \in Askers
        /\ c \notin Revokers \cup Viewers \cup Sweepers /\ c \in Actors
    BY RequestsAssumption DEF IInv, RequestOK, Requests, Askers, Actors
  <1> USE <1>1
  <1>2. CASE ConsumeStart(c)
    <2> USE <1>2 DEF ConsumeStart, Goto
    <2>1. DataOK' /\ Keeps(c)
      BY QuietKeepsData, QuietKeepsRows
    <2>2. TypeOK'
      BY DEF TypeOK, Labels, Askers
    <2>3. Others(c)
      BY DEF TypeOK, Others, Askers
    <2>4. RequestOK(c)'
      BY DEF TypeOK, RequestOK, ConsumerOK, AskerOK, EmitidaOK, Askers
    <2> QED
      BY <2>1, <2>2, <2>3, <2>4, OneRequestStep
  <1>3. CASE NotFound(c)
    <2> USE <1>3 DEF NotFound, Goto, Answer
    <2>1. DataOK' /\ Keeps(c)
      BY QuietKeepsData, QuietKeepsRows
    <2>2. TypeOK'
      BY DEF TypeOK, Labels, Answers
    <2>3. Others(c)
      BY DEF TypeOK, Others
    <2>4. RequestOK(c)'
      BY DEF TypeOK, RequestOK, ConsumerOK, AskerOK, EmitidaOK
    <2> QED
      BY <2>1, <2>2, <2>3, <2>4, OneRequestStep
  <1>4. CASE ConsumeLock(c)
    <2> DEFINE j == target[c]
               d == Consumir(RefreshExpiry(row[j], seen[c]), c)
    <2>1. /\ pc[c] = "lock" /\ j \in Passes /\ row[j] # NoRow
          /\ Free(j) /\ Lock(c, j) /\ Write(c, j, d)
          /\ pc' = [pc EXCEPT ![c] = "commit"]
          /\ UNCHANGED << clock, seen, slot, target, row, paxLock, token, previous, answer >>
      BY <1>4 DEF ConsumeLock, AskerOK, Goto
    <2>2. GoodRow(d) /\ Grows(row[j], d)
          /\ d.hist[Len(d.hist)].a = "CONSUMIDA" /\ d.hist[Len(d.hist)].por = c
      <3>1. GoodRow(row[j]) /\ "CONSUMIDA" \in Estados \ {"EMITIDA"}
        BY <2>1 DEF DataOK, RowsOK, Estados
      <3>2. d = Transition(RefreshExpiry(row[j], seen[c]), "CONSUMIDA", c)
        BY DEF Consumir
      <3> QED
        BY <3>1, <3>2, RefreshedTransitionGood
    <2> HIDE DEF d
    <2>3. /\ DataOK' /\ TablesTyped' /\ Keeps(c)
          /\ tx'[c][j] = d /\ d # NoRow
          /\ \A q \in Requests \ {c} : tx'[q] = tx[q]
          /\ \A k \in Passes \ {j} : tx'[c][k] = tx[c][k]
      BY <2>1, <2>2, LockedWrite
    <2>4. TypeOK'
      BY <2>1, <2>3 DEF TypeOK, TablesTyped, Labels
    <2>5. Others(c)
      BY <2>1, <2>3 DEF TypeOK, Others
    <2>6. RequestOK(c)'
      <3>1. EmitidaOK(c)'
        BY <2>1, <2>2, <2>3, GrowsNotEmitida DEF EmitidaOK
      <3>2. AskerOK(c)' /\ ConsumerOK(c)'
        BY <2>1, <2>2, <2>3 DEF TypeOK, AskerOK, ConsumerOK
      <3> QED
        BY <3>1, <3>2 DEF RequestOK
    <2> QED
      BY <2>3, <2>4, <2>5, <2>6, OneRequestStep
  <1>5. CASE ConsumeCommit(c)
    <2> DEFINE j == target[c]
               d == tx[c][j]
    <2>1. /\ pc[c] = "commit" /\ j \in Passes /\ d # NoRow
          /\ Commit(c)
          /\ \/ d.hist[Len(d.hist)].aceptada /\ Goto(c, "redis") /\ UNCHANGED answer
             \/ Goto(c, "done") /\ Answer(c, Rejection(d.estado))
          /\ UNCHANGED << clock, seen, slot, target, token, previous >>
      BY <1>5 DEF ConsumeCommit, AskerOK, UltimaAceptada
    <2>2. DataOK' /\ Keeps(c) /\ TablesTyped'
          /\ tx'[c] = NoTx /\ \A q \in Requests \ {c} : tx'[q] = tx[q]
      BY <2>1, CommitKeepsData, CommitTyped, ReleaseTyped DEF Commit
    <2>3. Rejection(d.estado) \in {"YA_CONSUMIDA", "EXPIRADA", "REVOCADA"}
      BY DEF Rejection
    <2>4. TypeOK'
      <3>1. pc' \in [Requests -> Labels] /\ answer' \in [Requests -> Answers]
        BY <2>1, <2>3 DEF TypeOK, Labels, Goto, Answer, Answers, Estados
      <3> QED
        BY <2>1, <2>2, <3>1 DEF TypeOK, TablesTyped
    <2>5. Others(c)
      BY <2>1, <2>2 DEF TypeOK, Others, Goto, Answer
    <2>6. row'[j] = d
      BY <2>1 DEF Commit, Committed
    <2>7. d.hist[Len(d.hist)].aceptada => Redeemed(c)'
      <3>1. d.hist[Len(d.hist)].a = "CONSUMIDA" /\ d.hist[Len(d.hist)].por = c
        BY <2>1 DEF ConsumerOK
      <3>2. GoodRow(d)
        BY <2>1 DEF DataOK, TxOK
      <3>3. Len(d.hist) \in 1 .. Len(d.hist)
        BY <3>2 DEF GoodRow, Row, Explains
      <3> QED
        BY <2>1, <2>6, <3>1, <3>3 DEF Redeemed, Redemption
    <2>8. ConsumerOK(c)'
      BY <2>1, <2>2, <2>3, <2>7 DEF TypeOK, ConsumerOK, Goto, Answer
    <2>9. RequestOK(c)'
      BY <2>1, <2>2, <2>8, NothingHeld DEF TypeOK, RequestOK, AskerOK, Goto
    <2> QED
      BY <2>2, <2>4, <2>5, <2>9, OneRequestStep
  <1>6. CASE ConsumeToken(c)
    <2> USE <1>6 DEF ConsumeToken, Goto, Answer
    <2>1. DataOK' /\ Keeps(c)
      BY QuietKeepsData, QuietKeepsRows
    <2>2. TypeOK'
      <3>1. token' \in [Passes -> [valor : {"NINGUNO", "ACTIVA", "CONSUMIDA"}, hasta : Nat]]
        BY DEF TypeOK, ConsumeKey
      <3> QED
        BY <3>1 DEF TypeOK, Labels, Answers, Estados
    <2>3. Others(c)
      BY DEF TypeOK, Others
    <2>4. RequestOK(c)'
      BY DEF TypeOK, RequestOK, ConsumerOK, AskerOK, EmitidaOK, Redeemed
    <2> QED
      BY <2>1, <2>2, <2>3, <2>4, OneRequestStep
  <1> QED
    BY <1>2, <1>3, <1>4, <1>5, <1>6 DEF Consume

LEMMA RevokeKeeps ==
  ASSUME IInv, NEW v \in Revokers, Revoke(v)
  PROVE  IInv' /\ Kept
  <1>1. /\ TypeOK /\ DataOK /\ RequestOK(v) /\ AskerOK(v) /\ EmitidaOK(v)
        /\ v \in Requests /\ v \notin Issuers /\ v \in Askers
        /\ v \notin Consumers \cup Viewers \cup Sweepers
    BY RequestsAssumption DEF IInv, RequestOK, Requests, Askers
  <1> USE <1>1
  <1>2. CASE RevokeStart(v)
    <2> USE <1>2 DEF RevokeStart, Goto, Answer
    <2>1. DataOK' /\ Keeps(v)
      BY QuietKeepsData, QuietKeepsRows
    <2>2. TypeOK'
      BY DEF TypeOK, Labels, Askers
    <2>3. Others(v)
      BY DEF TypeOK, Others, Askers
    <2>4. RequestOK(v)'
      BY DEF TypeOK, RequestOK, AskerOK, EmitidaOK, Askers
    <2> QED
      BY <2>1, <2>2, <2>3, <2>4, OneRequestStep
  <1>3. CASE NotFound(v)
    <2> USE <1>3 DEF NotFound, Goto, Answer
    <2>1. DataOK' /\ Keeps(v)
      BY QuietKeepsData, QuietKeepsRows
    <2>2. TypeOK'
      BY DEF TypeOK, Labels, Answers
    <2>3. Others(v)
      BY DEF TypeOK, Others, Askers
    <2>4. RequestOK(v)'
      BY DEF TypeOK, RequestOK, AskerOK, EmitidaOK
    <2> QED
      BY <2>1, <2>2, <2>3, <2>4, OneRequestStep
  <1>4. CASE RevokeLock(v)
    <2> DEFINE j == target[v]
               d == Revocar(RefreshExpiry(row[j], clock))
    <2>1. /\ pc[v] = "lock" /\ j \in Passes /\ row[j] # NoRow
          /\ Free(j) /\ Lock(v, j) /\ Write(v, j, d)
          /\ pc' = [pc EXCEPT ![v] = "commit"]
          /\ previous' \in [Issuers \cup Revokers -> Passes \cup {Nobody}]
          /\ UNCHANGED << clock, seen, slot, target, row, paxLock, token, answer >>
      BY <1>4 DEF RevokeLock, AskerOK, Goto, TypeOK
    <2>2. GoodRow(d) /\ Grows(row[j], d)
      <3>1. GoodRow(row[j]) /\ "REVOCADA" \in Estados \ {"EMITIDA"} /\ Sistema \in Actors
        BY <2>1 DEF DataOK, RowsOK, Estados, Actors
      <3>2. d = Transition(RefreshExpiry(row[j], clock), "REVOCADA", Sistema)
        BY DEF Revocar
      <3> QED
        BY <3>1, <3>2, RefreshedTransitionGood
    <2> HIDE DEF d
    <2>3. /\ DataOK' /\ TablesTyped' /\ Keeps(v)
          /\ tx'[v][j] = d /\ d # NoRow
          /\ \A q \in Requests \ {v} : tx'[q] = tx[q]
          /\ \A k \in Passes \ {j} : tx'[v][k] = tx[v][k]
      BY <2>1, <2>2, LockedWrite
    <2>4. TypeOK'
      BY <2>1, <2>3 DEF TypeOK, TablesTyped, Labels
    <2>5. Others(v)
      BY <2>1, <2>3 DEF TypeOK, Others
    <2>6. RequestOK(v)'
      <3>1. EmitidaOK(v)'
        BY <2>1, <2>2, <2>3, GrowsNotEmitida DEF EmitidaOK
      <3>2. AskerOK(v)'
        BY <2>1, <2>3 DEF TypeOK, AskerOK
      <3> QED
        BY <3>1, <3>2 DEF RequestOK
    <2> QED
      BY <2>3, <2>4, <2>5, <2>6, OneRequestStep
  <1>5. CASE RevokeCommit(v)
    <2>1. /\ pc[v] = "commit" /\ Commit(v)
          /\ \/ Goto(v, "forget") /\ UNCHANGED answer
             \/ Goto(v, "done") /\ Answer(v, "NO_REVOCADA")
          /\ UNCHANGED << clock, seen, slot, target, token, previous >>
      BY <1>5 DEF RevokeCommit
    <2>2. DataOK' /\ Keeps(v) /\ TablesTyped'
          /\ tx'[v] = NoTx /\ \A q \in Requests \ {v} : tx'[q] = tx[q]
      BY <2>1, CommitKeepsData, CommitTyped, ReleaseTyped DEF Commit
    <2>3. TypeOK'
      <3>1. pc' \in [Requests -> Labels] /\ answer' \in [Requests -> Answers]
        BY <2>1 DEF TypeOK, Labels, Goto, Answer, Answers
      <3> QED
        BY <2>1, <2>2, <3>1 DEF TypeOK, TablesTyped
    <2>4. Others(v)
      BY <2>1, <2>2 DEF TypeOK, Others, Goto, Answer
    <2>5. RequestOK(v)'
      BY <2>1, <2>2, NothingHeld DEF TypeOK, RequestOK, AskerOK, Goto
    <2> QED
      BY <2>2, <2>3, <2>4, <2>5, OneRequestStep
  <1>6. CASE RevokeForget(v)
    <2> USE <1>6 DEF RevokeForget, Goto, Answer
    <2>1. DataOK' /\ Keeps(v)
      BY QuietKeepsData, QuietKeepsRows
    <2>2. TypeOK'
      <3>1. token' \in [Passes -> [valor : {"NINGUNO", "ACTIVA", "CONSUMIDA"}, hasta : Nat]]
        BY DEF TypeOK, Forget, NoToken
      <3> QED
        BY <3>1 DEF TypeOK, Labels, Answers, Estados
    <2>3. Others(v)
      BY DEF TypeOK, Others
    <2>4. RequestOK(v)'
      BY DEF TypeOK, RequestOK, AskerOK, EmitidaOK
    <2> QED
      BY <2>1, <2>2, <2>3, <2>4, OneRequestStep
  <1> QED
    BY <1>2, <1>3, <1>4, <1>5, <1>6 DEF Revoke

LEMMA ViewKeeps ==
  ASSUME IInv, NEW w \in Viewers, View(w)
  PROVE  IInv' /\ Kept
  <1>1. /\ TypeOK /\ DataOK /\ RequestOK(w) /\ AskerOK(w) /\ EmitidaOK(w)
        /\ w \in Requests /\ w \notin Issuers /\ w \in Askers
        /\ w \notin Consumers \cup Revokers \cup Sweepers
    BY RequestsAssumption DEF IInv, RequestOK, Requests, Askers
  <1> USE <1>1
  <1>2. CASE ViewStart(w)
    <2> USE <1>2 DEF ViewStart, Goto, Answer
    <2>1. DataOK' /\ Keeps(w)
      BY QuietKeepsData, QuietKeepsRows
    <2>2. TypeOK'
      BY DEF TypeOK, Labels, Askers
    <2>3. Others(w)
      BY DEF TypeOK, Others, Askers
    <2>4. RequestOK(w)'
      BY DEF TypeOK, RequestOK, AskerOK, EmitidaOK, Askers
    <2> QED
      BY <2>1, <2>2, <2>3, <2>4, OneRequestStep
  <1>3. CASE NotFound(w)
    <2> USE <1>3 DEF NotFound, Goto, Answer
    <2>1. DataOK' /\ Keeps(w)
      BY QuietKeepsData, QuietKeepsRows
    <2>2. TypeOK'
      BY DEF TypeOK, Labels, Answers
    <2>3. Others(w)
      BY DEF TypeOK, Others, Askers
    <2>4. RequestOK(w)'
      BY DEF TypeOK, RequestOK, AskerOK, EmitidaOK
    <2> QED
      BY <2>1, <2>2, <2>3, <2>4, OneRequestStep
  <1>4. CASE ViewForeign(w)
    <2> USE <1>4 DEF ViewForeign, Goto, Answer
    <2>1. DataOK' /\ Keeps(w)
      BY QuietKeepsData, QuietKeepsRows
    <2>2. TypeOK'
      BY DEF TypeOK, Labels, Answers
    <2>3. Others(w)
      BY DEF TypeOK, Others, Askers
    <2>4. RequestOK(w)'
      BY DEF TypeOK, RequestOK, AskerOK, EmitidaOK
    <2> QED
      BY <2>1, <2>2, <2>3, <2>4, OneRequestStep
  <1>5. CASE ViewLock(w)
    <2> DEFINE j == target[w]
               d == RefreshExpiry(row[j], clock)
    <2>1. /\ pc[w] = "lock" /\ j \in Passes /\ row[j] # NoRow
          /\ Free(j) /\ Lock(w, j) /\ Write(w, j, d)
          /\ pc' = [pc EXCEPT ![w] = "commit"]
          /\ seen' \in [Requests -> 0 .. MaxClock]
          /\ UNCHANGED << clock, slot, target, row, paxLock, token, previous, answer >>
      BY <1>5 DEF ViewLock, AskerOK, Goto, TypeOK
    <2>2. GoodRow(d) /\ Grows(row[j], d)
      BY <2>1, RefreshGood DEF DataOK, RowsOK
    <2> HIDE DEF d
    <2>3. /\ DataOK' /\ TablesTyped' /\ Keeps(w)
          /\ tx'[w][j] = d /\ d # NoRow
          /\ \A q \in Requests \ {w} : tx'[q] = tx[q]
          /\ \A k \in Passes \ {j} : tx'[w][k] = tx[w][k]
      BY <2>1, <2>2, LockedWrite
    <2>4. TypeOK'
      BY <2>1, <2>3 DEF TypeOK, TablesTyped, Labels
    <2>5. Others(w)
      BY <2>1, <2>3 DEF TypeOK, Others
    <2>6. RequestOK(w)'
      <3>1. EmitidaOK(w)'
        BY <2>1, <2>2, <2>3, GrowsNotEmitida DEF EmitidaOK
      <3>2. AskerOK(w)'
        BY <2>1, <2>3 DEF TypeOK, AskerOK
      <3> QED
        BY <3>1, <3>2 DEF RequestOK
    <2> QED
      BY <2>3, <2>4, <2>5, <2>6, OneRequestStep
  <1>6. CASE ViewCommit(w)
    <2> DEFINE d == tx[w][target[w]]
    <2>1. /\ pc[w] = "commit" /\ Commit(w) /\ target[w] \in Passes /\ d # NoRow
          /\ Goto(w, "done") /\ Answer(w, d.estado)
          /\ UNCHANGED << clock, seen, slot, target, token, previous >>
      BY <1>6 DEF ViewCommit, AskerOK
    <2>2. DataOK' /\ Keeps(w) /\ TablesTyped'
          /\ tx'[w] = NoTx /\ \A q \in Requests \ {w} : tx'[q] = tx[q]
      BY <2>1, CommitKeepsData, CommitTyped, ReleaseTyped DEF Commit
    <2>3. TypeOK'
      <3>1. d.estado \in Estados \ {"EMITIDA"}
        BY <2>1 DEF DataOK, TxOK, GoodRow, Row, EmitidaOK
      <3>2. pc' \in [Requests -> Labels] /\ answer' \in [Requests -> Answers]
        BY <2>1, <3>1 DEF TypeOK, Labels, Goto, Answer, Answers
      <3> QED
        BY <2>1, <2>2, <3>2 DEF TypeOK, TablesTyped
    <2>4. Others(w)
      BY <2>1, <2>2 DEF TypeOK, Others, Goto, Answer
    <2>5. RequestOK(w)'
      BY <2>1, <2>2, NothingHeld DEF TypeOK, RequestOK, AskerOK, Goto
    <2> QED
      BY <2>2, <2>3, <2>4, <2>5, OneRequestStep
  <1> QED
    BY <1>2, <1>3, <1>4, <1>5, <1>6 DEF View

LEMMA SweepKeeps ==
  ASSUME IInv, NEW s \in Sweepers, Sweep(s)
  PROVE  IInv' /\ Kept
  <1>1. /\ TypeOK /\ DataOK /\ RequestOK(s) /\ EmitidaOK(s)
        /\ s \in Requests /\ s \notin Issuers /\ s \notin Askers /\ s \notin Consumers
    BY RequestsAssumption DEF IInv, RequestOK, Requests, Askers
  <1> USE <1>1
  <1>2. CASE SweepStart(s)
    <2> USE <1>2 DEF SweepStart, Goto, Answer
    <2>1. DataOK' /\ Keeps(s)
      BY QuietKeepsData, QuietKeepsRows
    <2>2. TypeOK'
      BY DEF TypeOK, Labels
    <2>3. Others(s)
      BY DEF TypeOK, Others, Askers
    <2>4. RequestOK(s)'
      BY DEF TypeOK, RequestOK, EmitidaOK
    <2> QED
      BY <2>1, <2>2, <2>3, <2>4, OneRequestStep
  <1>3. CASE SweepNothing(s)
    <2> USE <1>3 DEF SweepNothing, Goto, Answer
    <2>1. DataOK' /\ Keeps(s)
      BY QuietKeepsData, QuietKeepsRows
    <2>2. TypeOK'
      BY DEF TypeOK, Labels
    <2>3. Others(s)
      BY DEF TypeOK, Others, Askers
    <2>4. RequestOK(s)'
      BY DEF TypeOK, RequestOK, EmitidaOK
    <2> QED
      BY <2>1, <2>2, <2>3, <2>4, OneRequestStep
  <1>4. CASE SweepClaim(s)
    <2>1. PICK batch \in SUBSET ExpiredLive(seen[s]) :
            /\ rowLock' = [j \in Passes |-> IF j \in batch THEN s ELSE rowLock[j]]
            /\ tx' = [tx EXCEPT ![s] =
                 [j \in Passes |-> IF j \in batch THEN Expirar(row[j]) ELSE NoRow]]
      BY <1>4 DEF SweepClaim
    <2>2. /\ pc' = [pc EXCEPT ![s] = "commit"] /\ pc[s] = "claim"
          /\ UNCHANGED << clock, seen, slot, target, row, paxLock, token, previous, answer >>
      BY <1>4 DEF SweepClaim, Goto
    <2>3. /\ batch \in SUBSET Passes
          /\ \A j \in batch : Live(row[j]) /\ Free(j)
      BY DEF ExpiredLive
    <2>4. ASSUME NEW j \in batch
          PROVE  row[j] # NoRow /\ GoodRow(Expirar(row[j])) /\ Grows(row[j], Expirar(row[j]))
      <3>1. row[j] # NoRow /\ GoodRow(row[j])
        BY <2>3 DEF Live, Vivas, NoRow, DataOK, RowsOK
      <3>2. "EXPIRADA" \in Estados \ {"EMITIDA"} /\ Sistema \in Actors
        BY DEF Estados, Actors
      <3> QED
        BY <3>1, <3>2, TransitionGood DEF Expirar
    <2>5. /\ \A q \in Requests \ {s} : tx'[q] = tx[q]
          /\ \A j \in Passes : tx'[s][j] = IF j \in batch THEN Expirar(row[j]) ELSE NoRow
      BY <2>1 DEF TypeOK
    <2>6. rowLock' \in [Passes -> Lockers]
          /\ \A j \in Passes : rowLock'[j] = IF j \in batch THEN s ELSE rowLock[j]
      BY <2>1 DEF TypeOK, Lockers
    <2>7. DataOK'
      <3>1. \A j \in Passes \ batch : tx'[s][j] \in {tx[s][j], NoRow} /\ rowLock'[j] = rowLock[j]
        BY <2>5, <2>6
      <3>2. \A j \in batch : /\ GoodRow(tx'[s][j])
                             /\ row[j] # NoRow
                             /\ Free(j) /\ rowLock'[j] = s /\ Grows(row[j], tx'[s][j])
        BY <2>3, <2>4, <2>5, <2>6
      <3> QED
        BY <2>2, <2>3, <2>5, <3>1, <3>2, WriteKeepsData
    <2>8. Keeps(s)
      BY <2>2, QuietKeepsRows
    <2>9. TypeOK'
      <3>1. \A j \in batch : Expirar(row[j]) \in Row
        BY <2>4 DEF GoodRow
      <3>2. [j \in Passes |-> IF j \in batch THEN Expirar(row[j]) ELSE NoRow]
              \in [Passes -> Row \cup {NoRow}]
        BY <2>3, <3>1
      <3>3. tx' \in [Requests -> [Passes -> Row \cup {NoRow}]]
        BY <2>1, <3>2 DEF TypeOK
      <3> QED
        BY <2>2, <2>6, <3>3 DEF TypeOK, Labels
    <2>10. Others(s)
      BY <2>2, <2>5 DEF TypeOK, Others
    <2>11. RequestOK(s)'
      <3>1. \A j \in Passes : tx'[s][j].estado # "EMITIDA"
        BY <2>3, <2>4, <2>5, GrowsNotEmitida, NoRowIsNotEmitida
      <3> QED
        BY <3>1 DEF RequestOK, EmitidaOK
    <2> QED
      BY <2>7, <2>8, <2>9, <2>10, <2>11, OneRequestStep
  <1>5. CASE SweepCommit(s)
    <2>1. /\ pc[s] = "commit" /\ Commit(s) /\ Goto(s, "start")
          /\ UNCHANGED << clock, seen, slot, target, token, previous, answer >>
      BY <1>5 DEF SweepCommit
    <2>2. DataOK' /\ Keeps(s) /\ TablesTyped'
          /\ tx'[s] = NoTx /\ \A q \in Requests \ {s} : tx'[q] = tx[q]
      BY <2>1, CommitKeepsData, CommitTyped, ReleaseTyped DEF Commit
    <2>3. TypeOK'
      BY <2>1, <2>2 DEF TypeOK, TablesTyped, Labels, Goto
    <2>4. Others(s)
      BY <2>1, <2>2 DEF TypeOK, Others, Goto
    <2>5. RequestOK(s)'
      BY <2>2, NothingHeld DEF RequestOK
    <2> QED
      BY <2>2, <2>3, <2>4, <2>5, OneRequestStep
  <1> QED
    BY <1>2, <1>3, <1>4, <1>5 DEF Sweep

\* The emission is a good row.
LEMMA EmitirGood ==
  ASSUME NEW e \in Nat
  PROVE  GoodRow(Emitir(e)) /\ Emitir(e).estado = "EMITIDA"
  <1> DEFINE t == [de |-> "AUSENTE", a |-> "EMITIDA", aceptada |-> TRUE, por |-> Sistema]
             d == [estado |-> "EMITIDA", expira |-> e, hist |-> << t >>]
  <1>1. Emitir(e) = d
    BY DEF Emitir, Transicion
  <1>2. t \in Entry
    BY DEF Entry, Estados
  <1>3. << t >> \in Seq(Entry) /\ Len(<< t >>) = 1 /\ << t >>[1] = t
    BY <1>2
  <1>4. d \in Row
    BY <1>3 DEF Row, Estados
  <1>5. Explains(d.hist, d.estado)
    BY <1>3 DEF Explains, Transicion, Despues
  <1>6. ~Redemption(t)
    BY DEF Redemption
  <1> DEFINE h == << t >>
  <1>7. \A k \in 1 .. Len(d.hist) : d.hist[k] = t /\ k = 1
    <2>1. d.hist = h /\ Len(h) = 1 /\ h[1] = t
      BY <1>3
    <2> HIDE DEF h, d
    <2> QED
      BY <2>1
  <1>8. GoodRow(d)
    BY <1>4, <1>5, <1>6, <1>7 DEF GoodRow
  <1> QED
    BY <1>1, <1>8

LEMMA RetireGood ==
  ASSUME NEW c, GoodRow(c), NEW now, NEW d, d = RetirePrevious(c, now)
  PROVE  GoodRow(d) /\ Grows(c, d)
  <1>1. "REVOCADA" \in Estados \ {"EMITIDA"} /\ Sistema \in Actors
    BY DEF Estados, Actors
  <1>2. CASE d = RefreshExpiry(c, now)
    BY <1>2, RefreshGood
  <1>3. CASE d = Transition(c, "REVOCADA", Sistema)
    BY <1>1, <1>3, TransitionGood
  <1> QED
    BY <1>2, <1>3 DEF RetirePrevious, Revocar

\* The write of the new credential, with or without a previous one.
LEMMA IssueReplaceKeeps ==
  ASSUME IInv, NEW i \in Issuers, IssueReplace(i)
  PROVE  IInv' /\ Kept
  <1> DEFINE nueva == Emitir(seen[i] + TTL)
  <1>1. /\ TypeOK /\ DataOK /\ RequestOK(i) /\ EmitidaOK(i)
        /\ i \in Requests /\ i \in Passes /\ i \notin Askers /\ i \notin Consumers
        /\ pc[i] = "lockLive" /\ row[i] = NoRow
        /\ pc' = [pc EXCEPT ![i] = "register"]
        /\ UNCHANGED << clock, seen, slot, target, row, paxLock, token, answer >>
    BY RequestsAssumption
       DEF IInv, RequestOK, IssuerOK, Requests, Askers, Passes, IssueReplace, Goto
  <1>2. GoodRow(nueva) /\ nueva.estado = "EMITIDA" /\ nueva \in Row /\ nueva # NoRow
    <2>1. seen[i] + TTL \in Nat
      BY <1>1, ConstantsAssumption DEF TypeOK
    <2> QED
      BY <2>1, EmitirGood, NoRowIsNoRow DEF GoodRow
  <1> HIDE DEF nueva
  <1>3. Keeps(i)
    BY <1>1, QuietKeepsRows
  <1>4. SUFFICES ASSUME NEW S \in SUBSET Passes, i \in S,
                        rowLock' \in [Passes -> Lockers],
                        tx' \in [Requests -> [Passes -> Row \cup {NoRow}]],
                        previous' \in [Issuers \cup Revokers -> Passes \cup {Nobody}],
                        \A q \in Requests \ {i} : tx'[q] = tx[q],
                        tx'[i][i] = nueva,
                        rowLock'[i] = rowLock[i],
                        \A j \in Passes \ S : tx'[i][j] = tx[i][j] /\ rowLock'[j] = rowLock[j],
                        \A j \in S \ {i} : /\ row[j] # NoRow /\ Free(j) /\ rowLock'[j] = i
                                          /\ GoodRow(tx'[i][j]) /\ Grows(row[j], tx'[i][j])
                 PROVE  IInv' /\ Kept
    <2>1. CASE Write(i, i, nueva) /\ UNCHANGED << rowLock, previous >>
      <3> DEFINE S == {i}
      <3>1. /\ tx' \in [Requests -> [Passes -> Row \cup {NoRow}]]
            /\ \A q \in Requests \ {i} : tx'[q] = tx[q]
            /\ tx'[i][i] = nueva
            /\ \A j \in Passes \ {i} : tx'[i][j] = tx[i][j]
        BY <1>1, <1>2, <2>1 DEF TypeOK, Write
      <3>2. S \in SUBSET Passes /\ i \in S /\ S \ {i} = {}
        BY <1>1
      <3> QED
        BY <1>1, <1>4, <2>1, <3>1, <3>2 DEF TypeOK
    <2>2. ASSUME NEW j \in LiveInSlot(i), Free(j), Lock(i, j),
                 tx' = [tx EXCEPT ![i][j] = RetirePrevious(row[j], seen[i]), ![i][i] = nueva],
                 previous' = [previous EXCEPT
                   ![i] = IF RetirePrevious(row[j], seen[i]).estado = "REVOCADA"
                          THEN j ELSE Nobody]
          PROVE  IInv' /\ Kept
      <3> DEFINE S == {i, j}
                 d == RetirePrevious(row[j], seen[i])
      <3>1. j \in Passes \ {i} /\ row[j] # NoRow
        BY DEF LiveInSlot, Live, Vivas, NoRow
      <3>2. GoodRow(d) /\ Grows(row[j], d) /\ d \in Row
        <4>1. GoodRow(row[j])
          BY <1>1, <3>1 DEF DataOK, RowsOK
        <4>2. GoodRow(d) /\ Grows(row[j], d)
          BY <4>1, RetireGood
        <4> HIDE DEF d
        <4> QED
          BY <4>2 DEF GoodRow
      <3>3. tx' = [tx EXCEPT ![i][j] = d, ![i][i] = nueva]
        BY <2>2
      <3>4. previous' \in [Issuers \cup Revokers -> Passes \cup {Nobody}]
        BY <1>1, <2>2, <3>1 DEF TypeOK
      <3> HIDE DEF d
      <3>5. /\ tx' \in [Requests -> [Passes -> Row \cup {NoRow}]]
            /\ \A q \in Requests \ {i} : tx'[q] = tx[q]
            /\ tx'[i][i] = nueva /\ tx'[i][j] = d
            /\ \A k \in Passes \ {i, j} : tx'[i][k] = tx[i][k]
        BY <1>1, <1>2, <3>1, <3>2, <3>3 DEF TypeOK
      <3>6. /\ rowLock' \in [Passes -> Lockers] /\ rowLock'[j] = i
            /\ \A k \in Passes \ {j} : rowLock'[k] = rowLock[k]
        BY <1>1, <2>2, <3>1 DEF TypeOK, Lock, Lockers
      <3>7. S \in SUBSET Passes /\ i \in S /\ S \ {i} = {j}
        BY <1>1, <3>1
      <3> HIDE DEF S
      <3>8. /\ \A k \in Passes \ S : tx'[i][k] = tx[i][k] /\ rowLock'[k] = rowLock[k]
            /\ \A k \in S \ {i} : /\ row[k] # NoRow /\ Free(k) /\ rowLock'[k] = i
                              /\ GoodRow(tx'[i][k]) /\ Grows(row[k], tx'[i][k])
            /\ rowLock'[i] = rowLock[i]
        BY <1>1, <2>2, <3>1, <3>2, <3>5, <3>6, <3>7 DEF S
      <3> QED
        BY <1>4, <3>4, <3>5, <3>6, <3>7, <3>8
    <2> QED
      BY <2>1, <2>2 DEF IssueReplace, nueva
  <1>5. DataOK'
    <2>1. \A j \in S : GoodRow(tx'[i][j])
      BY <1>2, <1>4
    <2>2. \A j \in S : row[j] = NoRow => i = j /\ rowLock'[j] = rowLock[j]
      BY <1>4
    <2>3. \A j \in S : row[j] # NoRow =>
             Free(j) /\ rowLock'[j] = i /\ Grows(row[j], tx'[i][j])
      BY <1>1, <1>4
    <2> QED
      BY <1>1, <1>4, <2>1, <2>2, <2>3, WriteKeepsData
  <1>6. TypeOK'
    BY <1>1, <1>4 DEF TypeOK, Labels
  <1>7. Others(i)
    BY <1>1, <1>4 DEF TypeOK, Others
  <1>8. RequestOK(i)'
    <2>1. \A j \in Passes \ {i} : tx'[i][j].estado # "EMITIDA"
      BY <1>1, <1>4, GrowsNotEmitida DEF EmitidaOK
    <2> QED
      BY <1>1, <1>2, <1>4, <2>1 DEF TypeOK, RequestOK, IssuerOK, EmitidaOK
  <1> QED
    BY <1>1, <1>3, <1>5, <1>6, <1>7, <1>8, OneRequestStep

LEMMA RegisterTyped ==
  ASSUME TypeOK, NEW j, Register(j)
  PROVE  token' \in [Passes -> [valor : {"NINGUNO", "ACTIVA", "CONSUMIDA"}, hasta : Nat]]
  <1>1. clock + TTL \in Nat
    BY ConstantsAssumption DEF TypeOK
  <1>2. [valor |-> "ACTIVA", hasta |-> clock + TTL]
          \in [valor : {"NINGUNO", "ACTIVA", "CONSUMIDA"}, hasta : Nat]
    BY <1>1
  <1> QED
    BY <1>2 DEF Register, TypeOK

LEMMA ForgetTyped ==
  ASSUME TypeOK, NEW j, Forget(j)
  PROVE  token' \in [Passes -> [valor : {"NINGUNO", "ACTIVA", "CONSUMIDA"}, hasta : Nat]]
  <1>1. NoToken \in [valor : {"NINGUNO", "ACTIVA", "CONSUMIDA"}, hasta : Nat]
    BY DEF NoToken
  <1> QED
    BY <1>1 DEF Forget, TypeOK

LEMMA IssueKeeps ==
  ASSUME IInv, NEW i \in Issuers, Issue(i)
  PROVE  IInv' /\ Kept
  <1>1. /\ TypeOK /\ DataOK /\ RequestOK(i) /\ IssuerOK(i) /\ EmitidaOK(i)
        /\ i \in Requests /\ i \in Passes
        /\ i \notin Askers /\ i \notin Consumers /\ i \notin Sweepers
    BY RequestsAssumption DEF IInv, RequestOK, Requests, Askers, Passes
  <1> USE <1>1
  <1>2. CASE IssueStart(i)
    <2> USE <1>2 DEF IssueStart, Goto, Answer
    <2>1. DataOK' /\ Keeps(i)
      BY QuietKeepsData, QuietKeepsRows
    <2>2. TypeOK'
      <3>1. slot' \in [Issuers -> Slots \cup {NoSlot}]
        BY DEF TypeOK
      <3>2. pc' \in [Requests -> Labels] /\ answer' \in [Requests -> Answers]
        BY DEF TypeOK, Labels, Answers
      <3> QED
        BY <3>1, <3>2 DEF TypeOK
    <2>3. Others(i)
      BY DEF TypeOK, Others
    <2>4. RequestOK(i)'
      BY DEF TypeOK, RequestOK, IssuerOK, EmitidaOK
    <2> QED
      BY <2>1, <2>2, <2>3, <2>4, OneRequestStep
  <1>3. CASE IssueLockPassenger(i)
    <2> USE <1>3 DEF IssueLockPassenger, Goto, Answer
    <2>1. DataOK' /\ Keeps(i)
      BY QuietKeepsData, QuietKeepsRows
    <2>2. TypeOK'
      BY DEF TypeOK, Labels
    <2>3. Others(i)
      BY DEF TypeOK, Others
    <2>4. RequestOK(i)'
      BY DEF TypeOK, RequestOK, IssuerOK, EmitidaOK
    <2> QED
      BY <2>1, <2>2, <2>3, <2>4, OneRequestStep
  <1>4. CASE IssueRefuse(i)
    <2> USE <1>4 DEF IssueRefuse, Goto, Answer
    <2>1. DataOK' /\ Keeps(i)
      BY QuietKeepsData, QuietKeepsRows
    <2>2. TypeOK'
      BY DEF TypeOK, Labels, Answers
    <2>3. Others(i)
      BY DEF TypeOK, Others
    <2>4. RequestOK(i)'
      BY DEF TypeOK, RequestOK, IssuerOK, EmitidaOK
    <2> QED
      BY <2>1, <2>2, <2>3, <2>4, OneRequestStep
  <1>5. CASE IssueForget(i)
    <2> USE <1>5 DEF IssueForget, Goto, Answer
    <2>1. DataOK' /\ Keeps(i)
      BY QuietKeepsData, QuietKeepsRows
    <2>2. TypeOK'
      <3>1. token' \in [Passes -> [valor : {"NINGUNO", "ACTIVA", "CONSUMIDA"}, hasta : Nat]]
        BY <1>5, ForgetTyped
      <3> QED
        BY <3>1 DEF TypeOK, Labels, Answers
    <2>3. Others(i)
      BY DEF TypeOK, Others
    <2>4. RequestOK(i)'
      BY DEF TypeOK, RequestOK, IssuerOK, EmitidaOK
    <2> QED
      BY <2>1, <2>2, <2>3, <2>4, OneRequestStep
  <1>6. CASE IssueReplace(i)
    BY <1>6, IssueReplaceKeeps
  <1>7. ASSUME NEW a \in {"ACTIVA", "REVOCADA"}, NEW l \in {"commit", "commitFailed"},
               pc[i] = "register",
               Write(i, i, Transition(tx[i][i], a, Sistema)),
               Goto(i, l),
               token' \in [Passes -> [valor : {"NINGUNO", "ACTIVA", "CONSUMIDA"}, hasta : Nat]],
               UNCHANGED << clock, seen, slot, target, row, paxLock, rowLock, previous, answer >>
        PROVE  IInv' /\ Kept
    <2> DEFINE d == Transition(tx[i][i], a, Sistema)
    <2>1. GoodRow(tx[i][i]) /\ tx[i][i] # NoRow /\ row[i] = NoRow
      BY <1>7 DEF IssuerOK, DataOK, TxOK
    <2>2. GoodRow(d) /\ d \in Row /\ d # NoRow
          /\ Grows(tx[i][i], d) /\ (tx[i][i].estado = "EMITIDA" => d.estado = a)
      <3>1. a \in Estados \ {"EMITIDA"} /\ a # "CONSUMIDA" /\ Sistema \in Actors
        BY DEF Estados, Actors
      <3>2. /\ GoodRow(d) /\ Grows(tx[i][i], d)
            /\ tx[i][i].estado = "EMITIDA" /\ a # "CONSUMIDA" => d.estado = a
        BY <2>1, <3>1, TransitionGood
      <3> HIDE DEF d
      <3> QED
        BY <3>1, <3>2, NoRowIsNoRow DEF GoodRow
    <2>3. Write(i, i, d)
      BY <1>7
    <2> HIDE DEF d
    <2>4. /\ tx'[i][i] = d
          /\ \A q \in Requests \ {i} : tx'[q] = tx[q]
          /\ \A j \in Passes \ {i} : tx'[i][j] = tx[i][j]
      BY <2>3 DEF TypeOK, Write
    <2>5. DataOK'
      <3>1. RowsOK'
        BY <1>7 DEF DataOK, RowsOK
      <3>2. TxOK'
        BY <1>7, <2>1, <2>2, <2>4 DEF DataOK, TxOK
      <3> QED
        BY <3>1, <3>2 DEF DataOK
    <2>6. Keeps(i)
      BY <1>7, QuietKeepsRows
    <2>7. TypeOK'
      <3>1. TablesTyped'
        BY <1>7, <2>2, <2>3, WriteTyped DEF TypeOK
      <3> QED
        BY <1>7, <3>1 DEF TypeOK, TablesTyped, Labels, Goto
    <2>8. Others(i)
      BY <1>7, <2>4 DEF TypeOK, Others, Goto
    <2>9. RequestOK(i)'
      <3>1. d.estado # "EMITIDA"
        BY <2>2 DEF Grows
      <3>2. EmitidaOK(i)'
        BY <2>4, <3>1 DEF EmitidaOK
      <3>3. IssuerOK(i)'
        BY <1>7, <2>1 DEF TypeOK, IssuerOK, Goto
      <3> QED
        BY <3>2, <3>3 DEF RequestOK
    <2> QED
      BY <2>5, <2>6, <2>7, <2>8, <2>9, OneRequestStep
  <1>8. CASE IssueRegister(i)
    <2>1. token' \in [Passes -> [valor : {"NINGUNO", "ACTIVA", "CONSUMIDA"}, hasta : Nat]]
      BY <1>8, RegisterTyped DEF IssueRegister
    <2> QED
      BY <1>7, <1>8, <2>1 DEF IssueRegister, Activar
  <1>9. CASE IssueRegisterFailed(i)
    <2>1. token' \in [Passes -> [valor : {"NINGUNO", "ACTIVA", "CONSUMIDA"}, hasta : Nat]]
      BY <1>9, RegisterTyped DEF IssueRegisterFailed, TypeOK
    <2> QED
      BY <1>7, <1>9, <2>1 DEF IssueRegisterFailed, Revocar
  <1>10. ASSUME pc[i] \in {"commit", "commitFailed"}, Commit(i),
                NEW l \in {"done", "forget"}, Goto(i, l),
                answer' \in [Requests -> Answers],
                \A q \in Requests \ {i} : answer'[q] = answer[q],
                UNCHANGED << clock, seen, slot, target, token, previous >>
         PROVE  IInv' /\ Kept
    <2>1. DataOK' /\ Keeps(i) /\ TablesTyped'
          /\ tx'[i] = NoTx /\ \A q \in Requests \ {i} : tx'[q] = tx[q]
      BY <1>10, CommitKeepsData, CommitTyped, ReleaseTyped DEF Commit
    <2>2. TypeOK'
      BY <1>10, <2>1 DEF TypeOK, TablesTyped, Labels, Goto
    <2>3. Others(i)
      BY <1>10, <2>1 DEF TypeOK, Others, Goto
    <2>4. RequestOK(i)'
      BY <1>10, <2>1, NothingHeld DEF TypeOK, RequestOK, IssuerOK, Goto
    <2> QED
      BY <2>1, <2>2, <2>3, <2>4, OneRequestStep
  <1>11. CASE IssueCommit(i)
    <2>1. answer' \in [Requests -> Answers] /\ \A q \in Requests \ {i} : answer'[q] = answer[q]
      BY <1>11 DEF IssueCommit, Answer, TypeOK, Answers
    <2> QED
      BY <1>10, <1>11, <2>1 DEF IssueCommit
  <1>12. CASE IssueCommitFailed(i)
    <2>1. answer' \in [Requests -> Answers] /\ \A q \in Requests \ {i} : answer'[q] = answer[q]
      BY <1>12 DEF IssueCommitFailed, Answer, TypeOK, Answers
    <2> QED
      BY <1>10, <1>12, <2>1 DEF IssueCommitFailed
  <1> QED
    BY <1>2, <1>3, <1>4, <1>5, <1>6, <1>8, <1>9, <1>11, <1>12 DEF Issue

\* A killed request leaves nothing half done.
LEMMA CrashKeeps ==
  ASSUME IInv, NEW r \in Requests, Crash(r)
  PROVE  IInv' /\ Kept
  <1>1. TypeOK /\ DataOK /\ RequestOK(r)
    BY DEF IInv
  <1>2. /\ pc[r] \notin {"start", "done"}
        /\ UNCHANGED << clock, seen, slot, target, token, previous >>
        /\ \/ r \in Sweepers /\ Goto(r, "start") /\ UNCHANGED answer
           \/ r \notin Sweepers /\ Goto(r, "done") /\ Answer(r, "ERROR")
    BY DEF Crash
  <1>3. /\ DataOK' /\ Keeps(r) /\ TablesTyped'
        /\ tx'[r] = NoTx /\ \A q \in Requests \ {r} : tx'[q] = tx[q]
    <2>1. CASE Release(r) /\ UNCHANGED row
      BY <1>1, <2>1, ReleaseKeepsData, QuietKeepsRows, ReleaseTyped DEF TypeOK, TablesTyped
    <2>2. CASE pc[r] \in {"commit", "commitFailed"} /\ Commit(r)
      BY <1>1, <2>2, CommitKeepsData, CommitTyped, ReleaseTyped DEF Commit
    <2> QED
      BY <2>1, <2>2 DEF Crash
  <1>4. pc' \in [Requests -> Labels] /\ answer' \in [Requests -> Answers]
    BY <1>1, <1>2 DEF TypeOK, Labels, Answers, Goto, Answer
  <1>5. TypeOK'
    BY <1>1, <1>2, <1>3, <1>4 DEF TypeOK, TablesTyped
  <1>6. Others(r)
    BY <1>1, <1>2, <1>3 DEF TypeOK, Others, Goto, Answer
  <1>7. RequestOK(r)'
    <2>1. EmitidaOK(r)'
      BY <1>3, NothingHeld
    <2>2. CASE r \in Sweepers
      BY <1>1, <2>1, <2>2, RequestsAssumption DEF RequestOK, Askers
    <2>3. CASE r \notin Sweepers
      <3>1. pc'[r] = "done" /\ answer'[r] = "ERROR"
        BY <1>1, <1>2, <2>3 DEF TypeOK, Goto, Answer
      <3>2. (r \in Askers => target'[r] \in Passes)
        BY <1>1, <1>2 DEF RequestOK, AskerOK
      <3> QED
        BY <2>1, <3>1, <3>2 DEF RequestOK, IssuerOK, AskerOK, ConsumerOK
    <2> QED
      BY <2>2, <2>3
  <1> QED
    BY <1>3, <1>5, <1>6, <1>7, OneRequestStep

\* Time, and steps that change nothing.
LEMMA TickKeeps ==
  ASSUME IInv, Tick \/ UNCHANGED vars
  PROVE  IInv' /\ Kept
  <1>1. /\ UNCHANGED << pc, target, row, tx, rowLock, answer >>
        /\ UNCHANGED << seen, slot, paxLock, token, previous >>
        /\ clock' = clock \/ (clock < MaxClock /\ clock' = clock + 1)
    BY DEF Tick, vars
  <1>2. TypeOK'
    BY <1>1, ConstantsAssumption DEF IInv, TypeOK
  <1>3. DataOK'
    BY <1>1, QuietKeepsData DEF IInv
  <1>4. \A r \in Requests : RequestOK(r)'
    BY <1>1 DEF IInv, RequestOK, IssuerOK, AskerOK, ConsumerOK, EmitidaOK, Redeemed
  <1>5. Kept
    BY <1>1, GrowsReflexive DEF IInv, DataOK, RowsOK, Kept
  <1> QED
    BY <1>2, <1>3, <1>4, <1>5 DEF IInv

LEMMA InitEstablishes == Init => IInv
  <1> SUFFICES ASSUME Init PROVE IInv
    OBVIOUS
  <1> USE DEF Init
  <1>1. TypeOK
    BY ConstantsAssumption, RequestsAssumption, NoRowIsNotEmitida
       DEF TypeOK, Labels, Answers, Lockers, NoTx, NoToken
  <1>2. DataOK
    BY DEF DataOK, RowsOK, TxOK, NoTx
  <1>3. \A r \in Requests : RequestOK(r)
    BY NoRowIsNotEmitida
       DEF RequestOK, IssuerOK, AskerOK, ConsumerOK, EmitidaOK, NoTx, Passes
  <1> QED
    BY <1>1, <1>2, <1>3 DEF IInv

LEMMA NextKeeps == IInv /\ [Next]_vars => IInv' /\ Kept
  <1> SUFFICES ASSUME IInv, [Next]_vars PROVE IInv' /\ Kept
    OBVIOUS
  <1>1. CASE Tick \/ UNCHANGED vars
    BY <1>1, TickKeeps
  <1>2. CASE \E i \in Issuers : Issue(i)
    BY <1>2, IssueKeeps
  <1>3. CASE \E c \in Consumers : Consume(c)
    BY <1>3, ConsumeKeeps
  <1>4. CASE \E v \in Revokers : Revoke(v)
    BY <1>4, RevokeKeeps
  <1>5. CASE \E w \in Viewers : View(w)
    BY <1>5, ViewKeeps
  <1>6. CASE \E s \in Sweepers : Sweep(s)
    BY <1>6, SweepKeeps
  <1>7. CASE \E r \in Requests : Crash(r)
    BY <1>7, CrashKeeps
  <1> QED
    BY <1>1, <1>2, <1>3, <1>4, <1>5, <1>6, <1>7 DEF Next

\* The inductive invariant holds in every reachable state.
THEOREM Invariance == Spec => []IInv
  <1>1. IInv /\ [Next]_vars => IInv'
    BY NextKeeps
  <1> QED
    BY <1>1, InitEstablishes, PTL DEF Spec

-----------------------------------------------------------------------------
(* What follows.                                                            *)

\* Every variable keeps its type whatever the number of requests, and no
\* committed credential is EMITIDA.
THEOREM TypeCorrect == Spec => []TypeOK
  <1>1. IInv => TypeOK
    BY DEF IInv
  <1> QED
    BY <1>1, Invariance, PTL

\* RN-06: no two checkpoints are told CONSUMIDA for one credential. Each has
\* its redemption in the history, and a history holds one redemption.
THEOREM SingleUseHolds == Spec => []SingleUse
  <1>1. IInv => SingleUse
    <2> SUFFICES ASSUME IInv, NEW c \in Consumers, NEW d \in Consumers,
                        answer[c] = "CONSUMIDA", answer[d] = "CONSUMIDA",
                        target[c] = target[d]
                 PROVE  c = d
      BY DEF SingleUse
    <2>1. /\ Redeemed(c) /\ Redeemed(d) /\ target[c] \in Passes
      BY DEF IInv, RequestOK, ConsumerOK, AskerOK, Requests, Askers
    <2>2. GoodRow(row[target[c]])
      BY <2>1 DEF IInv, DataOK, RowsOK, Redeemed
    <2> QED
      BY <2>1, <2>2 DEF Redeemed, GoodRow
  <1> QED
    BY <1>1, Invariance, PTL

\* FR-018, FR-019: the committed history of every credential explains its
\* estado, entry by entry, by the documented table.
THEOREM HistoryExplainsRowHolds == Spec => []HistoryExplainsRow
  <1>1. IInv => HistoryExplainsRow
    BY DEF IInv, DataOK, RowsOK, GoodRow, HistoryExplainsRow
  <1> QED
    BY <1>1, Invariance, PTL

\* What is committed is kept: histories only grow, deadlines never move, a
\* final estado is final.
THEOREM CommittedIsKeptHolds == Spec => CommittedIsKept
  <1>1. ASSUME IInv, [Next]_vars, NEW j \in Passes, row[j] # NoRow
        PROVE  /\ Extends(row[j].hist, row'[j].hist)
               /\ row'[j].expira = row[j].expira
               /\ row[j].estado \in Finales => row'[j].estado = row[j].estado
    BY <1>1, NextKeeps DEF Kept, Grows
  <1> DEFINE A == \A j \in Passes : row[j] # NoRow =>
                    /\ Extends(row[j].hist, row'[j].hist)
                    /\ row'[j].expira = row[j].expira
                    /\ row[j].estado \in Finales => row'[j].estado = row[j].estado
  <1>2. IInv /\ [Next]_vars => [A]_vars
    BY <1>1
  <1> QED
    BY <1>2, Invariance, PTL DEF CommittedIsKept, Spec
=============================================================================
