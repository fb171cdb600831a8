------------------------- MODULE PassPromiseProofs -------------------------
(***************************************************************************)
(* The second half of what PassLifecycle guarantees for any number of      *)
(* requests: its answers, its tokens in Redis, one live pass per flight,   *)
(* and that it implements SingleUsePass. PassLifecycleProofs tells what a  *)
(* transaction may write; this module tells what each request does write,  *)
(* step by step, and what nobody else can do meanwhile.                    *)
(***************************************************************************)
EXTENDS PassLifecycleProofs

-----------------------------------------------------------------------------
(* One credential: who added what to its history.                           *)

\* h is g and entries of r, or of the system when they redeem nothing.
Adds(r, g, h) ==
  /\ Extends(g, h)
  /\ \A k \in Len(g) + 1 .. Len(h) :
       h[k].por = r \/ (h[k].por = Sistema /\ h[k].a # "CONSUMIDA")

\* The k-th entry of h is the only one by c.
OnlyAt(c, h, k) ==
  /\ k \in 1 .. Len(h)
  /\ \A l \in 1 .. Len(h) : h[l].por = c <=> l = k

Without(c, h) == \A k \in 1 .. Len(h) : h[k].por # c

LEMMA HistoryTyped ==
  ASSUME NEW c, GoodRow(c)
  PROVE  /\ c \in Row /\ c.estado \in Estados /\ c.expira \in Nat
         /\ c.hist \in Seq(Entry) /\ Len(c.hist) \in Nat /\ Len(c.hist) > 0
         /\ c.estado = Despues(c.hist[Len(c.hist)])
         /\ \A k \in 1 .. Len(c.hist) : c.hist[k] \in Entry
  <1>1. c \in Row /\ Explains(c.hist, c.estado)
    BY DEF GoodRow
  <1>2. c.estado \in Estados /\ c.expira \in Nat /\ c.hist \in Seq(Entry)
    BY <1>1 DEF Row
  <1> QED
    BY <1>1, <1>2 DEF Explains

LEMMA AddsReflexive ==
  ASSUME NEW r, NEW c, GoodRow(c)
  PROVE  Adds(r, c.hist, c.hist)
  BY HistoryTyped DEF Adds, Extends

LEMMA AddsTransitive ==
  ASSUME NEW r, NEW c, NEW d, NEW e, GoodRow(c), GoodRow(d), GoodRow(e),
         Adds(r, c.hist, d.hist), Adds(r, d.hist, e.hist)
  PROVE  Adds(r, c.hist, e.hist)
  <1>1. Len(c.hist) \in Nat /\ Len(d.hist) \in Nat /\ Len(e.hist) \in Nat
    BY HistoryTyped
  <1>2. Extends(c.hist, e.hist)
    BY <1>1 DEF Adds, Extends
  <1>3. ASSUME NEW k \in Len(c.hist) + 1 .. Len(e.hist)
        PROVE  e.hist[k].por = r \/ (e.hist[k].por = Sistema /\ e.hist[k].a # "CONSUMIDA")
    <2>1. CASE k <= Len(d.hist)
      <3>1. e.hist[k] = d.hist[k] /\ k \in Len(c.hist) + 1 .. Len(d.hist)
        BY <1>1, <2>1 DEF Adds, Extends
      <3> QED
        BY <3>1 DEF Adds
    <2>2. CASE k > Len(d.hist)
      BY <1>1, <2>2 DEF Adds
    <2> QED
      BY <1>1, <2>1, <2>2
  <1> QED
    BY <1>2, <1>3 DEF Adds

\* What a transition answers: accepted exactly when the documented table allows
\* it, and the estado follows.
LEMMA TransitionResult ==
  ASSUME NEW c, GoodRow(c), NEW a \in Estados \ {"EMITIDA"}, NEW por \in Actors,
         NEW d, d = Transition(c, a, por)
  PROVE  /\ GoodRow(d) /\ Grows(c, d)
         /\ Len(d.hist) = Len(c.hist) + 1
         /\ d.hist[Len(d.hist)].de = c.estado
         /\ d.hist[Len(d.hist)].a = a
         /\ d.hist[Len(d.hist)].por = por
         /\ UltimaAceptada(d) <=> << c.estado, a >> \in Legal
         /\ d.estado = IF << c.estado, a >> \in Legal THEN a ELSE c.estado
  <1> DEFINE n == Len(c.hist)
  <1>1. /\ GoodRow(d) /\ Grows(c, d) /\ Len(d.hist) = n + 1
        /\ d.hist[n + 1].a = a /\ d.hist[n + 1].por = por
    BY TransitionGood
  <1>2. /\ n \in Nat /\ n > 0 /\ c.estado = Despues(c.hist[n])
        /\ d.estado = Despues(d.hist[n + 1])
    BY <1>1, HistoryTyped
  <1>3. d.hist[n] = c.hist[n]
    BY <1>1, <1>2 DEF Grows, Extends
  <1>4. Follows(d.hist[n], d.hist[n + 1])
    <2>1. Explains(d.hist, d.estado) /\ n + 1 \in 2 .. Len(d.hist) /\ (n + 1) - 1 = n
      BY <1>1, <1>2 DEF GoodRow
    <2> QED
      BY <2>1 DEF Explains
  <1>5. d.hist[n + 1].de = c.estado
    BY <1>2, <1>3, <1>4 DEF Follows
  <1>6. d.hist[n + 1].aceptada <=> << c.estado, a >> \in Legal
    BY <1>1, <1>4, <1>5 DEF Follows
  <1>7. d.estado = IF << c.estado, a >> \in Legal THEN a ELSE c.estado
    BY <1>1, <1>2, <1>5, <1>6 DEF Despues
  <1> QED
    BY <1>1, <1>5, <1>6, <1>7 DEF UltimaAceptada

LEMMA TransitionAdds ==
  ASSUME NEW c, GoodRow(c), NEW a \in Estados \ {"EMITIDA"}, NEW por \in Actors,
         NEW d, d = Transition(c, a, por),
         NEW r, por = r \/ (por = Sistema /\ a # "CONSUMIDA")
  PROVE  Adds(r, c.hist, d.hist)
  <1>1. /\ Grows(c, d) /\ Len(d.hist) = Len(c.hist) + 1
        /\ d.hist[Len(d.hist)].a = a /\ d.hist[Len(d.hist)].por = por
    BY TransitionGood
  <1>2. Len(c.hist) \in Nat
    BY HistoryTyped
  <1> QED
    BY <1>1, <1>2 DEF Adds, Grows

\* Lazy expiry: a credential that is not final and past its deadline expires,
\* and nothing else happens to any.
LEMMA RefreshResult ==
  ASSUME NEW c, GoodRow(c), NEW now, NEW d, d = RefreshExpiry(c, now), NEW r
  PROVE  /\ GoodRow(d) /\ Grows(c, d) /\ Adds(r, c.hist, d.hist)
         /\ c.estado \notin Finales /\ now >= c.expira => d.estado = "EXPIRADA"
         /\ c.estado \in Finales \/ ~(now >= c.expira) => d = c
  <1>1. c.estado \in Estados
    BY HistoryTyped
  <1>2. IsFinal(c.estado) <=> c.estado \in Finales
    BY <1>1 DEF IsFinal, Allowed, Finales, Estados
  <1>3. CASE c.estado \in Finales \/ ~(now >= c.expira)
    <2>1. d = c
      BY <1>2, <1>3 DEF RefreshExpiry, IsExpired
    <2> QED
      BY <1>3, <2>1, GrowsReflexive, AddsReflexive
  <1>4. CASE c.estado \notin Finales /\ now >= c.expira
    <2>1. d = Transition(c, "EXPIRADA", Sistema)
      BY <1>2, <1>4 DEF RefreshExpiry, IsExpired, Expirar
    <2>2. "EXPIRADA" \in Estados \ {"EMITIDA"} /\ Sistema \in Actors
      BY DEF Estados, Actors
    <2>3. Adds(r, c.hist, d.hist)
      BY <2>1, <2>2, TransitionAdds
    <2>4. GoodRow(d) /\ Grows(c, d) /\ d.estado = "EXPIRADA"
      <3>1. << c.estado, "EXPIRADA" >> \in Legal
        BY <1>1, <1>4 DEF Legal, Finales, Estados
      <3> QED
        BY <2>1, <2>2, <3>1, TransitionResult
    <2> QED
      BY <1>4, <2>3, <2>4
  <1> QED
    BY <1>3, <1>4

\* consumir, after the lazy expiry, by c at the instant now.
LEMMA ConsumirResult ==
  ASSUME NEW x, GoodRow(x), NEW now, NEW c \in Consumers,
         NEW d, d = Consumir(RefreshExpiry(x, now), c)
  PROVE  /\ Adds(c, x.hist, d.hist)
         /\ Without(c, x.hist) => OnlyAt(c, d.hist, Len(d.hist))
         /\ UltimaAceptada(d) => ~(now >= d.expira)
  <1> DEFINE e == RefreshExpiry(x, now)
  <1>1. /\ GoodRow(e) /\ Grows(x, e) /\ \A r : Adds(r, x.hist, e.hist)
        /\ x.estado \notin Finales /\ now >= x.expira => e.estado = "EXPIRADA"
        /\ x.estado \in Finales \/ ~(now >= x.expira) => e = x
    BY RefreshResult
  <1>2. "CONSUMIDA" \in Estados \ {"EMITIDA"} /\ c \in Actors
    BY DEF Estados, Actors
  <1>3. d = Transition(e, "CONSUMIDA", c)
    BY DEF Consumir
  <1> HIDE DEF e
  <1>4. /\ GoodRow(d) /\ Grows(e, d) /\ Adds(c, e.hist, d.hist)
        /\ Len(d.hist) = Len(e.hist) + 1 /\ d.hist[Len(d.hist)].por = c
        /\ UltimaAceptada(d) <=> << e.estado, "CONSUMIDA" >> \in Legal
    BY <1>1, <1>2, <1>3, TransitionResult, TransitionAdds
  <1>5. Adds(c, x.hist, d.hist)
    BY <1>1, <1>4, AddsTransitive
  <1>6. ASSUME Without(c, x.hist)
        PROVE  OnlyAt(c, d.hist, Len(d.hist))
    <2>1. Len(x.hist) \in Nat /\ Len(e.hist) \in Nat
      BY <1>1, HistoryTyped
    <2>2. c # Sistema
      BY RequestsAssumption DEF Requests
    <2>3. ASSUME NEW k \in 1 .. Len(e.hist)
          PROVE  e.hist[k].por # c /\ d.hist[k] = e.hist[k]
      <3>1. CASE k <= Len(x.hist)
        BY <1>1, <1>4, <1>6, <2>1, <3>1 DEF Without, Grows, Extends
      <3>2. CASE k > Len(x.hist)
        <4>1. Adds(Sistema, x.hist, e.hist)
          BY <1>1
        <4> QED
          BY <1>4, <2>1, <2>2, <3>2, <4>1 DEF Adds, Grows, Extends
      <3> QED
        BY <2>1, <3>1, <3>2
    <2> QED
      BY <1>4, <2>1, <2>3 DEF OnlyAt
  <1>7. ASSUME UltimaAceptada(d)
        PROVE  ~(now >= d.expira)
    <2>1. e.estado = "ACTIVA"
      BY <1>4, <1>7 DEF Legal
    <2>2. x.estado \notin Finales
      BY <1>1, <2>1 DEF Grows, Finales
    <2>3. ~(now >= x.expira)
      BY <1>1, <2>1, <2>2
    <2> QED
      BY <1>1, <1>4, <2>3 DEF Grows
  <1> QED
    BY <1>5, <1>6, <1>7

\* What issue does to the live credential of the flight: it expires or it is
\* revoked.
LEMMA RetireResult ==
  ASSUME NEW c, GoodRow(c), c.estado = "ACTIVA", NEW now, NEW d, d = RetirePrevious(c, now),
         NEW r
  PROVE  Adds(r, c.hist, d.hist) /\ d.estado \in {"EXPIRADA", "REVOCADA"}
  <1> DEFINE e == RefreshExpiry(c, now)
  <1>1. /\ Adds(r, c.hist, e.hist)
        /\ now >= c.expira => e.estado = "EXPIRADA"
        /\ ~(now >= c.expira) => e = c
    BY RefreshResult DEF Finales
  <1>2. CASE e # c
    <2>1. d = e
      BY <1>2 DEF RetirePrevious
    <2> QED
      BY <1>1, <1>2, <2>1
  <1>3. CASE e = c
    <2>1. d = Transition(c, "REVOCADA", Sistema)
      BY <1>3 DEF RetirePrevious, Revocar
    <2>2. "REVOCADA" \in Estados \ {"EMITIDA"} /\ Sistema \in Actors
          /\ << c.estado, "REVOCADA" >> \in Legal
      BY DEF Estados, Actors, Legal
    <2>3. Adds(r, c.hist, d.hist)
      BY <2>1, <2>2, TransitionAdds
    <2>4. d.estado = "REVOCADA"
      BY <2>1, <2>2, TransitionResult
    <2> QED
      BY <2>3, <2>4
  <1> QED
    BY <1>2, <1>3

\* revocar, with or without lazy expiry before it.
LEMMA RevocarResult ==
  ASSUME NEW x, GoodRow(x), NEW now, NEW d, d = Revocar(RefreshExpiry(x, now)), NEW r
  PROVE  /\ Adds(r, x.hist, d.hist)
         /\ UltimaAceptada(d) => d.estado = "REVOCADA"
  <1> DEFINE e == RefreshExpiry(x, now)
  <1>1. GoodRow(e) /\ Adds(r, x.hist, e.hist)
    BY RefreshResult
  <1>2. "REVOCADA" \in Estados \ {"EMITIDA"} /\ Sistema \in Actors
    BY DEF Estados, Actors
  <1>3. d = Transition(e, "REVOCADA", Sistema)
    BY DEF Revocar
  <1> HIDE DEF e
  <1>4. /\ GoodRow(d)
        /\ UltimaAceptada(d) <=> << e.estado, "REVOCADA" >> \in Legal
        /\ d.estado = IF << e.estado, "REVOCADA" >> \in Legal THEN "REVOCADA" ELSE e.estado
    BY <1>1, <1>2, <1>3, TransitionResult
  <1>5. Adds(r, e.hist, d.hist)
    BY <1>1, <1>2, <1>3, TransitionAdds
  <1>6. Adds(r, x.hist, d.hist)
    BY <1>1, <1>4, <1>5, AddsTransitive
  <1> QED
    BY <1>4, <1>6

\* The emission, and what activar and revocar make of it.
LEMMA EmisionResult ==
  ASSUME NEW e \in Nat, NEW c, c = Emitir(e), NEW r
  PROVE  GoodRow(c) /\ Adds(r, << >>, c.hist) /\ c.estado = "EMITIDA" /\ c.expira = e
  <1>1. GoodRow(c) /\ c.estado = "EMITIDA"
    BY EmitirGood
  <1> DEFINE t == Transicion("AUSENTE", "EMITIDA", TRUE, Sistema)
             g == << >>
             h == << t >>
  <1>2. c.hist = h /\ c.expira = e
    BY DEF Emitir
  <1>3. Len(h) = 1 /\ h[1] = t /\ Len(g) = 0
    OBVIOUS
  <1>4. t.por = Sistema /\ t.a # "CONSUMIDA"
    BY DEF Transicion
  <1> HIDE DEF t, h, g
  <1>5. Adds(r, g, h)
    BY <1>3, <1>4 DEF Adds, Extends
  <1> QED
    BY <1>1, <1>2, <1>5 DEF g

LEMMA AddsToNothing ==
  ASSUME NEW r, NEW c, NEW d, GoodRow(c), GoodRow(d),
         Adds(r, << >>, c.hist), Adds(r, c.hist, d.hist)
  PROVE  Adds(r, << >>, d.hist)
  <1> DEFINE g == << >>
  <1>1. Len(g) = 0 /\ Len(c.hist) \in Nat /\ Len(d.hist) \in Nat
    BY HistoryTyped
  <1> HIDE DEF g
  <1>2. ASSUME NEW k \in Len(g) + 1 .. Len(d.hist)
        PROVE  d.hist[k].por = r \/ (d.hist[k].por = Sistema /\ d.hist[k].a # "CONSUMIDA")
    <2>1. Adds(r, g, c.hist)
      BY DEF g
    <2>2. CASE k <= Len(c.hist)
      BY <1>1, <2>1, <2>2 DEF Adds, Extends
    <2>3. CASE k > Len(c.hist)
      BY <1>1, <2>3 DEF Adds
    <2> QED
      BY <1>1, <2>2, <2>3
  <1>3. Adds(r, g, d.hist)
    BY <1>1, <1>2 DEF Adds, Extends
  <1> QED
    BY <1>3 DEF g

\* activar and revocar of a credential just emitted.
LEMMA FirstTransition ==
  ASSUME NEW c, GoodRow(c), c.estado = "EMITIDA", NEW a \in {"ACTIVA", "REVOCADA"},
         NEW d, d = Transition(c, a, Sistema), NEW r
  PROVE  Adds(r, c.hist, d.hist) /\ d.estado = a /\ d.expira = c.expira /\ GoodRow(d)
  <1>1. a \in Estados \ {"EMITIDA"} /\ Sistema \in Actors /\ << c.estado, a >> \in Legal
    BY DEF Estados, Actors, Legal
  <1>2. Adds(r, c.hist, d.hist)
    BY <1>1, TransitionAdds
  <1>3. GoodRow(d) /\ Grows(c, d) /\ d.estado = a
    BY <1>1, TransitionResult
  <1> QED
    BY <1>2, <1>3 DEF Grows

\* A history that grows by what r adds becomes a redemption only by r's hand,
\* and then r is the checkpoint that used the pass.
LEMMA RedeemedByAdder ==
  ASSUME NEW c, NEW d, GoodRow(d), GoodRow(c), NEW r, Adds(r, c.hist, d.hist),
         c.estado # "CONSUMIDA", d.estado = "CONSUMIDA"
  PROVE  UsedBy(d.hist) = r
  <1> DEFINE h == d.hist
             K == {k \in 1 .. Len(h) : Redemption(h[k])}
  <1>1. Len(c.hist) \in Nat /\ Len(h) \in Nat
    BY HistoryTyped
  <1>2. \E k \in 1 .. Len(h) : Redemption(h[k])
    BY DEF GoodRow
  <1>3. ASSUME NEW k \in 1 .. Len(h), Redemption(h[k])
        PROVE  h[k].por = r
    <2>1. CASE k <= Len(c.hist)
      <3>1. k \in 1 .. Len(c.hist) /\ c.hist[k] = h[k]
        BY <1>1, <2>1 DEF Adds, Extends
      <3> QED
        BY <1>3, <3>1 DEF GoodRow
    <2>2. CASE k > Len(c.hist)
      <3>1. h[k].por = r \/ h[k].a # "CONSUMIDA"
        BY <1>1, <2>2 DEF Adds
      <3> QED
        BY <1>3, <3>1 DEF Redemption
    <2> QED
      BY <1>1, <2>1, <2>2
  <1> DEFINE m == CHOOSE k \in 1 .. Len(h) : Redemption(h[k])
  <1>4. m \in 1 .. Len(h) /\ Redemption(h[m])
    BY <1>2
  <1>5. UsedBy(h) = h[m].por
    BY <1>2 DEF UsedBy
  <1> HIDE DEF m
  <1> QED
    BY <1>3, <1>4, <1>5

\* Whoever used a pass is not forgotten by what is added to its history.
LEMMA UsedByKept ==
  ASSUME NEW c, NEW d, GoodRow(c), GoodRow(d), Grows(c, d), c.estado = d.estado
  PROVE  UsedBy(c.hist) = UsedBy(d.hist)
  <1> DEFINE g == c.hist
             h == d.hist
  <1>1. Len(g) \in Nat /\ Len(h) \in Nat /\ Len(g) <= Len(h)
        /\ \A k \in 1 .. Len(g) : h[k] = g[k]
    BY HistoryTyped DEF Grows, Extends
  <1>2. CASE c.estado = "CONSUMIDA"
    <2>1. PICK n \in 1 .. Len(g) : Redemption(g[n])
      BY <1>2 DEF GoodRow
    <2>2. /\ n \in 1 .. Len(h) /\ h[n] = g[n]
          /\ \A k \in 1 .. Len(h) : Redemption(h[k]) <=> k = n
          /\ \A k \in 1 .. Len(g) : Redemption(g[k]) <=> k = n
      BY <1>1, <2>1 DEF GoodRow
    <2>3. (CHOOSE k \in 1 .. Len(h) : Redemption(h[k])) = n
      BY <2>2
    <2>4. (CHOOSE k \in 1 .. Len(g) : Redemption(g[k])) = n
      BY <2>1, <2>2
    <2>5. UsedBy(g) = g[n].por
      BY <2>1, <2>4 DEF UsedBy
    <2>6. UsedBy(h) = h[n].por
      BY <2>2, <2>1, <2>3 DEF UsedBy
    <2> QED
      BY <2>2, <2>5, <2>6
  <1>3. CASE c.estado # "CONSUMIDA"
    <2>1. ~\E k \in 1 .. Len(g) : Redemption(g[k])
      BY <1>3 DEF GoodRow
    <2>2. ~\E k \in 1 .. Len(h) : Redemption(h[k])
      BY <1>3 DEF GoodRow
    <2> QED
      BY <2>1, <2>2 DEF UsedBy
  <1> QED
    BY <1>2, <1>3

\* A credential that is not CONSUMIDA was used by nobody; nor was one that is
\* not there.
LEMMA UsedByNobody ==
  ASSUME NEW c, GoodRow(c), c.estado # "CONSUMIDA"
  PROVE  UsedBy(c.hist) = Nobody
  BY DEF GoodRow, UsedBy

LEMMA NoRowFacts ==
  /\ NoRow.estado = "AUSENTE" /\ Len(NoRow.hist) = 0 /\ NoRow.hist = << >>
  /\ UsedBy(NoRow.hist) = Nobody /\ ~Live(NoRow)
  <1> DEFINE g == << >>
  <1>1. NoRow.estado = "AUSENTE" /\ NoRow.hist = g /\ Len(g) = 0
    BY DEF NoRow
  <1>2. ~Live(NoRow)
    BY <1>1 DEF Live, Vivas
  <1> HIDE DEF g
  <1>3. UsedBy(g) = Nobody
    BY <1>1 DEF UsedBy
  <1> QED
    BY <1>1, <1>2, <1>3 DEF g

\* The rejection that consume answers is what the entry it wrote says.
LEMMA RejectionIsRecorded ==
  ASSUME NEW d, GoodRow(d), d.estado # "EMITIDA", d.hist[Len(d.hist)].a = "CONSUMIDA",
         ~UltimaAceptada(d)
  PROVE  /\ ~d.hist[Len(d.hist)].aceptada
         /\ \/ /\ Rejection(d.estado) = "YA_CONSUMIDA"
               /\ d.hist[Len(d.hist)].de = "CONSUMIDA"
            \/ /\ Rejection(d.estado) = "EXPIRADA"
               /\ d.hist[Len(d.hist)].de = "EXPIRADA"
            \/ /\ Rejection(d.estado) = "REVOCADA"
               /\ d.hist[Len(d.hist)].de = "REVOCADA"
  <1> DEFINE n == Len(d.hist)
  <1>1. /\ n \in Nat /\ n > 0 /\ d.estado = Despues(d.hist[n]) /\ d.estado \in Estados
        /\ Explains(d.hist, d.estado) /\ ~d.hist[n].aceptada
    BY HistoryTyped DEF GoodRow, UltimaAceptada
  <1>2. d.hist[n].de = d.estado
    BY <1>1 DEF Despues
  <1>3. n # 1
    BY <1>1 DEF Explains, Transicion
  <1>4. << d.estado, "CONSUMIDA" >> \notin Legal
    <2>1. n \in 2 .. n
      <3> HIDE DEF n
      <3> QED
        BY <1>1, <1>3
    <2>2. Follows(d.hist[n - 1], d.hist[n])
      BY <1>1, <2>1 DEF Explains
    <2> QED
      BY <1>1, <1>2, <2>2 DEF Follows
  <1>5. d.estado \in {"CONSUMIDA", "EXPIRADA", "REVOCADA"}
    BY <1>1, <1>4 DEF Legal, Estados
  <1> QED
    BY <1>1, <1>2, <1>5 DEF Rejection

-----------------------------------------------------------------------------
(* What each request has written, by where it is.                           *)

Holding == {"lockLive", "register", "commit", "commitFailed"}
Writing == {"register", "commit", "commitFailed"}

\* The transaction of i retires the live credentials of its slot and no other;
\* previous names the one it revokes.
Retiring(i) ==
  /\ previous[i] # i
  /\ \A j \in Passes \ {i} :
       /\ tx[i][j] # NoRow <=> slot[j] = slot[i] /\ Live(row[j])
       /\ tx[i][j] # NoRow => tx[i][j].estado \in {"EXPIRADA", "REVOCADA"}
       /\ previous[i] = j => tx[i][j].estado = "REVOCADA"

\* The token that r is about to forget is of a credential revoked for good.
Forgetting(r) == previous[r] \in Passes /\ row[previous[r]].estado = "REVOCADA"

\* From the passenger's lock to the commit, the issuer holds it; it writes its
\* own credential and those it retires; the token precedes the commit.
IssuerWrites(i) ==
  /\ pc[i] # "start" => slot[i] \in Slots
  /\ pc[i] \in Holding => paxLock[slot[i][1]] = i /\ seen[i] <= clock
  /\ pc[i] \notin Writing => \A j \in Passes : tx[i][j] = NoRow
  /\ pc[i] \in {"start", "lockPassenger", "lockLive"} => previous[i] = Nobody
  /\ pc[i] \in Writing => Retiring(i)
  /\ pc[i] = "register" => tx[i][i].estado = "EMITIDA" /\ tx[i][i].expira = seen[i] + TTL
  /\ pc[i] = "commit" => /\ tx[i][i].estado = "ACTIVA"
                         /\ token[i].valor = "ACTIVA"
                         /\ tx[i][i].expira <= token[i].hasta
  /\ pc[i] = "commitFailed" => tx[i][i].estado = "REVOCADA"
  /\ pc[i] = "forget" => Forgetting(i)

\* Whoever asks for a credential writes that one and no other.
AskerWrites(r) ==
  \A j \in Passes : tx[r][j] # NoRow => pc[r] = "commit" /\ j = target[r]

RevokerWrites(v) ==
  /\ pc[v] = "commit" /\ previous[v] # Nobody =>
       previous[v] = target[v] /\ tx[v][target[v]].estado = "REVOCADA"
  /\ pc[v] = "forget" => Forgetting(v)

SweeperWrites(s) ==
  \A j \in Passes : tx[s][j] # NoRow => pc[s] = "commit" /\ tx[s][j].estado = "EXPIRADA"

\* What the owner is shown as ACTIVA had not expired at the instant it was read.
ViewerTells(w) ==
  /\ pc[w] = "commit" /\ tx[w][target[w]].estado = "ACTIVA" =>
       seen[w] < tx[w][target[w]].expira
  /\ answer[w] = "ACTIVA" =>
       /\ pc[w] = "done" /\ row[target[w]] # NoRow
       /\ seen[w] < row[target[w]].expira

Told == {"CONSUMIDA", "YA_CONSUMIDA", "EXPIRADA", "REVOCADA"}

\* The only entry by c, once it is committed, is in the row it asked for.
Marked(c, k) == row[target[c]] # NoRow /\ OnlyAt(c, row[target[c]].hist, k)

\* A consumer has left no entry anywhere before its commit; after it, one.
ConsumerTells(c) ==
  /\ pc[c] \in {"start", "lock", "commit"} => \A j \in Passes : Without(c, row[j].hist)
  /\ pc[c] = "commit" =>
       LET d == tx[c][target[c]]
       IN OnlyAt(c, d.hist, Len(d.hist)) /\ (UltimaAceptada(d) => seen[c] < d.expira)
  /\ pc[c] = "redis" =>
       /\ \E k \in Nat : Marked(c, k) /\ row[target[c]].hist[k].aceptada
       /\ seen[c] < row[target[c]].expira
  /\ answer[c] \in Told =>
       /\ pc[c] = "done"
       /\ \E k \in Nat : Marked(c, k) /\ Says(c, row[target[c]].hist[k])
  /\ answer[c] = "CONSUMIDA" => seen[c] < row[target[c]].expira

AddsOnly(r) ==
  \A j \in Passes : tx[r][j] # NoRow => Adds(r, row[j].hist, tx[r][j].hist)

RequestWrites(r) ==
  /\ AddsOnly(r)
  /\ r \in Issuers => IssuerWrites(r)
  /\ r \in Askers => AskerWrites(r)
  /\ r \in Consumers => ConsumerTells(r)
  /\ r \in Revokers => RevokerWrites(r)
  /\ r \in Viewers => ViewerTells(r)
  /\ r \in Sweepers => SweeperWrites(r)

\* At most one live credential of each passenger and flight is committed.
OneLive ==
  \A j, k \in Passes : Live(row[j]) /\ Live(row[k]) /\ slot[j] = slot[k] => j = k

\* The token of an ACTIVA credential is ACTIVA and outlives it.
TokensOK ==
  \A j \in Passes :
    row[j].estado = "ACTIVA" => token[j].valor = "ACTIVA" /\ row[j].expira <= token[j].hasta

\* What is inductive together with IInv.
JInv ==
  /\ \A r \in Requests : RequestWrites(r)
  /\ OneLive
  /\ TokensOK

-----------------------------------------------------------------------------
(* A step of one request, seen by the others.                               *)

Leaves(r) ==
  /\ \A q \in Requests \ {r} :
       /\ pc'[q] = pc[q] /\ answer'[q] = answer[q] /\ seen'[q] = seen[q] /\ tx'[q] = tx[q]
       /\ q \in Askers => target'[q] = target[q]
       /\ q \in Issuers => slot'[q] = slot[q]
       /\ q \in Issuers \cup Revokers => previous'[q] = previous[q]
  /\ \A p \in Passengers, q \in Requests \ {r} : paxLock[p] = q => paxLock'[p] = q
  /\ clock <= clock'
  /\ \A j \in Passes : row'[j] # row[j] => r \in Requests /\ tx[r][j] # NoRow /\ row'[j] = tx[r][j]
  /\ \A j \in Passes : slot'[j] # slot[j] => row[j] = NoRow /\ row'[j] = NoRow
  /\ \A j \in Passes : token'[j] # token[j] =>
       (j = r /\ row[j] = NoRow /\ row'[j] = NoRow) \/ row[j].estado \in Finales

\* The facts about the step that the lemmas below start from.
StepOf(r) == IInv /\ IInv' /\ Kept /\ JInv /\ Leaves(r)

LEMMA Disjoint ==
  /\ Nobody \notin Requests /\ Nobody \notin Passes /\ Sistema \notin Requests
  /\ Passes = Issuers /\ Issuers \subseteq Requests /\ Askers \subseteq Requests
  /\ Sweepers \subseteq Requests
  /\ \A r \in Issuers : r \notin Askers /\ r \notin Consumers /\ r \notin Revokers
                        /\ r \notin Viewers /\ r \notin Sweepers
  /\ \A r \in Consumers : r \in Askers /\ r \in Actors /\ r \notin Issuers /\ r \notin Revokers
                          /\ r \notin Viewers /\ r \notin Sweepers
  /\ \A r \in Revokers : r \in Askers /\ r \notin Issuers /\ r \notin Consumers
                         /\ r \notin Viewers /\ r \notin Sweepers
  /\ \A r \in Viewers : r \in Askers /\ r \notin Issuers /\ r \notin Consumers
                        /\ r \notin Revokers /\ r \notin Sweepers
  /\ \A r \in Sweepers : r \notin Askers /\ r \notin Issuers /\ r \notin Consumers
                         /\ r \notin Revokers /\ r \notin Viewers
  BY RequestsAssumption DEF Requests, Passes, Askers, Actors

\* A row is a good row or no row.
LEMMA RowsAre ==
  ASSUME IInv, NEW j \in Passes
  PROVE  /\ row[j] # NoRow => GoodRow(row[j])
         /\ row[j].estado # "EMITIDA"
         /\ row[j].estado \in Finales \/ Live(row[j]) => row[j] # NoRow
         /\ row[j] # NoRow => row[j].estado \in Finales \/ row[j].estado = "ACTIVA"
         /\ Live(row[j]) <=> row[j].estado = "ACTIVA"
         /\ \A r \in Requests : tx[r][j] # NoRow => GoodRow(tx[r][j])
  <1>1. /\ row[j] # NoRow => GoodRow(row[j]) /\ row[j].estado \in Estados
        /\ row[j].estado # "EMITIDA"
        /\ \A r \in Requests : tx[r][j] # NoRow => GoodRow(tx[r][j])
    BY HistoryTyped DEF IInv, DataOK, RowsOK, TxOK, TypeOK
  <1> QED
    BY <1>1, NoRowFacts DEF Live, Vivas, Finales, Estados

\* What a request has locked does not change under it.
LEMMA LockedIsKept ==
  ASSUME NEW r, StepOf(r), NEW q \in Requests \ {r}, NEW j \in Passes, tx[q][j] # NoRow
  PROVE  row'[j] = row[j] /\ tx'[q][j] = tx[q][j]
  <1>1. tx'[q][j] = tx[q][j]
    BY DEF StepOf, Leaves
  <1>2. ASSUME row'[j] # row[j]
        PROVE  FALSE
    <2>1. r \in Requests /\ tx[r][j] # NoRow
      BY <1>2 DEF StepOf, Leaves
    <2> QED
      BY <2>1 DEF StepOf, IInv, DataOK, TxOK
  <1> QED
    BY <1>1, <1>2

LEMMA OthersAdd ==
  ASSUME NEW r, StepOf(r), NEW q \in Requests \ {r}
  PROVE  AddsOnly(q)'
  <1>1. AddsOnly(q) /\ tx'[q] = tx[q]
    BY DEF StepOf, JInv, RequestWrites, Leaves
  <1> QED
    BY <1>1, LockedIsKept DEF AddsOnly

\* A credential revoked for good stays so.
LEMMA ForgettingKept ==
  ASSUME NEW r, StepOf(r), NEW q, Forgetting(q), previous'[q] = previous[q]
  PROVE  Forgetting(q)'
  <1>1. previous[q] \in Passes /\ row[previous[q]].estado = "REVOCADA"
    BY DEF Forgetting
  <1>2. row[previous[q]] # NoRow
    BY <1>1, NoRowFacts
  <1>3. row'[previous[q]].estado = "REVOCADA"
    BY <1>1, <1>2 DEF StepOf, Kept, Grows, Finales
  <1> QED
    BY <1>1, <1>3 DEF Forgetting

\* What another request asked for is still there, with the same deadline.
LEMMA TargetKept ==
  ASSUME NEW r, StepOf(r), NEW j \in Passes, row[j] # NoRow
  PROVE  /\ row'[j] # NoRow /\ row'[j].expira = row[j].expira
         /\ Extends(row[j].hist, row'[j].hist)
         /\ GoodRow(row[j]) /\ GoodRow(row'[j])
  BY DEF StepOf, Kept, Grows, IInv, DataOK, RowsOK

LEMMA OthersView ==
  ASSUME NEW r, StepOf(r), NEW q \in Viewers, q # r
  PROVE  ViewerTells(q)'
  <1>1. /\ ViewerTells(q) /\ AskerOK(q) /\ q \in Requests
        /\ pc'[q] = pc[q] /\ answer'[q] = answer[q] /\ seen'[q] = seen[q]
        /\ tx'[q] = tx[q] /\ target'[q] = target[q]
    BY Disjoint DEF StepOf, JInv, RequestWrites, Leaves, IInv, RequestOK
  <1>2. ASSUME answer[q] = "ACTIVA"
        PROVE  row'[target[q]] # NoRow /\ row'[target[q]].expira = row[target[q]].expira
    <2>1. target[q] \in Passes /\ row[target[q]] # NoRow
      BY <1>1, <1>2 DEF ViewerTells, AskerOK
    <2> QED
      BY <2>1, TargetKept
  <1> QED
    BY <1>1, <1>2 DEF ViewerTells

LEMMA OthersRevoke ==
  ASSUME NEW r, StepOf(r), NEW q \in Revokers, q # r
  PROVE  RevokerWrites(q)'
  <1>1. /\ RevokerWrites(q) /\ q \in Requests
        /\ pc'[q] = pc[q] /\ tx'[q] = tx[q] /\ target'[q] = target[q]
        /\ previous'[q] = previous[q]
    BY Disjoint DEF StepOf, JInv, RequestWrites, Leaves
  <1> QED
    BY <1>1, ForgettingKept DEF RevokerWrites

\* Nobody else writes an entry in the name of c.
LEMMA EntriesKept ==
  ASSUME NEW r, StepOf(r), NEW c \in Consumers, c # r, NEW j \in Passes
  PROVE  /\ Without(c, row[j].hist) => Without(c, row'[j].hist)
         /\ row[j] # NoRow => \A k \in Nat : OnlyAt(c, row[j].hist, k) =>
              OnlyAt(c, row'[j].hist, k) /\ row'[j].hist[k] = row[j].hist[k]
  <1> DEFINE g == row[j].hist
             h == row'[j].hist
  <1>1. CASE row'[j] = row[j]
    BY <1>1 DEF OnlyAt
  <1>2. CASE row'[j] # row[j]
    <2>1. r \in Requests /\ tx[r][j] # NoRow /\ row'[j] = tx[r][j]
      BY <1>2 DEF StepOf, Leaves
    <2>2. Adds(r, g, h) /\ GoodRow(row'[j])
      BY <2>1, RowsAre DEF StepOf, JInv, RequestWrites, AddsOnly
    <2>3. Len(g) \in Nat /\ Len(h) \in Nat
      <3>1. row[j] = NoRow \/ GoodRow(row[j])
        BY RowsAre DEF StepOf
      <3> QED
        BY <2>2, <3>1, HistoryTyped, NoRowFacts
    <2>4. c # Sistema
      BY Disjoint
    <2>5. \A k \in 1 .. Len(g) : k \in 1 .. Len(h) /\ h[k] = g[k]
      BY <2>2, <2>3 DEF Adds, Extends
    <2>6. \A k \in 1 .. Len(h) : k \in 1 .. Len(g) \/ h[k].por # c
      BY <2>2, <2>3, <2>4 DEF Adds
    <2>7. Without(c, g) => Without(c, h)
      BY <2>5, <2>6 DEF Without
    <2>8. ASSUME NEW k \in Nat, OnlyAt(c, g, k)
          PROVE  OnlyAt(c, h, k) /\ h[k] = g[k]
      BY <2>5, <2>6, <2>8 DEF OnlyAt
    <2> QED
      BY <2>7, <2>8
  <1> QED
    BY <1>1, <1>2

LEMMA OthersConsume ==
  ASSUME NEW r, StepOf(r), NEW q \in Consumers, q # r
  PROVE  ConsumerTells(q)'
  <1>1. /\ ConsumerTells(q) /\ AskerOK(q) /\ q \in Requests
        /\ pc'[q] = pc[q] /\ answer'[q] = answer[q] /\ seen'[q] = seen[q]
        /\ tx'[q] = tx[q] /\ target'[q] = target[q]
    BY Disjoint DEF StepOf, JInv, RequestWrites, Leaves, IInv, RequestOK
  <1>2. ASSUME pc[q] # "start", NEW k \in Nat, Marked(q, k)
        PROVE  /\ Marked(q, k)' /\ row'[target[q]].expira = row[target[q]].expira
               /\ row'[target[q]].hist[k] = row[target[q]].hist[k]
    <2>1. target[q] \in Passes /\ row[target[q]] # NoRow
      BY <1>1, <1>2 DEF AskerOK, Marked
    <2> QED
      BY <1>1, <1>2, <2>1, TargetKept, EntriesKept DEF Marked
  <1>3. pc[q] \in {"start", "lock", "commit"} => \A j \in Passes : Without(q, row'[j].hist)
    BY <1>1, EntriesKept DEF ConsumerTells
  <1>4. pc[q] = "redis" =>
          /\ \E k \in Nat : Marked(q, k)' /\ row'[target[q]].hist[k].aceptada
          /\ seen[q] < row'[target[q]].expira
    BY <1>1, <1>2 DEF ConsumerTells
  <1>5. ASSUME answer[q] \in Told
        PROVE  /\ pc[q] = "done"
               /\ \E k \in Nat : Marked(q, k)' /\ Says(q, row[target[q]].hist[k])'
    <2>1. PICK k \in Nat : Marked(q, k) /\ Says(q, row[target[q]].hist[k])
      BY <1>1, <1>5 DEF ConsumerTells
    <2>2. pc[q] = "done"
      BY <1>1, <1>5 DEF ConsumerTells
    <2>3. Marked(q, k)' /\ row'[target[q]].hist[k] = row[target[q]].hist[k]
      BY <1>2, <2>1, <2>2
    <2>4. Says(q, row[target[q]].hist[k])'
      BY <1>1, <2>1, <2>3 DEF Says
    <2> QED
      BY <2>2, <2>3, <2>4
  <1>6. answer[q] = "CONSUMIDA" => seen[q] < row'[target[q]].expira
    BY <1>1, <1>2 DEF ConsumerTells, Told
  <1> QED
    BY <1>1, <1>3, <1>4, <1>5, <1>6 DEF ConsumerTells

\* A credential becomes visible only by its issuer's commit.
LEMMA BornOfIssuer ==
  ASSUME NEW r, StepOf(r), NEW j \in Passes, row[j] = NoRow, row'[j] # NoRow
  PROVE  j = r /\ r \in Issuers /\ r \in Requests /\ tx[r][r] # NoRow
  <1>1. r \in Requests /\ tx[r][j] # NoRow
    BY DEF StepOf, Leaves
  <1> QED
    BY <1>1, Disjoint DEF StepOf, IInv, DataOK, TxOK

\* Nobody else brings a live credential into the slot of an issuer that holds
\* its passenger.
LEMMA SlotKept ==
  ASSUME NEW r, StepOf(r), NEW q \in Issuers, q # r, pc[q] \in Writing, NEW j \in Passes \ {q}
  PROVE  slot'[j] = slot'[q] /\ Live(row'[j]) <=> slot[j] = slot[q] /\ Live(row[j])
  <1>1. /\ slot'[q] = slot[q] /\ q \in Requests
        /\ slot[q] \in Slots /\ paxLock[slot[q][1]] = q
    BY Disjoint DEF StepOf, Leaves, JInv, RequestWrites, IssuerWrites, Holding, Writing
  <1>2. CASE row[j] # NoRow
    <2>1. slot'[j] = slot[j]
      BY <1>2 DEF StepOf, Leaves
    <2>2. Live(row'[j]) => Live(row[j])
      BY <1>2, RowsAre, NoRowFacts DEF StepOf, Kept, Grows, Live, Vivas, Finales
    <2>3. ASSUME slot[j] = slot[q], Live(row[j])
          PROVE  Live(row'[j])
      <3>1. tx[q][j] # NoRow
        BY <1>1, <2>3 DEF StepOf, JInv, RequestWrites, IssuerWrites, Retiring
      <3> QED
        BY <2>3, <3>1, <1>1, LockedIsKept
    <2> QED
      BY <1>1, <2>1, <2>2, <2>3
  <1>3. CASE row[j] = NoRow
    <2>1. ~Live(row[j])
      BY <1>3, NoRowFacts
    <2>2. ASSUME slot'[j] = slot'[q], Live(row'[j])
          PROVE  FALSE
      <3>1. j = r /\ r \in Issuers /\ r \in Requests /\ tx[r][r] # NoRow
        BY <1>3, <2>2, NoRowFacts, BornOfIssuer
      <3>2. slot'[r] = slot[r]
        BY <2>2, <3>1, NoRowFacts DEF StepOf, Leaves
      <3>3. pc[r] \in Writing /\ paxLock[slot[r][1]] = r
        BY <3>1, Disjoint DEF StepOf, JInv, RequestWrites, IssuerWrites, Holding, Writing
      <3> QED
        BY <1>1, <2>2, <3>1, <3>2, <3>3
    <2> QED
      BY <2>1, <2>2
  <1> QED
    BY <1>2, <1>3

LEMMA RetiringKept ==
  ASSUME NEW r, StepOf(r), NEW q \in Issuers, q # r, pc[q] \in Writing
  PROVE  Retiring(q)'
  <1>1. /\ Retiring(q) /\ tx'[q] = tx[q] /\ previous'[q] = previous[q]
    BY Disjoint DEF StepOf, JInv, RequestWrites, IssuerWrites, Leaves
  <1>2. previous'[q] # q
    BY <1>1 DEF Retiring
  <1>3. ASSUME NEW j \in Passes \ {q}
        PROVE  /\ tx'[q][j] # NoRow <=> slot'[j] = slot'[q] /\ Live(row'[j])
               /\ tx'[q][j] # NoRow => tx'[q][j].estado \in {"EXPIRADA", "REVOCADA"}
               /\ previous'[q] = j => tx'[q][j].estado = "REVOCADA"
    <2>1. slot'[j] = slot'[q] /\ Live(row'[j]) <=> slot[j] = slot[q] /\ Live(row[j])
      BY SlotKept
    <2> QED
      BY <1>1, <2>1 DEF Retiring
  <1> QED
    BY <1>2, <1>3 DEF Retiring, Live

LEMMA OthersIssue ==
  ASSUME NEW r, StepOf(r), NEW q \in Issuers, q # r
  PROVE  IssuerWrites(q)'
  <1>1. /\ IssuerWrites(q) /\ IssuerOK(q) /\ q \in Requests /\ q \in Passes
        /\ pc'[q] = pc[q] /\ seen'[q] = seen[q] /\ tx'[q] = tx[q] /\ slot'[q] = slot[q]
        /\ previous'[q] = previous[q] /\ clock <= clock'
        /\ \A p \in Passengers : paxLock[p] = q => paxLock'[p] = q
    BY Disjoint DEF StepOf, JInv, RequestWrites, Leaves, IInv, RequestOK
  <1>2. pc[q] \in Holding => paxLock'[slot[q][1]] = q /\ seen[q] <= clock'
    <2>1. pc[q] \in Holding => slot[q][1] \in Passengers
      BY <1>1 DEF IssuerWrites, Holding, Slots
    <2>2. seen[q] \in Nat /\ clock \in Nat /\ clock' \in Nat
      BY <1>1, ConstantsAssumption DEF StepOf, IInv, TypeOK
    <2> QED
      BY <1>1, <2>1, <2>2 DEF IssuerWrites
  <1>3. pc[q] = "commit" => token'[q] = token[q]
    <2>1. pc[q] = "commit" => row[q].estado \notin Finales
      BY <1>1, NoRowFacts DEF IssuerOK, Finales
    <2> QED
      BY <1>1, <2>1 DEF StepOf, Leaves
  <1>4. pc[q] \in Writing => Retiring(q)'
    BY RetiringKept
  <1>5. pc[q] = "forget" => Forgetting(q)'
    BY <1>1, ForgettingKept DEF IssuerWrites
  <1> QED
    BY <1>1, <1>2, <1>3, <1>4, <1>5 DEF IssuerWrites, Holding, Writing

\* The others' part of the invariant survives any step.
LEMMA OthersWrite ==
  ASSUME NEW r, StepOf(r), NEW q \in Requests \ {r}
  PROVE  RequestWrites(q)'
  <1>1. /\ RequestWrites(q) /\ pc'[q] = pc[q] /\ tx'[q] = tx[q]
        /\ q \in Askers => target'[q] = target[q]
    BY DEF StepOf, JInv, Leaves
  <1>2. q \in Askers => AskerWrites(q)'
    BY <1>1 DEF RequestWrites, AskerWrites
  <1>3. q \in Sweepers => SweeperWrites(q)'
    BY <1>1 DEF RequestWrites, SweeperWrites
  <1> QED
    BY <1>2, <1>3, OthersAdd, OthersIssue, OthersConsume, OthersRevoke, OthersView
       DEF RequestWrites

\* A step that brings no credential to life keeps what is said of all of them.
LEMMA NoBirth ==
  ASSUME NEW r, StepOf(r), \A j \in Passes : row[j] = NoRow => row'[j] = NoRow
  PROVE  OneLive' /\ TokensOK'
  <1>1. ASSUME NEW j \in Passes, row'[j].estado = "ACTIVA"
        PROVE  /\ row[j].estado = "ACTIVA" /\ slot'[j] = slot[j]
               /\ row'[j].expira = row[j].expira /\ token'[j] = token[j]
    <2>1. row[j] # NoRow /\ row'[j] # NoRow
      BY <1>1, NoRowFacts
    <2>2. Grows(row[j], row'[j])
      BY <2>1 DEF StepOf, Kept
    <2>3. row[j].estado = "ACTIVA"
      BY <1>1, <2>1, <2>2, RowsAre DEF StepOf, Grows, Finales
    <2> QED
      BY <2>1, <2>2, <2>3 DEF StepOf, Leaves, Grows, Finales
  <1>2. \A j \in Passes : Live(row'[j]) <=> row'[j].estado = "ACTIVA"
    BY DEF Live, Vivas, StepOf, IInv, TypeOK
  <1>3. \A j \in Passes : Live(row[j]) <=> row[j].estado = "ACTIVA"
    BY RowsAre DEF StepOf
  <1>4. OneLive'
    BY <1>1, <1>2, <1>3 DEF OneLive, Live, StepOf, JInv
  <1>5. TokensOK'
    BY <1>1 DEF TokensOK, StepOf, JInv
  <1> QED
    BY <1>4, <1>5

\* The invariance of a step is that of the request that makes it.
LEMMA StepWrites ==
  ASSUME NEW r, StepOf(r), RequestWrites(r)', OneLive', TokensOK'
  PROVE  JInv'
  BY OthersWrite DEF JInv

-----------------------------------------------------------------------------
(* Steps that write, commit and roll back.                                  *)

\* A step of r that touches no row.
LEMMA QuietLeaves ==
  ASSUME NEW r, UNCHANGED row, clock <= clock',
         \A q \in Requests \ {r} :
           /\ pc'[q] = pc[q] /\ answer'[q] = answer[q] /\ seen'[q] = seen[q] /\ tx'[q] = tx[q]
           /\ q \in Askers => target'[q] = target[q]
           /\ q \in Issuers => slot'[q] = slot[q]
           /\ q \in Issuers \cup Revokers => previous'[q] = previous[q],
         \A p \in Passengers, q \in Requests \ {r} : paxLock[p] = q => paxLock'[p] = q,
         \A j \in Passes : slot'[j] # slot[j] => row[j] = NoRow,
         \A j \in Passes : token'[j] # token[j] =>
           (j = r /\ row[j] = NoRow) \/ row[j].estado \in Finales
  PROVE  Leaves(r) /\ \A j \in Passes : row[j] = NoRow => row'[j] = NoRow
  BY DEF Leaves

\* What is left once r's transaction has ended, by commit or by rollback.
LEMMA ReleaseLeaves ==
  ASSUME TypeOK, NEW r \in Requests, Release(r),
         UNCHANGED << clock, seen, slot, target, token, previous >>,
         \A j \in Passes : row'[j] # row[j] => tx[r][j] # NoRow /\ row'[j] = tx[r][j],
         \A q \in Requests \ {r} : pc'[q] = pc[q] /\ answer'[q] = answer[q]
  PROVE  /\ Leaves(r)
         /\ \A j \in Passes : tx'[r][j] = NoRow
         /\ AddsOnly(r)'
         /\ r \in Askers => AskerWrites(r)'
         /\ r \in Sweepers => SweeperWrites(r)'
  <1>1. /\ \A q \in Requests \ {r} : tx'[q] = tx[q]
        /\ \A j \in Passes : tx'[r][j] = NoRow
        /\ \A p \in Passengers, q \in Requests \ {r} : paxLock[p] = q => paxLock'[p] = q
    BY DEF TypeOK, Release, NoTx
  <1>2. clock <= clock'
    BY ConstantsAssumption DEF TypeOK
  <1>3. Leaves(r)
    BY <1>1, <1>2 DEF Leaves
  <1> QED
    BY <1>1, <1>3 DEF AddsOnly, AskerWrites, SweeperWrites

LEMMA CommitLeaves ==
  ASSUME IInv, NEW r \in Requests, Commit(r),
         UNCHANGED << clock, seen, slot, target, token, previous >>,
         \A q \in Requests \ {r} : pc'[q] = pc[q] /\ answer'[q] = answer[q]
  PROVE  /\ Leaves(r)
         /\ \A j \in Passes : tx'[r][j] = NoRow
         /\ \A j \in Passes : row'[j] = IF tx[r][j] = NoRow THEN row[j] ELSE tx[r][j]
         /\ r \notin Issuers => \A j \in Passes : row[j] = NoRow => row'[j] = NoRow
         /\ AddsOnly(r)'
         /\ r \in Askers => AskerWrites(r)'
         /\ r \in Sweepers => SweeperWrites(r)'
  <1>1. \A j \in Passes : row'[j] = IF tx[r][j] = NoRow THEN row[j] ELSE tx[r][j]
    BY DEF Commit, Committed
  <1>2. r \notin Issuers => \A j \in Passes : row[j] = NoRow => row'[j] = NoRow
    BY <1>1 DEF IInv, DataOK, TxOK, Passes
  <1>3. TypeOK /\ Release(r)
    BY DEF IInv, Commit
  <1> QED
    BY <1>1, <1>2, <1>3, ReleaseLeaves

\* r locks the committed credential j and writes d over it.
LEMMA WriteLeaves ==
  ASSUME IInv, NEW r \in Requests, NEW j \in Passes, NEW d, Write(r, j, d),
         UNCHANGED << clock, slot, target, row, paxLock, token, answer >>,
         \A q \in Requests \ {r} : pc'[q] = pc[q] /\ seen'[q] = seen[q],
         \A q \in (Issuers \cup Revokers) \ {r} : previous'[q] = previous[q],
         \A k \in Passes : tx[r][k] = NoRow,
         Adds(r, row[j].hist, d.hist)
  PROVE  /\ Leaves(r)
         /\ tx'[r][j] = d /\ \A k \in Passes \ {j} : tx'[r][k] = NoRow
         /\ AddsOnly(r)'
         /\ \A k \in Passes : row[k] = NoRow => row'[k] = NoRow
  <1>1. /\ \A q \in Requests \ {r} : tx'[q] = tx[q]
        /\ tx'[r][j] = d /\ \A k \in Passes \ {j} : tx'[r][k] = NoRow
    BY DEF IInv, TypeOK, Write
  <1>2. clock <= clock'
    BY ConstantsAssumption DEF IInv, TypeOK
  <1>3. Leaves(r)
    BY <1>1, <1>2 DEF Leaves
  <1>4. AddsOnly(r)'
    BY <1>1 DEF AddsOnly
  <1> QED
    BY <1>1, <1>3, <1>4

-----------------------------------------------------------------------------
(* Every step of every operation keeps the invariant.                       *)

Before == IInv /\ IInv' /\ Kept /\ JInv

\* A step without births is settled by what its request keeps.
LEMMA RequestStep ==
  ASSUME Before, NEW r, Leaves(r), \A j \in Passes : row[j] = NoRow => row'[j] = NoRow,
         RequestWrites(r)'
  PROVE  JInv'
  BY NoBirth, StepWrites DEF Before, StepOf

\* A request that has opened no transaction has written nothing.
LEMMA NothingWritten ==
  ASSUME JInv, NEW r \in Requests, r \in Askers, pc[r] # "commit"
  PROVE  \A j \in Passes : tx[r][j] = NoRow
  BY DEF JInv, RequestWrites, AskerWrites

LEMMA ConsumeWrites ==
  ASSUME Before, NEW c \in Consumers, Consume(c)
  PROVE  JInv'
  <1>1. /\ TypeOK /\ RequestOK(c) /\ ConsumerOK(c) /\ AskerOK(c) /\ EmitidaOK(c)
        /\ c \in Requests /\ c \in Askers /\ c \notin Issuers /\ c \notin Revokers
        /\ c \notin Viewers /\ c \notin Sweepers
        /\ ConsumerTells(c) /\ AskerWrites(c) /\ AddsOnly(c)
        /\ clock \in Nat /\ clock <= clock
    BY Disjoint, ConstantsAssumption
       DEF Before, IInv, RequestOK, JInv, RequestWrites, TypeOK
  <1>2. SUFFICES ASSUME TRUE
                 PROVE  /\ Leaves(c) /\ \A j \in Passes : row[j] = NoRow => row'[j] = NoRow
                        /\ AddsOnly(c)' /\ AskerWrites(c)' /\ ConsumerTells(c)'
    BY <1>1, RequestStep DEF RequestWrites
  <1>3. CASE ConsumeStart(c)
    <2>1. Leaves(c) /\ \A j \in Passes : row[j] = NoRow => row'[j] = NoRow
      BY <1>1, <1>3, QuietLeaves DEF ConsumeStart, Goto, TypeOK, Askers
    <2>2. AddsOnly(c)' /\ AskerWrites(c)'
      BY <1>1, <1>3, NothingWritten DEF ConsumeStart, AddsOnly, AskerWrites, Before
    <2>3. ConsumerTells(c)'
      BY <1>1, <1>3 DEF ConsumeStart, Goto, TypeOK, ConsumerTells, Told
    <2> QED
      BY <2>1, <2>2, <2>3
  <1>4. CASE NotFound(c)
    <2>1. Leaves(c) /\ \A j \in Passes : row[j] = NoRow => row'[j] = NoRow
      BY <1>1, <1>4, QuietLeaves DEF NotFound, Goto, Answer, TypeOK, Askers
    <2>2. AddsOnly(c)' /\ AskerWrites(c)'
      BY <1>1, <1>4, NothingWritten DEF NotFound, AddsOnly, AskerWrites, Before
    <2>3. ConsumerTells(c)'
      BY <1>1, <1>4 DEF NotFound, Goto, Answer, TypeOK, ConsumerTells, Told
    <2> QED
      BY <2>1, <2>2, <2>3
  <1>5. CASE ConsumeLock(c)
    <2> DEFINE j == target[c]
               d == Consumir(RefreshExpiry(row[j], seen[c]), c)
    <2>1. /\ pc[c] = "lock" /\ j \in Passes /\ row[j] # NoRow /\ Write(c, j, d)
          /\ pc' = [pc EXCEPT ![c] = "commit"]
          /\ UNCHANGED << clock, seen, slot, target, row, paxLock, token, previous, answer >>
      BY <1>1, <1>5 DEF ConsumeLock, AskerOK, Goto
    <2>2. /\ Adds(c, row[j].hist, d.hist)
          /\ OnlyAt(c, d.hist, Len(d.hist))
          /\ UltimaAceptada(d) => ~(seen[c] >= d.expira)
          /\ d.expira \in Nat
      <3>1. GoodRow(row[j]) /\ Without(c, row[j].hist)
        BY <1>1, <2>1, RowsAre DEF Before, ConsumerTells
      <3>2. GoodRow(d)
        <4>1. "CONSUMIDA" \in Estados \ {"EMITIDA"} /\ c \in Actors
          BY DEF Estados, Actors
        <4> QED
          BY <3>1, <4>1, RefreshedTransitionGood DEF Consumir
      <3> QED
        BY <3>1, <3>2, ConsumirResult, HistoryTyped
    <2> HIDE DEF d
    <2>3. /\ Leaves(c) /\ AddsOnly(c)' /\ \A k \in Passes : row[k] = NoRow => row'[k] = NoRow
          /\ tx'[c][j] = d /\ \A k \in Passes \ {j} : tx'[c][k] = NoRow
      <3>1. \A q \in Requests \ {c} : pc'[q] = pc[q] /\ seen'[q] = seen[q]
        BY <1>1, <2>1 DEF TypeOK
      <3>2. \A q \in (Issuers \cup Revokers) \ {c} : previous'[q] = previous[q]
        BY <2>1
      <3>3. \A k \in Passes : tx[c][k] = NoRow
        BY <1>1, <2>1, NothingWritten DEF Before
      <3> QED
        BY <1>1, <2>1, <2>2, <3>1, <3>2, <3>3, WriteLeaves DEF Before
    <2>4. AskerWrites(c)'
      BY <1>1, <2>1, <2>3 DEF AskerWrites, TypeOK
    <2>5. UltimaAceptada(d) => seen[c] < d.expira
      BY <1>1, <2>2, ConstantsAssumption DEF TypeOK
    <2>6. ConsumerTells(c)'
      BY <1>1, <2>1, <2>2, <2>3, <2>5 DEF ConsumerTells, TypeOK, Told
    <2> QED
      BY <2>3, <2>4, <2>6
  <1>6. CASE ConsumeCommit(c)
    <2>0. PICK j, d : j = target[c] /\ d = tx[c][j]
      OBVIOUS
    <2>1. /\ pc[c] = "commit" /\ j \in Passes /\ d # NoRow /\ Commit(c)
          /\ IF UltimaAceptada(d)
             THEN Goto(c, "redis") /\ UNCHANGED answer
             ELSE Goto(c, "done") /\ Answer(c, Rejection(d.estado))
          /\ UNCHANGED << clock, seen, slot, target, token, previous >>
      BY <1>1, <1>6, <2>0 DEF ConsumeCommit, AskerOK
    <2>2. /\ Leaves(c) /\ AddsOnly(c)' /\ AskerWrites(c)'
          /\ \A k \in Passes : row[k] = NoRow => row'[k] = NoRow
          /\ row'[j] = d
      <3>1. \A q \in Requests \ {c} : pc'[q] = pc[q] /\ answer'[q] = answer[q]
        BY <1>1, <2>1 DEF Goto, Answer, TypeOK
      <3> QED
        BY <1>1, <2>0, <2>1, <3>1, CommitLeaves DEF Before
    <2>3. /\ GoodRow(d) /\ d.estado # "EMITIDA" /\ Len(d.hist) \in Nat
          /\ OnlyAt(c, d.hist, Len(d.hist)) /\ d.hist[Len(d.hist)].a = "CONSUMIDA"
          /\ UltimaAceptada(d) => seen[c] < d.expira
      <3>1. GoodRow(d)
        BY <1>1, <2>0, <2>1, RowsAre DEF Before
      <3>2. d.estado # "EMITIDA"
        BY <1>1, <2>0, <2>1 DEF EmitidaOK
      <3> QED
        BY <1>1, <2>0, <2>1, <3>1, <3>2, HistoryTyped DEF ConsumerTells, ConsumerOK
    <2>4. Marked(c, Len(d.hist))'
      BY <2>0, <2>1, <2>2, <2>3 DEF Marked
    <2>5. CASE UltimaAceptada(d)
      <3>1. pc'[c] = "redis" /\ answer'[c] = answer[c]
        BY <1>1, <2>1, <2>5 DEF Goto, TypeOK
      <3>2. answer[c] \notin Told /\ target'[c] = j /\ seen'[c] = seen[c]
        BY <1>1, <2>0, <2>1 DEF ConsumerTells
      <3>3. row'[j].hist[Len(d.hist)].aceptada
        BY <2>2, <2>5 DEF UltimaAceptada
      <3>4. ConsumerTells(c)'
        BY <2>2, <2>3, <2>4, <2>5, <3>1, <3>2, <3>3 DEF ConsumerTells, Told
      <3> QED
        BY <2>2, <3>4
    <2>6. CASE ~UltimaAceptada(d)
      <3>1. pc'[c] = "done" /\ answer'[c] = Rejection(d.estado)
        BY <1>1, <2>1, <2>6 DEF Goto, Answer, TypeOK
      <3>2. target'[c] = j
        BY <2>0, <2>1
      <3>3. /\ ~d.hist[Len(d.hist)].aceptada
            /\ \/ answer'[c] = "YA_CONSUMIDA" /\ d.hist[Len(d.hist)].de = "CONSUMIDA"
               \/ answer'[c] = "EXPIRADA" /\ d.hist[Len(d.hist)].de = "EXPIRADA"
               \/ answer'[c] = "REVOCADA" /\ d.hist[Len(d.hist)].de = "REVOCADA"
        BY <2>3, <2>6, <3>1, RejectionIsRecorded
      <3>4. Says(c, row[target[c]].hist[Len(d.hist)])'
        BY <2>2, <3>2, <3>3 DEF Says
      <3>5. ConsumerTells(c)'
        BY <2>3, <2>4, <3>1, <3>3, <3>4 DEF ConsumerTells
      <3> QED
        BY <2>2, <3>5
    <2> QED
      BY <2>5, <2>6
  <1>7. CASE ConsumeToken(c)
    <2>1. /\ pc[c] = "redis" /\ target[c] \in Passes
          /\ row[target[c]].estado = "CONSUMIDA"
      <3>1. pc[c] = "redis" /\ target[c] \in Passes /\ Redeemed(c)
        BY <1>1, <1>7 DEF ConsumeToken, AskerOK, ConsumerOK
      <3> QED
        BY <3>1, RowsAre DEF Redeemed, GoodRow, Before
    <2>2. \A j \in Passes : token'[j] # token[j] => row[j].estado \in Finales
      <3>1. \A j \in Passes : token'[j] # token[j] => j = target[c]
        BY <1>1, <1>7, <2>1 DEF ConsumeToken, ConsumeKey, TypeOK
      <3> QED
        BY <2>1, <3>1 DEF Finales
    <2>3. Leaves(c) /\ \A j \in Passes : row[j] = NoRow => row'[j] = NoRow
      BY <1>1, <1>7, <2>2, QuietLeaves DEF ConsumeToken, Goto, Answer, TypeOK
    <2>4. AddsOnly(c)' /\ AskerWrites(c)'
      BY <1>1, <1>7, <2>1, NothingWritten DEF ConsumeToken, AddsOnly, AskerWrites, Before
    <2>5. ConsumerTells(c)'
      <3>1. PICK k \in Nat : Marked(c, k) /\ row[target[c]].hist[k].aceptada
        BY <1>1, <2>1 DEF ConsumerTells
      <3>2. /\ pc'[c] = "done" /\ answer'[c] = "CONSUMIDA" /\ target'[c] = target[c]
            /\ row' = row /\ seen' = seen
        BY <1>1, <1>7 DEF ConsumeToken, Goto, Answer, TypeOK
      <3>3. Marked(c, k)' /\ Says(c, row[target[c]].hist[k])'
        BY <3>1, <3>2 DEF Marked, Says
      <3> QED
        BY <1>1, <2>1, <3>2, <3>3 DEF ConsumerTells
    <2> QED
      BY <2>3, <2>4, <2>5
  <1> QED
    BY <1>3, <1>4, <1>5, <1>6, <1>7 DEF Consume

LEMMA RevokeWrites ==
  ASSUME Before, NEW v \in Revokers, Revoke(v)
  PROVE  JInv'
  <1>1. /\ TypeOK /\ RequestOK(v) /\ AskerOK(v)
        /\ v \in Requests /\ v \in Askers /\ v \notin Issuers /\ v \notin Consumers
        /\ v \notin Viewers /\ v \notin Sweepers
        /\ RevokerWrites(v) /\ AskerWrites(v) /\ AddsOnly(v)
        /\ clock \in Nat /\ clock <= clock
    BY Disjoint, ConstantsAssumption
       DEF Before, IInv, RequestOK, JInv, RequestWrites, TypeOK
  <1>2. SUFFICES ASSUME TRUE
                 PROVE  /\ Leaves(v) /\ \A j \in Passes : row[j] = NoRow => row'[j] = NoRow
                        /\ AddsOnly(v)' /\ AskerWrites(v)' /\ RevokerWrites(v)'
    BY <1>1, RequestStep DEF RequestWrites
  <1>3. CASE RevokeStart(v)
    <2>1. Leaves(v) /\ \A j \in Passes : row[j] = NoRow => row'[j] = NoRow
      BY <1>1, <1>3, QuietLeaves DEF RevokeStart, Goto, TypeOK, Askers
    <2>2. AddsOnly(v)' /\ AskerWrites(v)' /\ RevokerWrites(v)'
      BY <1>1, <1>3, NothingWritten
         DEF RevokeStart, Goto, TypeOK, AddsOnly, AskerWrites, RevokerWrites, Before
    <2> QED
      BY <2>1, <2>2
  <1>4. CASE NotFound(v)
    <2>1. Leaves(v) /\ \A j \in Passes : row[j] = NoRow => row'[j] = NoRow
      BY <1>1, <1>4, QuietLeaves DEF NotFound, Goto, Answer, TypeOK, Askers
    <2>2. AddsOnly(v)' /\ AskerWrites(v)' /\ RevokerWrites(v)'
      BY <1>1, <1>4, NothingWritten
         DEF NotFound, Goto, TypeOK, AddsOnly, AskerWrites, RevokerWrites, Before
    <2> QED
      BY <2>1, <2>2
  <1>5. CASE RevokeLock(v)
    <2>0. PICK j, d : j = target[v] /\ d = Revocar(RefreshExpiry(row[j], clock))
      OBVIOUS
    <2>1. /\ pc[v] = "lock" /\ j \in Passes /\ row[j] # NoRow /\ Write(v, j, d)
          /\ pc' = [pc EXCEPT ![v] = "commit"]
          /\ previous' = [previous EXCEPT ![v] = IF UltimaAceptada(d) THEN j ELSE Nobody]
          /\ UNCHANGED << clock, seen, slot, target, row, paxLock, token, answer >>
      BY <1>1, <1>5, <2>0 DEF RevokeLock, AskerOK, Goto
    <2>2. Adds(v, row[j].hist, d.hist) /\ (UltimaAceptada(d) => d.estado = "REVOCADA")
      <3>1. GoodRow(row[j])
        BY <2>1, RowsAre DEF Before
      <3> QED
        BY <2>0, <3>1, RevocarResult
    <2>3. /\ Leaves(v) /\ AddsOnly(v)' /\ \A k \in Passes : row[k] = NoRow => row'[k] = NoRow
          /\ tx'[v][j] = d /\ \A k \in Passes \ {j} : tx'[v][k] = NoRow
      <3>1. \A q \in Requests \ {v} : pc'[q] = pc[q] /\ seen'[q] = seen[q]
        BY <1>1, <2>1 DEF TypeOK
      <3>2. \A q \in (Issuers \cup Revokers) \ {v} : previous'[q] = previous[q]
        BY <1>1, <2>1 DEF TypeOK
      <3>3. \A k \in Passes : tx[v][k] = NoRow
        BY <1>1, <2>1, NothingWritten DEF Before
      <3> QED
        BY <1>1, <2>1, <2>2, <3>1, <3>2, <3>3, WriteLeaves DEF Before
    <2>4. AskerWrites(v)'
      BY <1>1, <2>0, <2>1, <2>3 DEF AskerWrites, TypeOK
    <2>5. RevokerWrites(v)'
      <3>1. pc'[v] = "commit" /\ target'[v] = j /\ tx'[v][j] = d
            /\ previous'[v] = IF UltimaAceptada(d) THEN j ELSE Nobody
        BY <1>1, <2>0, <2>1, <2>3 DEF TypeOK
      <3> QED
        BY <2>2, <3>1 DEF RevokerWrites
    <2> QED
      BY <2>3, <2>4, <2>5
  <1>6. CASE RevokeCommit(v)
    <2>0. PICK j, d : j = target[v] /\ d = tx[v][j]
      OBVIOUS
    <2>1. /\ pc[v] = "commit" /\ j \in Passes /\ d # NoRow /\ Commit(v)
          /\ IF previous[v] # Nobody
             THEN Goto(v, "forget") /\ UNCHANGED answer
             ELSE Goto(v, "done") /\ Answer(v, "NO_REVOCADA")
          /\ UNCHANGED << clock, seen, slot, target, token, previous >>
      BY <1>1, <1>6, <2>0 DEF RevokeCommit, AskerOK
    <2>2. /\ Leaves(v) /\ AddsOnly(v)' /\ AskerWrites(v)'
          /\ \A k \in Passes : row[k] = NoRow => row'[k] = NoRow
          /\ row'[j] = d
      <3>1. \A q \in Requests \ {v} : pc'[q] = pc[q] /\ answer'[q] = answer[q]
        BY <1>1, <2>1 DEF Goto, Answer, TypeOK
      <3> QED
        BY <1>1, <2>0, <2>1, <3>1, CommitLeaves DEF Before
    <2>3. RevokerWrites(v)'
      <3>1. pc'[v] = (IF previous[v] # Nobody THEN "forget" ELSE "done") /\ previous' = previous
        BY <1>1, <2>1 DEF Goto, TypeOK
      <3>2. previous[v] # Nobody => previous[v] = j /\ d.estado = "REVOCADA"
        BY <1>1, <2>0, <2>1 DEF RevokerWrites
      <3> QED
        BY <2>1, <2>2, <3>1, <3>2 DEF RevokerWrites, Forgetting
    <2> QED
      BY <2>2, <2>3
  <1>7. CASE RevokeForget(v)
    <2>1. /\ pc[v] = "forget" /\ Forgetting(v)
      BY <1>1, <1>7 DEF RevokeForget, RevokerWrites
    <2>2. \A j \in Passes : token'[j] # token[j] => row[j].estado \in Finales
      <3>1. \A j \in Passes : token'[j] # token[j] => j = previous[v]
        BY <1>1, <1>7, <2>1 DEF RevokeForget, Forget, Forgetting, TypeOK
      <3> QED
        BY <2>1, <3>1 DEF Finales, Forgetting
    <2>3. Leaves(v) /\ \A j \in Passes : row[j] = NoRow => row'[j] = NoRow
      BY <1>1, <1>7, <2>2, QuietLeaves DEF RevokeForget, Goto, Answer, TypeOK
    <2>4. AddsOnly(v)' /\ AskerWrites(v)'
      BY <1>1, <1>7, <2>1, NothingWritten DEF RevokeForget, AddsOnly, AskerWrites, Before
    <2>5. RevokerWrites(v)'
      BY <1>1, <1>7 DEF RevokeForget, Goto, TypeOK, RevokerWrites
    <2> QED
      BY <2>3, <2>4, <2>5
  <1> QED
    BY <1>3, <1>4, <1>5, <1>6, <1>7 DEF Revoke

LEMMA ViewWrites ==
  ASSUME Before, NEW w \in Viewers, View(w)
  PROVE  JInv'
  <1>1. /\ TypeOK /\ RequestOK(w) /\ AskerOK(w)
        /\ w \in Requests /\ w \in Askers /\ w \notin Issuers /\ w \notin Consumers
        /\ w \notin Revokers /\ w \notin Sweepers
        /\ ViewerTells(w) /\ AskerWrites(w) /\ AddsOnly(w)
        /\ clock \in Nat /\ clock <= clock
    BY Disjoint, ConstantsAssumption
       DEF Before, IInv, RequestOK, JInv, RequestWrites, TypeOK
  <1>2. SUFFICES ASSUME TRUE
                 PROVE  /\ Leaves(w) /\ \A j \in Passes : row[j] = NoRow => row'[j] = NoRow
                        /\ AddsOnly(w)' /\ AskerWrites(w)' /\ ViewerTells(w)'
    BY <1>1, RequestStep DEF RequestWrites
  <1>3. CASE ViewStart(w)
    <2>1. Leaves(w) /\ \A j \in Passes : row[j] = NoRow => row'[j] = NoRow
      BY <1>1, <1>3, QuietLeaves DEF ViewStart, Goto, TypeOK, Askers
    <2>2. AddsOnly(w)' /\ AskerWrites(w)'
      BY <1>1, <1>3, NothingWritten DEF ViewStart, AddsOnly, AskerWrites, Before
    <2>3. ViewerTells(w)'
      BY <1>1, <1>3 DEF ViewStart, Goto, TypeOK, ViewerTells
    <2> QED
      BY <2>1, <2>2, <2>3
  <1>4. CASE NotFound(w) \/ ViewForeign(w)
    <2>0. /\ pc[w] = "lock" /\ pc' = [pc EXCEPT ![w] = "done"]
          /\ answer' = [answer EXCEPT ![w] = "NO_ENCONTRADA"]
          /\ UNCHANGED << clock, seen, slot, target, row, tx, paxLock, token, previous >>
      BY <1>4 DEF NotFound, ViewForeign, Goto, Answer
    <2>1. Leaves(w) /\ \A j \in Passes : row[j] = NoRow => row'[j] = NoRow
      BY <1>1, <2>0, QuietLeaves DEF TypeOK, Askers
    <2>2. AddsOnly(w)' /\ AskerWrites(w)'
      BY <1>1, <2>0, NothingWritten DEF AddsOnly, AskerWrites, Before
    <2>3. ViewerTells(w)'
      BY <1>1, <2>0 DEF TypeOK, ViewerTells
    <2> QED
      BY <2>1, <2>2, <2>3
  <1>5. CASE ViewLock(w)
    <2>0. PICK j, d : j = target[w] /\ d = RefreshExpiry(row[j], clock)
      OBVIOUS
    <2>1. /\ pc[w] = "lock" /\ j \in Passes /\ row[j] # NoRow /\ Write(w, j, d)
          /\ pc' = [pc EXCEPT ![w] = "commit"] /\ seen' = [seen EXCEPT ![w] = clock]
          /\ UNCHANGED << clock, slot, target, row, paxLock, token, previous, answer >>
      BY <1>1, <1>5, <2>0 DEF ViewLock, AskerOK, Goto
    <2>2. Adds(w, row[j].hist, d.hist) /\ (d.estado = "ACTIVA" => clock < d.expira)
      <3>1. GoodRow(row[j])
        BY <2>1, RowsAre DEF Before
      <3>2. /\ Adds(w, row[j].hist, d.hist) /\ Grows(row[j], d) /\ GoodRow(d)
            /\ row[j].estado \notin Finales /\ clock >= row[j].expira => d.estado = "EXPIRADA"
        BY <2>0, <3>1, RefreshResult
      <3>3. d.estado = "ACTIVA" => ~(clock >= d.expira)
        BY <3>2 DEF Grows, Finales
      <3>4. d.expira \in Nat
        BY <3>2, HistoryTyped
      <3> QED
        BY <1>1, <3>2, <3>3, <3>4
    <2>3. /\ Leaves(w) /\ AddsOnly(w)' /\ \A k \in Passes : row[k] = NoRow => row'[k] = NoRow
          /\ tx'[w][j] = d /\ \A k \in Passes \ {j} : tx'[w][k] = NoRow
      <3>1. \A q \in Requests \ {w} : pc'[q] = pc[q] /\ seen'[q] = seen[q]
        BY <1>1, <2>1 DEF TypeOK
      <3>2. \A q \in (Issuers \cup Revokers) \ {w} : previous'[q] = previous[q]
        BY <2>1
      <3>3. \A k \in Passes : tx[w][k] = NoRow
        BY <1>1, <2>1, NothingWritten DEF Before
      <3> QED
        BY <1>1, <2>1, <2>2, <3>1, <3>2, <3>3, WriteLeaves DEF Before
    <2>4. AskerWrites(w)'
      BY <1>1, <2>0, <2>1, <2>3 DEF AskerWrites, TypeOK
    <2>5. ViewerTells(w)'
      <3>1. /\ pc'[w] = "commit" /\ target'[w] = j /\ tx'[w][j] = d /\ seen'[w] = clock
            /\ answer'[w] = answer[w]
        BY <1>1, <2>0, <2>1, <2>3 DEF TypeOK
      <3>2. answer[w] # "ACTIVA"
        BY <1>1, <2>1 DEF ViewerTells
      <3> QED
        BY <2>2, <3>1, <3>2 DEF ViewerTells
    <2> QED
      BY <2>3, <2>4, <2>5
  <1>6. CASE ViewCommit(w)
    <2>0. PICK j, d : j = target[w] /\ d = tx[w][j]
      OBVIOUS
    <2>1. /\ pc[w] = "commit" /\ j \in Passes /\ d # NoRow /\ Commit(w)
          /\ Goto(w, "done") /\ Answer(w, d.estado)
          /\ UNCHANGED << clock, seen, slot, target, token, previous >>
      BY <1>1, <1>6, <2>0 DEF ViewCommit, AskerOK
    <2>2. /\ Leaves(w) /\ AddsOnly(w)' /\ AskerWrites(w)'
          /\ \A k \in Passes : row[k] = NoRow => row'[k] = NoRow
          /\ row'[j] = d
      <3>1. \A q \in Requests \ {w} : pc'[q] = pc[q] /\ answer'[q] = answer[q]
        BY <1>1, <2>1 DEF Goto, Answer, TypeOK
      <3> QED
        BY <1>1, <2>0, <2>1, <3>1, CommitLeaves DEF Before
    <2>3. ViewerTells(w)'
      <3>1. /\ pc'[w] = "done" /\ answer'[w] = d.estado /\ target'[w] = j /\ seen' = seen
        BY <1>1, <2>0, <2>1 DEF Goto, Answer, TypeOK
      <3>2. d.estado = "ACTIVA" => seen[w] < d.expira
        BY <1>1, <2>0, <2>1 DEF ViewerTells
      <3> QED
        BY <2>1, <2>2, <3>1, <3>2 DEF ViewerTells
    <2> QED
      BY <2>2, <2>3
  <1> QED
    BY <1>3, <1>4, <1>5, <1>6 DEF View

LEMMA SweepWrites ==
  ASSUME Before, NEW s \in Sweepers, Sweep(s)
  PROVE  JInv'
  <1>1. /\ TypeOK /\ RequestOK(s)
        /\ s \in Requests /\ s \notin Askers /\ s \notin Issuers /\ s \notin Consumers
        /\ s \notin Revokers /\ s \notin Viewers
        /\ SweeperWrites(s) /\ AddsOnly(s)
        /\ clock \in Nat /\ clock <= clock
    BY Disjoint, ConstantsAssumption
       DEF Before, IInv, RequestOK, JInv, RequestWrites, TypeOK
  <1>2. SUFFICES ASSUME TRUE
                 PROVE  /\ Leaves(s) /\ \A j \in Passes : row[j] = NoRow => row'[j] = NoRow
                        /\ AddsOnly(s)' /\ SweeperWrites(s)'
    BY <1>1, RequestStep DEF RequestWrites
  <1>3. CASE SweepStart(s) \/ SweepNothing(s)
    <2>1. /\ pc[s] # "commit"
          /\ \A q \in Requests \ {s} : pc'[q] = pc[q] /\ seen'[q] = seen[q]
          /\ UNCHANGED << clock, slot, target, row, tx, paxLock, token, previous, answer >>
      BY <1>1, <1>3 DEF SweepStart, SweepNothing, Goto, TypeOK
    <2>2. Leaves(s) /\ \A j \in Passes : row[j] = NoRow => row'[j] = NoRow
      BY <1>1, <2>1, QuietLeaves
    <2>3. AddsOnly(s)' /\ SweeperWrites(s)'
      BY <1>1, <2>1 DEF AddsOnly, SweeperWrites
    <2> QED
      BY <2>2, <2>3
  <1>4. CASE SweepClaim(s)
    <2>1. PICK batch \in SUBSET ExpiredLive(seen[s]) :
            tx' = [tx EXCEPT ![s] =
                 [j \in Passes |-> IF j \in batch THEN Expirar(row[j]) ELSE NoRow]]
      BY <1>4 DEF SweepClaim
    <2>2. /\ pc' = [pc EXCEPT ![s] = "commit"]
          /\ UNCHANGED << clock, seen, slot, target, row, paxLock, token, previous, answer >>
      BY <1>4 DEF SweepClaim, Goto
    <2>3. /\ \A q \in Requests \ {s} : tx'[q] = tx[q]
          /\ \A j \in Passes : tx'[s][j] = IF j \in batch THEN Expirar(row[j]) ELSE NoRow
      BY <1>1, <2>1 DEF TypeOK
    <2>4. ASSUME NEW j \in batch
          PROVE  /\ j \in Passes /\ Expirar(row[j]).estado = "EXPIRADA"
                 /\ Adds(s, row[j].hist, Expirar(row[j]).hist)
      <3>1. j \in Passes /\ Live(row[j])
        BY DEF ExpiredLive
      <3>2. GoodRow(row[j]) /\ row[j].estado = "ACTIVA"
        BY <3>1, RowsAre DEF Before
      <3>3. "EXPIRADA" \in Estados \ {"EMITIDA"} /\ Sistema \in Actors
            /\ << row[j].estado, "EXPIRADA" >> \in Legal
        BY <3>2 DEF Estados, Actors, Legal
      <3>4. Expirar(row[j]).estado = "EXPIRADA"
        BY <3>2, <3>3, TransitionResult DEF Expirar
      <3>5. Adds(s, row[j].hist, Expirar(row[j]).hist)
        BY <3>2, <3>3, TransitionAdds DEF Expirar
      <3> QED
        BY <3>1, <3>4, <3>5
    <2>5. Leaves(s) /\ \A j \in Passes : row[j] = NoRow => row'[j] = NoRow
      <3>1. \A q \in Requests \ {s} : pc'[q] = pc[q]
        BY <1>1, <2>2 DEF TypeOK
      <3> QED
        BY <1>1, <2>2, <2>3, <3>1, QuietLeaves
    <2>6. AddsOnly(s)' /\ SweeperWrites(s)'
      <3>1. pc'[s] = "commit"
        BY <1>1, <2>2 DEF TypeOK
      <3> QED
        BY <2>2, <2>3, <2>4, <3>1 DEF AddsOnly, SweeperWrites
    <2> QED
      BY <2>5, <2>6
  <1>5. CASE SweepCommit(s)
    <2>1. \A q \in Requests \ {s} : pc'[q] = pc[q] /\ answer'[q] = answer[q]
      BY <1>1, <1>5 DEF SweepCommit, Goto, TypeOK
    <2> QED
      BY <1>1, <1>5, <2>1, CommitLeaves DEF SweepCommit, Before
  <1> QED
    BY <1>3, <1>4, <1>5 DEF Sweep

\* The write of the new credential retires the live one of the slot: there is
\* one at most.
LEMMA ReplaceWrites ==
  ASSUME Before, NEW i \in Issuers, IssueReplace(i)
  PROVE  /\ Leaves(i) /\ \A j \in Passes : row[j] = NoRow => row'[j] = NoRow
         /\ AddsOnly(i)' /\ IssuerWrites(i)'
  <1>1. /\ TypeOK /\ IssuerWrites(i) /\ OneLive
        /\ i \in Requests /\ i \in Passes /\ row[i] = NoRow
        /\ pc[i] = "lockLive" /\ previous[i] = Nobody
        /\ \A j \in Passes : tx[i][j] = NoRow
        /\ Nobody \notin Passes
    BY Disjoint DEF Before, IInv, RequestOK, IssuerOK, JInv, RequestWrites, IssuerWrites,
                    IssueReplace, Writing
  <1>2. PICK nueva : nueva = Emitir(seen[i] + TTL)
    OBVIOUS
  <1>3. /\ nueva.estado = "EMITIDA" /\ nueva.expira = seen[i] + TTL
        /\ Adds(i, row[i].hist, nueva.hist)
    <2>1. seen[i] + TTL \in Nat
      BY <1>1, ConstantsAssumption DEF TypeOK
    <2> QED
      BY <1>1, <1>2, <2>1, EmisionResult, NoRowFacts
  <1>4. /\ pc' = [pc EXCEPT ![i] = "register"]
        /\ UNCHANGED << clock, seen, slot, target, row, paxLock, token, answer >>
    BY DEF IssueReplace, Goto
  <1>5. PICK S \in SUBSET (Passes \ {i}) :
          /\ \A j \in Passes \ {i} : j \in S <=> slot[j] = slot[i] /\ Live(row[j])
          /\ \A q \in Requests \ {i} : tx'[q] = tx[q]
          /\ tx'[i][i] = nueva
          /\ \A j \in Passes \ {i} : j \notin S => tx'[i][j] = NoRow
          /\ \A j \in S : tx'[i][j] = RetirePrevious(row[j], seen[i])
          /\ \A q \in (Issuers \cup Revokers) \ {i} : previous'[q] = previous[q]
          /\ previous'[i] # Nobody => /\ previous'[i] \in S
                                      /\ tx'[i][previous'[i]].estado = "REVOCADA"
    <2>1. CASE LiveInSlot(i) = {} /\ Write(i, i, nueva) /\ UNCHANGED previous
      <3>1. /\ \A q \in Requests \ {i} : tx'[q] = tx[q]
            /\ tx'[i][i] = nueva /\ \A j \in Passes \ {i} : tx'[i][j] = NoRow
        BY <1>1, <2>1 DEF Write, TypeOK
      <3>2. \A j \in Passes \ {i} : ~(slot[j] = slot[i] /\ Live(row[j]))
        BY <2>1 DEF LiveInSlot
      <3> WITNESS {} \in SUBSET (Passes \ {i})
      <3> QED
        BY <1>1, <2>1, <3>1, <3>2
    <2>2. ASSUME NEW j \in LiveInSlot(i), NEW d, d = RetirePrevious(row[j], seen[i]),
                 tx' = [tx EXCEPT ![i][j] = d, ![i][i] = nueva],
                 previous' = [previous EXCEPT ![i] = IF d.estado = "REVOCADA" THEN j ELSE Nobody]
          PROVE  \E S \in SUBSET (Passes \ {i}) :
                   /\ \A k \in Passes \ {i} : k \in S <=> slot[k] = slot[i] /\ Live(row[k])
                   /\ \A q \in Requests \ {i} : tx'[q] = tx[q]
                   /\ tx'[i][i] = nueva
                   /\ \A k \in Passes \ {i} : k \notin S => tx'[i][k] = NoRow
                   /\ \A k \in S : tx'[i][k] = RetirePrevious(row[k], seen[i])
                   /\ \A q \in (Issuers \cup Revokers) \ {i} : previous'[q] = previous[q]
                   /\ previous'[i] # Nobody => /\ previous'[i] \in S
                                               /\ tx'[i][previous'[i]].estado = "REVOCADA"
      <3>1. j \in Passes \ {i} /\ slot[j] = slot[i] /\ Live(row[j])
        BY <2>2 DEF LiveInSlot
      <3>2. \A k \in Passes \ {i} : k \in {j} <=> slot[k] = slot[i] /\ Live(row[k])
        BY <1>1, <3>1 DEF OneLive
      <3>3. /\ \A q \in Requests \ {i} : tx'[q] = tx[q]
            /\ tx'[i][i] = nueva /\ tx'[i][j] = d
            /\ \A k \in Passes \ {i, j} : tx'[i][k] = NoRow
        BY <1>1, <2>2, <3>1 DEF TypeOK
      <3>4. /\ \A q \in (Issuers \cup Revokers) \ {i} : previous'[q] = previous[q]
            /\ previous'[i] = IF d.estado = "REVOCADA" THEN j ELSE Nobody
        BY <1>1, <2>2 DEF TypeOK
      <3>5. previous'[i] # Nobody => previous'[i] = j /\ tx'[i][j].estado = "REVOCADA"
        BY <3>3, <3>4
      <3>6. PICK S : S = {j}
        OBVIOUS
      <3>7. /\ S \in SUBSET (Passes \ {i})
            /\ \A k \in Passes \ {i} : k \in S <=> slot[k] = slot[i] /\ Live(row[k])
            /\ \A k \in Passes \ {i} : k \notin S => tx'[i][k] = NoRow
        BY <3>1, <3>2, <3>3, <3>6
      <3>8. \A k \in S : tx'[i][k] = RetirePrevious(row[k], seen[i])
        BY <2>2, <3>3, <3>6
      <3>9. previous'[i] # Nobody => /\ previous'[i] \in S
                                     /\ tx'[i][previous'[i]].estado = "REVOCADA"
        BY <3>5, <3>6
      <3> QED
        BY <3>3, <3>4, <3>7, <3>8, <3>9
    <2> QED
      BY <1>2, <2>1, <2>2 DEF IssueReplace
  <1>6. \A j \in S : /\ Adds(i, row[j].hist, tx'[i][j].hist)
                     /\ tx'[i][j].estado \in {"EXPIRADA", "REVOCADA"}
    <2> SUFFICES ASSUME NEW j \in S
                 PROVE  /\ Adds(i, row[j].hist, tx'[i][j].hist)
                        /\ tx'[i][j].estado \in {"EXPIRADA", "REVOCADA"}
      OBVIOUS
    <2>1. j \in Passes /\ Live(row[j])
      BY <1>5
    <2>2. GoodRow(row[j]) /\ row[j].estado = "ACTIVA"
      BY <2>1, RowsAre DEF Before
    <2> QED
      BY <1>5, <2>2, RetireResult
  <1>7. Leaves(i) /\ \A j \in Passes : row[j] = NoRow => row'[j] = NoRow
    <2>1. \A q \in Requests \ {i} : pc'[q] = pc[q]
      BY <1>1, <1>4 DEF TypeOK
    <2>2. clock <= clock'
      BY <1>1, <1>4, ConstantsAssumption DEF TypeOK
    <2> QED
      BY <1>4, <1>5, <2>1, <2>2, QuietLeaves
  <1>8. AddsOnly(i)'
    BY <1>3, <1>4, <1>5, <1>6 DEF AddsOnly
  <1>9. pc'[i] = "register"
    BY <1>1, <1>4 DEF TypeOK
  <1>10. Retiring(i)'
    <2>1. previous'[i] # i
      BY <1>1, <1>5
    <2>2. ASSUME NEW j \in Passes \ {i}
          PROVE  /\ tx'[i][j] # NoRow <=> slot[j] = slot[i] /\ Live(row[j])
                 /\ tx'[i][j] # NoRow => tx'[i][j].estado \in {"EXPIRADA", "REVOCADA"}
                 /\ previous'[i] = j => tx'[i][j].estado = "REVOCADA"
      BY <1>1, <1>5, <1>6, NoRowFacts
    <2> QED
      BY <1>4, <2>1, <2>2 DEF Retiring, Live
  <1>11. IssuerWrites(i)'
    <2>1. slot[i] \in Slots /\ paxLock[slot[i][1]] = i /\ seen[i] <= clock
      BY <1>1 DEF IssuerWrites, Holding
    <2> QED
      BY <1>3, <1>4, <1>5, <1>9, <1>10, <2>1 DEF IssuerWrites, Holding, Writing
  <1> QED
    BY <1>7, <1>8, <1>11

\* What an issuer's commit publishes keeps one live credential per slot, with
\* its token.
LEMMA IssuerPublishes ==
  ASSUME Before, NEW i \in Issuers, pc[i] \in {"commit", "commitFailed"}, Commit(i),
         UNCHANGED << slot, token >>
  PROVE  OneLive' /\ TokensOK'
  <1>1. /\ IssuerWrites(i) /\ Retiring(i) /\ OneLive /\ TokensOK /\ i \in Passes
    BY Disjoint DEF Before, JInv, RequestWrites, IssuerWrites, Writing
  <1>2. \A j \in Passes : row'[j] = IF tx[i][j] = NoRow THEN row[j] ELSE tx[i][j]
    BY DEF Commit, Committed
  <1>3. ASSUME NEW j \in Passes \ {i}, Live(row'[j])
        PROVE  row'[j] = row[j] /\ slot[j] # slot[i]
    BY <1>1, <1>2, <1>3 DEF Retiring, Live, Vivas
  <1>4. OneLive'
    <2>1. ASSUME NEW j \in Passes, NEW k \in Passes, Live(row'[j]), Live(row'[k]),
                 slot[j] = slot[k]
          PROVE  j = k
      <3>1. CASE j # i /\ k # i
        BY <1>1, <1>3, <2>1, <3>1 DEF OneLive
      <3>2. CASE j = i /\ k # i
        BY <1>3, <2>1, <3>2
      <3>3. CASE j # i /\ k = i
        BY <1>3, <2>1, <3>3
      <3> QED
        BY <3>1, <3>2, <3>3
    <2> QED
      BY <2>1 DEF OneLive, Live
  <1>5. TokensOK'
    <2>1. ASSUME NEW j \in Passes, row'[j].estado = "ACTIVA"
          PROVE  token[j].valor = "ACTIVA" /\ row'[j].expira <= token[j].hasta
      <3>1. CASE j # i
        BY <1>1, <1>3, <2>1, <3>1 DEF TokensOK, Live, Vivas
      <3>2. CASE j = i
        <4>1. row'[i] = tx[i][i]
          BY <1>1, <1>2, NoRowFacts DEF IssuerWrites
        <4> QED
          BY <1>1, <2>1, <3>2, <4>1 DEF IssuerWrites
      <3> QED
        BY <3>1, <3>2
    <2> QED
      BY <2>1 DEF TokensOK
  <1> QED
    BY <1>4, <1>5

LEMMA IssueWrites ==
  ASSUME Before, NEW i \in Issuers, Issue(i)
  PROVE  JInv'
  <1>1. /\ TypeOK /\ RequestOK(i) /\ IssuerOK(i)
        /\ i \in Requests /\ i \in Passes /\ i \notin Askers /\ i \notin Consumers
        /\ i \notin Revokers /\ i \notin Viewers /\ i \notin Sweepers
        /\ IssuerWrites(i) /\ AddsOnly(i)
        /\ clock \in Nat /\ clock <= clock /\ TTL \in Nat /\ seen[i] \in Nat
        /\ Nobody \notin Requests /\ Nobody \notin Passes
    BY Disjoint, ConstantsAssumption
       DEF Before, IInv, RequestOK, JInv, RequestWrites, TypeOK
  <1>2. ASSUME Leaves(i), \A j \in Passes : row[j] = NoRow => row'[j] = NoRow,
               AddsOnly(i)', IssuerWrites(i)'
        PROVE  JInv'
    BY <1>1, <1>2, RequestStep DEF RequestWrites
  <1>3. CASE IssueStart(i)
    <2>1. Leaves(i) /\ \A j \in Passes : row[j] = NoRow => row'[j] = NoRow
      BY <1>1, <1>3, QuietLeaves DEF IssueStart, Goto, Answer, TypeOK, IssuerOK, Passes
    <2>2. AddsOnly(i)'
      BY <1>1, <1>3 DEF IssueStart, AddsOnly
    <2>3. IssuerWrites(i)'
      BY <1>1, <1>3 DEF IssueStart, Goto, Answer, TypeOK, IssuerWrites, Holding, Writing
    <2> QED
      BY <1>2, <2>1, <2>2, <2>3
  <1>4. CASE IssueLockPassenger(i)
    <2>1. Leaves(i) /\ \A j \in Passes : row[j] = NoRow => row'[j] = NoRow
      BY <1>1, <1>4, QuietLeaves DEF IssueLockPassenger, Goto, TypeOK
    <2>2. AddsOnly(i)'
      BY <1>1, <1>4 DEF IssueLockPassenger, AddsOnly
    <2>3. IssuerWrites(i)'
      <3>1. slot[i] \in Slots /\ slot[i][1] \in Passengers
        BY <1>1, <1>4 DEF IssueLockPassenger, IssuerWrites, Slots
      <3>2. /\ pc[i] = "lockPassenger" /\ pc'[i] = "lockLive" /\ seen'[i] = clock
            /\ paxLock'[slot[i][1]] = i
            /\ UNCHANGED << clock, slot, tx, previous >>
        BY <1>1, <1>4, <3>1 DEF IssueLockPassenger, Goto, TypeOK
      <3> QED
        BY <1>1, <3>1, <3>2 DEF IssuerWrites, Holding, Writing
    <2> QED
      BY <1>2, <2>1, <2>2, <2>3
  <1>5. CASE IssueRefuse(i)
    <2>1. Leaves(i) /\ \A j \in Passes : row[j] = NoRow => row'[j] = NoRow
      BY <1>1, <1>5, QuietLeaves DEF IssueRefuse, Goto, Answer, TypeOK
    <2>2. AddsOnly(i)'
      BY <1>1, <1>5 DEF IssueRefuse, AddsOnly
    <2>3. IssuerWrites(i)'
      BY <1>1, <1>5 DEF IssueRefuse, Goto, TypeOK, IssuerWrites, Holding, Writing
    <2> QED
      BY <1>2, <2>1, <2>2, <2>3
  <1>6. CASE IssueReplace(i)
    BY <1>2, <1>6, ReplaceWrites
  <1>7. ASSUME NEW a \in {"ACTIVA", "REVOCADA"}, NEW d, d = Transition(tx[i][i], a, Sistema),
               pc[i] = "register", Write(i, i, d),
               \/ a = "ACTIVA" /\ Register(i) /\ Goto(i, "commit")
               \/ a = "REVOCADA" /\ (Register(i) \/ UNCHANGED token) /\ Goto(i, "commitFailed"),
               UNCHANGED << clock, seen, slot, target, row, paxLock, previous, answer >>
        PROVE  JInv'
    <2>1. row[i] = NoRow /\ tx[i][i] # NoRow
      BY <1>1, <1>7 DEF IssuerOK
    <2>2. /\ GoodRow(tx[i][i]) /\ tx[i][i].estado = "EMITIDA"
          /\ tx[i][i].expira = seen[i] + TTL
          /\ Adds(i, << >>, tx[i][i].hist)
      BY <1>1, <1>7, <2>1, RowsAre, NoRowFacts DEF Before, IssuerWrites, AddsOnly
    <2>3. Adds(i, row[i].hist, d.hist) /\ d.estado = a /\ d.expira = seen[i] + TTL
      <3>1. Adds(i, tx[i][i].hist, d.hist) /\ d.estado = a /\ d.expira = seen[i] + TTL
            /\ GoodRow(d)
        BY <1>7, <2>2, FirstTransition
      <3>2. Adds(i, << >>, d.hist)
        BY <2>2, <3>1, AddsToNothing
      <3> QED
        BY <2>1, <3>1, <3>2, NoRowFacts
    <2>4. /\ \A q \in Requests \ {i} : tx'[q] = tx[q]
          /\ tx'[i][i] = d /\ \A j \in Passes \ {i} : tx'[i][j] = tx[i][j]
      BY <1>1, <1>7 DEF Write, TypeOK
    <2>5. /\ \A j \in Passes : token'[j] # token[j] => j = i
          /\ a = "ACTIVA" => token'[i].valor = "ACTIVA" /\ token'[i].hasta = clock + TTL
      BY <1>1, <1>7 DEF Register, TypeOK
    <2>6. /\ pc'[i] = (IF a = "ACTIVA" THEN "commit" ELSE "commitFailed")
          /\ \A q \in Requests \ {i} : pc'[q] = pc[q]
      BY <1>1, <1>7 DEF Goto, TypeOK
    <2>7. Leaves(i) /\ \A j \in Passes : row[j] = NoRow => row'[j] = NoRow
      BY <1>1, <1>7, <2>1, <2>4, <2>5, <2>6, QuietLeaves
    <2>8. AddsOnly(i)'
      BY <1>1, <1>7, <2>3, <2>4 DEF AddsOnly
    <2>9. Retiring(i)'
      <3>1. Retiring(i)
        BY <1>1, <1>7 DEF IssuerWrites, Writing
      <3> QED
        BY <1>7, <2>4, <3>1 DEF Retiring, Live
    <2>10. IssuerWrites(i)'
      <3>1. slot[i] \in Slots /\ paxLock[slot[i][1]] = i /\ seen[i] <= clock
        BY <1>1, <1>7 DEF IssuerWrites, Holding
      <3>2. seen[i] + TTL <= clock + TTL
        BY <1>1, <3>1
      <3> QED
        BY <1>7, <2>3, <2>4, <2>5, <2>6, <2>9, <3>1, <3>2 DEF IssuerWrites, Holding, Writing
    <2> QED
      BY <1>2, <2>7, <2>8, <2>10
  <1>8. CASE IssueRegister(i)
    BY <1>7, <1>8 DEF IssueRegister, Activar
  <1>9. CASE IssueRegisterFailed(i)
    BY <1>7, <1>9 DEF IssueRegisterFailed, Revocar
  <1>10. CASE IssueCommit(i) \/ IssueCommitFailed(i)
    <2>1. /\ pc[i] \in {"commit", "commitFailed"} /\ Commit(i)
          /\ \A q \in Requests \ {i} : pc'[q] = pc[q] /\ answer'[q] = answer[q]
          /\ pc'[i] \in {"done", "forget"}
          /\ pc'[i] = "forget" => previous[i] # Nobody
          /\ UNCHANGED << clock, seen, slot, target, token, previous >>
      BY <1>1, <1>10 DEF IssueCommit, IssueCommitFailed, Goto, Answer, TypeOK
    <2>2. /\ Leaves(i) /\ AddsOnly(i)' /\ \A j \in Passes : tx'[i][j] = NoRow
          /\ \A j \in Passes : row'[j] = IF tx[i][j] = NoRow THEN row[j] ELSE tx[i][j]
      BY <1>1, <2>1, CommitLeaves DEF Before
    <2>3. IssuerWrites(i)'
      <3>1. pc'[i] = "forget" => Forgetting(i)'
        <4> SUFFICES ASSUME pc'[i] = "forget"
                     PROVE  previous[i] \in Passes /\ row'[previous[i]].estado = "REVOCADA"
          BY <2>1 DEF Forgetting
        <4>1. previous[i] \in Passes /\ Retiring(i)
          BY <1>1, <2>1 DEF TypeOK, IssuerWrites, Writing
        <4>2. tx[i][previous[i]].estado = "REVOCADA"
          BY <4>1 DEF Retiring
        <4> QED
          BY <2>2, <4>1, <4>2, NoRowFacts
      <3>2. slot'[i] \in Slots
        BY <1>1, <2>1 DEF IssuerWrites
      <3> QED
        BY <2>1, <2>2, <3>1, <3>2 DEF IssuerWrites, Holding, Writing
    <2>4. OneLive' /\ TokensOK'
      BY <2>1, IssuerPublishes
    <2> QED
      BY <1>1, <2>2, <2>3, <2>4, StepWrites DEF RequestWrites, Before, StepOf
  <1>11. CASE IssueForget(i)
    <2>1. /\ pc[i] = "forget" /\ Forgetting(i)
      BY <1>1, <1>11 DEF IssueForget, IssuerWrites
    <2>2. \A j \in Passes : token'[j] # token[j] => row[j].estado \in Finales
      <3>1. \A j \in Passes : token'[j] # token[j] => j = previous[i]
        BY <1>1, <1>11, <2>1 DEF IssueForget, Forget, Forgetting, TypeOK
      <3> QED
        BY <2>1, <3>1 DEF Finales, Forgetting
    <2>3. Leaves(i) /\ \A j \in Passes : row[j] = NoRow => row'[j] = NoRow
      BY <1>1, <1>11, <2>2, QuietLeaves DEF IssueForget, Goto, Answer, TypeOK
    <2>4. AddsOnly(i)'
      BY <1>1, <1>11 DEF IssueForget, AddsOnly
    <2>5. IssuerWrites(i)'
      <3>1. /\ pc'[i] = "done" /\ slot' = slot /\ tx' = tx
        BY <1>1, <1>11 DEF IssueForget, Goto, TypeOK
      <3> QED
        BY <1>1, <2>1, <3>1 DEF IssuerWrites, Holding, Writing
    <2> QED
      BY <1>2, <2>3, <2>4, <2>5
  <1> QED
    BY <1>3, <1>4, <1>5, <1>6, <1>8, <1>9, <1>10, <1>11 DEF Issue

\* A crash leaves nothing of the transaction, or all of it.
LEMMA CrashWrites ==
  ASSUME Before, NEW r \in Requests, Crash(r)
  PROVE  JInv'
  <1>1. /\ TypeOK /\ RequestWrites(r)
        /\ pc[r] \notin {"start", "done"}
        /\ \A q \in Requests \ {r} : pc'[q] = pc[q] /\ answer'[q] = answer[q]
        /\ r \in Sweepers \/ (pc'[r] = "done" /\ answer'[r] = "ERROR")
        /\ UNCHANGED << clock, seen, slot, target, token, previous >>
    BY DEF Before, IInv, JInv, Crash, Goto, Answer, TypeOK
  <1>2. ASSUME Leaves(r), \A j \in Passes : tx'[r][j] = NoRow, AddsOnly(r)',
               r \in Askers => AskerWrites(r)', r \in Sweepers => SweeperWrites(r)'
        PROVE  RequestWrites(r)'
    <2>1. r \in Issuers => IssuerWrites(r)'
      BY <1>1, <1>2, Disjoint DEF RequestWrites, IssuerWrites, Holding, Writing
    <2>2. r \in Consumers => ConsumerTells(r)'
      BY <1>1, Disjoint DEF ConsumerTells, Told
    <2>3. r \in Revokers => RevokerWrites(r)'
      BY <1>1, Disjoint DEF RevokerWrites
    <2>4. r \in Viewers => ViewerTells(r)'
      BY <1>1, Disjoint DEF ViewerTells
    <2> QED
      BY <1>2, <2>1, <2>2, <2>3, <2>4 DEF RequestWrites
  <1>3. CASE Release(r) /\ UNCHANGED row
    <2>1. /\ Leaves(r) /\ \A j \in Passes : tx'[r][j] = NoRow
          /\ AddsOnly(r)' /\ (r \in Askers => AskerWrites(r)')
      BY <1>1, <1>3, ReleaseLeaves
    <2>2. r \in Sweepers => SweeperWrites(r)'
      BY <1>1, <1>3, ReleaseLeaves
    <2>3. RequestWrites(r)'
      BY <1>2, <2>1, <2>2
    <2> QED
      BY <1>3, <2>1, <2>3, RequestStep
  <1>4. CASE pc[r] \in {"commit", "commitFailed"} /\ Commit(r)
    <2>1. /\ Leaves(r) /\ \A j \in Passes : tx'[r][j] = NoRow /\ AddsOnly(r)'
          /\ r \notin Issuers => \A j \in Passes : row[j] = NoRow => row'[j] = NoRow
      BY <1>1, <1>4, CommitLeaves DEF Before
    <2>2. /\ AddsOnly(r)' /\ (r \in Askers => AskerWrites(r)')
          /\ (r \in Sweepers => SweeperWrites(r)')
      BY <1>1, <1>4, CommitLeaves DEF Before
    <2>3. RequestWrites(r)'
      BY <1>2, <2>1, <2>2
    <2>4. CASE r \in Issuers
      BY <1>1, <1>4, <2>1, <2>3, <2>4, IssuerPublishes, StepWrites DEF Before, StepOf
    <2>5. CASE r \notin Issuers
      BY <2>1, <2>3, <2>5, RequestStep
    <2> QED
      BY <2>4, <2>5
  <1> QED
    BY <1>3, <1>4 DEF Crash

LEMMA TickWrites ==
  ASSUME Before, Tick
  PROVE  JInv'
  <1>1. clock <= clock' /\ UNCHANGED << pc, seen, slot, target, row, tx, paxLock, rowLock,
                                        token, previous, answer >>
    BY ConstantsAssumption DEF Tick, Before, IInv, TypeOK
  <1>2. StepOf(Nobody)
    BY <1>1 DEF Before, StepOf, Leaves
  <1>3. \A q \in Requests : RequestWrites(q)'
    BY <1>2, OthersWrite, Disjoint
  <1>4. OneLive' /\ TokensOK'
    BY <1>1, <1>2, NoBirth
  <1> QED
    BY <1>3, <1>4 DEF JInv

LEMMA InitWrites ==
  ASSUME Init
  PROVE  JInv
  <1>1. /\ \A j \in Passes : row[j] = NoRow /\ ~Live(row[j]) /\ row[j].estado = "AUSENTE"
                             /\ Len(row[j].hist) = 0
        /\ \A r \in Requests, j \in Passes : tx[r][j] = NoRow
        /\ \A r \in Requests : pc[r] = "start" /\ answer[r] = "NINGUNA"
        /\ \A i \in Issuers : previous[i] = Nobody
    BY NoRowFacts DEF Init, NoTx
  <1>2. OneLive /\ TokensOK
    BY <1>1 DEF OneLive, TokensOK
  <1>3. ASSUME NEW r \in Requests
        PROVE  RequestWrites(r)
    <2>1. AddsOnly(r) /\ AskerWrites(r) /\ SweeperWrites(r)
      BY <1>1 DEF AddsOnly, AskerWrites, SweeperWrites
    <2>2. RevokerWrites(r) /\ ViewerTells(r)
      BY <1>1 DEF RevokerWrites, ViewerTells
    <2>3. ConsumerTells(r)
      BY <1>1 DEF ConsumerTells, Without, Told
    <2>4. r \in Issuers => IssuerWrites(r)
      BY <1>1 DEF IssuerWrites, Holding, Writing
    <2> QED
      BY <2>1, <2>2, <2>3, <2>4 DEF RequestWrites
  <1> QED
    BY <1>2, <1>3 DEF JInv

LEMMA NextWrites ==
  ASSUME IInv, IInv', JInv, [Next]_vars
  PROVE  JInv'
  <1>1. CASE Next
    <2>1. Before
      BY <1>1, NextKeeps DEF Before
    <2> QED
      BY <1>1, <2>1, IssueWrites, ConsumeWrites, RevokeWrites, ViewWrites, SweepWrites,
         CrashWrites, TickWrites DEF Next
  <1>2. CASE UNCHANGED vars
    BY <1>2 DEF vars, JInv, RequestWrites, AddsOnly, IssuerWrites, AskerWrites, ConsumerTells,
                RevokerWrites, ViewerTells, SweeperWrites, OneLive, TokensOK, Retiring,
                Forgetting, Marked, Says, Live
  <1> QED
    BY <1>1, <1>2

\* What every request has written, by where it is, in every reachable state.
THEOREM Writes == Spec => [](IInv /\ JInv)
  <1>1. Init => JInv
    BY InitWrites
  <1>2. IInv /\ IInv' /\ JInv /\ [Next]_vars => JInv'
    BY NextWrites
  <1> QED
    BY <1>1, <1>2, Invariance, PTL DEF Spec

-----------------------------------------------------------------------------
(* What follows.                                                            *)

\* FR-020 and the partial unique index: no issuer ever sees, nor do two insert,
\* two live credentials of one passenger and flight.
THEOREM OneLivePassPerFlightHolds == Spec => []OneLivePassPerFlight
  <1>1. ASSUME IInv, JInv, NEW i \in Issuers, NEW j \in Passes, NEW k \in Passes,
               Live(Visible(i, j)), Live(Visible(i, k)), slot[j] = slot[k]
        PROVE  j = k
    <2>1. /\ IssuerWrites(i) /\ OneLive /\ i \in Passes
      BY <1>1, Disjoint DEF JInv, RequestWrites
    <2>2. CASE pc[i] \notin Writing
      BY <1>1, <2>1, <2>2 DEF IssuerWrites, Visible, OneLive
    <2>3. CASE pc[i] \in Writing
      <3>1. ASSUME NEW l \in Passes \ {i}, Live(Visible(i, l))
            PROVE  Live(row[l]) /\ slot[l] # slot[i]
        BY <2>1, <2>3, <3>1 DEF IssuerWrites, Retiring, Visible, Live, Vivas
      <3>2. CASE j # i /\ k # i
        BY <1>1, <2>1, <3>1, <3>2 DEF OneLive
      <3>3. CASE j = i \/ k = i
        BY <1>1, <3>1, <3>3
      <3> QED
        BY <3>2, <3>3
    <2> QED
      BY <2>2, <2>3
  <1>2. ASSUME IInv, JInv, NEW i \in Issuers, NEW k \in Issuers,
               Live(tx[i][i]), Live(tx[k][k]), slot[i] = slot[k]
        PROVE  i = k
    <2>1. IssuerWrites(i) /\ IssuerWrites(k) /\ tx[i][i] # NoRow /\ tx[k][k] # NoRow
      BY <1>2, Disjoint, NoRowFacts DEF JInv, RequestWrites
    <2>2. paxLock[slot[i][1]] = i /\ paxLock[slot[k][1]] = k
      BY <2>1, Disjoint DEF IssuerWrites, Writing, Holding
    <2> QED
      BY <1>2, <2>2
  <1>3. IInv /\ JInv => OneLivePassPerFlight
    BY <1>1, <1>2 DEF OneLivePassPerFlight
  <1> QED
    BY <1>3, Writes, PTL

\* The proxy's shortcut on a missing or spent token never rejects a credential
\* that Postgres would accept.
THEOREM ProxyNeverRejectsUsableHolds == Spec => []ProxyNeverRejectsUsable
  <1>1. ASSUME IInv, JInv, NEW j \in Passes, row[j].estado = "ACTIVA", clock < row[j].expira
        PROVE  TokenValue(j) = "ACTIVA"
    <2>1. token[j].valor = "ACTIVA" /\ row[j].expira <= token[j].hasta
      BY <1>1 DEF JInv, TokensOK
    <2>2. clock \in Nat /\ row[j].expira \in Nat /\ token[j].hasta \in Nat
      <3>1. GoodRow(row[j])
        BY <1>1, RowsAre, NoRowFacts
      <3> QED
        BY <1>1, <3>1, HistoryTyped, ConstantsAssumption DEF IInv, TypeOK
    <2>3. clock < token[j].hasta
      BY <1>1, <2>1, <2>2
    <2> QED
      BY <2>1, <2>3 DEF TokenValue
  <1>2. IInv /\ JInv => ProxyNeverRejectsUsable
    BY <1>1 DEF ProxyNeverRejectsUsable
  <1> QED
    BY <1>2, Writes, PTL

\* No call that arrived after the deadline consumes a credential, and no owner
\* is shown an expired one as ACTIVA.
THEOREM DeadlineRespectedHolds == Spec => []DeadlineRespected
  <1>1. IInv /\ JInv => DeadlineRespected
    BY Disjoint DEF JInv, RequestWrites, ConsumerTells, ViewerTells, DeadlineRespected
  <1> QED
    BY <1>1, Writes, PTL

\* FR-019: every answer of consume about a credential it found is in that
\* credential's committed history exactly once, and says the same.
THEOREM AnswersAreRecordedHolds == Spec => []AnswersAreRecorded
  <1>1. ASSUME IInv, JInv, NEW c \in Consumers, answer[c] \in Told
        PROVE  \E k \in Recorded(c) : /\ Recorded(c) = {k}
                                      /\ Says(c, row[target[c]].hist[k])
    <2>1. PICK k \in Nat : Marked(c, k) /\ Says(c, row[target[c]].hist[k])
      BY <1>1, Disjoint DEF JInv, RequestWrites, ConsumerTells
    <2>2. Recorded(c) = {k}
      BY <2>1 DEF Recorded, Marked, OnlyAt
    <2> QED
      BY <2>1, <2>2
  <1>2. IInv /\ JInv => AnswersAreRecorded
    BY <1>1 DEF AnswersAreRecorded, Told
  <1> QED
    BY <1>2, Writes, PTL

-----------------------------------------------------------------------------
(* The implementation of SingleUsePass.                                     *)

\* The pass of the promise: what is committed of the credential.
PassEstado == [j \in Passes |-> row[j].estado]
PassSlot == [j \in Passes |-> IF row[j] = NoRow THEN NoSlot ELSE slot[j]]
PassUser == [j \in Passes |-> UsedBy(row[j].hist)]

\* A CONSUMIDA credential was used by an actor of its history.
LEMMA UsersAreActors ==
  ASSUME NEW d, GoodRow(d), d.estado = "CONSUMIDA"
  PROVE  UsedBy(d.hist) \in Actors
  <1> DEFINE K == {k \in 1 .. Len(d.hist) : Redemption(d.hist[k])}
             k == CHOOSE l \in 1 .. Len(d.hist) : Redemption(d.hist[l])
  <1>1. \E l \in 1 .. Len(d.hist) : Redemption(d.hist[l])
    BY DEF GoodRow
  <1>2. k \in 1 .. Len(d.hist)
    BY <1>1
  <1>3. UsedBy(d.hist) = d.hist[k].por
    BY <1>1 DEF UsedBy
  <1> HIDE DEF k
  <1>4. d.hist[k] \in Entry
    BY <1>2, HistoryTyped
  <1> QED
    BY <1>3, <1>4 DEF Entry, Actors

\* What the commit of r does to a credential that is there: it says the same, it
\* ends unused, or r is a checkpoint and used it.
LEMMA CommittedOver ==
  ASSUME Before, NEW r \in Requests, Commit(r), NEW j \in Passes, row[j] # NoRow
  PROVE  /\ row'[j] # NoRow
         /\ row'[j].estado = row[j].estado => UsedBy(row'[j].hist) = UsedBy(row[j].hist)
         /\ row'[j].estado # row[j].estado =>
              /\ row[j].estado = "ACTIVA" /\ tx[r][j] # NoRow /\ row'[j] = tx[r][j]
              /\ \/ /\ row'[j].estado \in {"EXPIRADA", "REVOCADA"}
                    /\ UsedBy(row'[j].hist) = UsedBy(row[j].hist)
                 \/ /\ row'[j].estado = "CONSUMIDA" /\ r \in Consumers
                    /\ UsedBy(row'[j].hist) = r
  <1>1. /\ row'[j] # NoRow /\ Grows(row[j], row'[j])
        /\ GoodRow(row[j]) /\ GoodRow(row'[j])
        /\ row'[j].estado # "EMITIDA"
    BY DEF Before, Kept, IInv, DataOK, RowsOK, TypeOK
  <1>2. row'[j].estado = row[j].estado => UsedBy(row'[j].hist) = UsedBy(row[j].hist)
    BY <1>1, UsedByKept
  <1>3. ASSUME row'[j].estado # row[j].estado
        PROVE  /\ row[j].estado = "ACTIVA" /\ tx[r][j] # NoRow /\ row'[j] = tx[r][j]
               /\ \/ /\ row'[j].estado \in {"EXPIRADA", "REVOCADA"}
                     /\ UsedBy(row'[j].hist) = UsedBy(row[j].hist)
                  \/ /\ row'[j].estado = "CONSUMIDA" /\ r \in Consumers
                     /\ UsedBy(row'[j].hist) = r
    <2>1. row[j].estado = "ACTIVA"
      BY <1>1, <1>3, RowsAre DEF Before, Grows
    <2>2. tx[r][j] # NoRow /\ row'[j] = tx[r][j]
      BY <1>3 DEF Commit, Committed
    <2>3. row'[j].estado \in {"EXPIRADA", "REVOCADA", "CONSUMIDA"}
      BY <1>1, <1>3, <2>1, HistoryTyped DEF Estados
    <2>4. CASE row'[j].estado \in {"EXPIRADA", "REVOCADA"}
      BY <1>1, <2>1, <2>2, <2>4, UsedByNobody
    <2>5. CASE row'[j].estado = "CONSUMIDA"
      <3>1. Adds(r, row[j].hist, row'[j].hist)
        BY <2>2 DEF Before, JInv, RequestWrites, AddsOnly
      <3>2. UsedBy(row'[j].hist) = r
        BY <1>1, <2>1, <2>5, <3>1, RedeemedByAdder
      <3>3. r \in Consumers
        BY <1>1, <2>5, <3>2, UsersAreActors, Disjoint DEF Actors
      <3> QED
        BY <2>1, <2>2, <2>5, <3>2, <3>3
    <2> QED
      BY <2>3, <2>4, <2>5
  <1> QED
    BY <1>1, <1>2, <1>3

\* Whoever is no issuer commits a use, the end of some usable passes, or nothing
\* that the promise sees.
LEMMA OthersCommitIsPromised ==
  ASSUME Before, NEW r \in Requests, r \notin Issuers, Commit(r), UNCHANGED slot
  PROVE  Promise!ANext \/ UNCHANGED Promise!avars
  <1>1. PICK S : S = {j \in Passes : row'[j].estado # row[j].estado}
    OBVIOUS
  <1>2. \A j \in Passes : row[j] = NoRow => row'[j] = NoRow
    BY DEF Before, IInv, DataOK, TxOK, Passes, Commit, Committed
  <1>3. ASSUME NEW j \in Passes
        PROVE  /\ row[j] = NoRow <=> row'[j] = NoRow
               /\ j \notin S => /\ row'[j].estado = row[j].estado
                                /\ UsedBy(row'[j].hist) = UsedBy(row[j].hist)
               /\ j \in S =>
                    /\ row[j].estado = "ACTIVA" /\ tx[r][j] # NoRow /\ row'[j] = tx[r][j]
                    /\ \/ /\ row'[j].estado \in {"EXPIRADA", "REVOCADA"}
                          /\ UsedBy(row'[j].hist) = UsedBy(row[j].hist)
                       \/ /\ row'[j].estado = "CONSUMIDA" /\ r \in Consumers
                          /\ UsedBy(row'[j].hist) = r
    BY <1>1, <1>2, CommittedOver
  <1>4. PassSlot' = PassSlot
    BY <1>3 DEF PassSlot
  <1>5. CASE S = {}
    <2>1. PassEstado' = PassEstado /\ PassUser' = PassUser
      BY <1>3, <1>5 DEF PassEstado, PassUser
    <2> QED
      BY <1>4, <2>1 DEF PassEstado, PassSlot, PassUser, Promise!avars
  <1>6. ASSUME r \in Askers, NEW j \in S
        PROVE  S = {j}
    BY <1>1, <1>3, <1>6 DEF Before, JInv, RequestWrites, AskerWrites
  <1>7. ASSUME NEW j \in S, row'[j].estado = "CONSUMIDA"
        PROVE  Promise!ANext
    <2>1. j \in Passes /\ r \in Consumers /\ S = {j}
      BY <1>1, <1>3, <1>6, <1>7, Disjoint
    <2>2. PassEstado' = [PassEstado EXCEPT ![j] = "CONSUMIDA"]
      BY <1>3, <1>7, <2>1 DEF PassEstado
    <2>3. PassUser' = [PassUser EXCEPT ![j] = r]
      BY <1>3, <1>7, <2>1 DEF PassUser
    <2>4. PassEstado[j] = "ACTIVA"
      BY <1>3, <1>7, <2>1 DEF PassEstado
    <2>5. Promise!AUse(j, r)
      BY <1>4, <2>2, <2>3, <2>4 DEF Promise!AUse, PassEstado, PassSlot, PassUser
    <2> QED
      BY <2>1, <2>5 DEF Promise!ANext
  <1>8. ASSUME S # {}, \A j \in S : row'[j].estado # "CONSUMIDA"
        PROVE  Promise!ANext
    <2>1. PICK fate \in {"EXPIRADA", "REVOCADA"} : \A j \in S : row'[j].estado = fate
      <3>1. CASE r \in Askers
        <4>1. PICK j \in S : S = {j}
          BY <1>6, <1>8, <3>1
        <4> QED
          BY <1>1, <1>3, <1>8, <4>1
      <3>2. CASE r \notin Askers
        <4>1. SweeperWrites(r)
          BY <3>2 DEF Before, JInv, RequestWrites, Requests, Askers
        <4> QED
          BY <1>1, <1>3, <4>1 DEF SweeperWrites
      <3> QED
        BY <3>1, <3>2
    <2>2. S \in SUBSET Passes
      BY <1>1
    <2>3. PassEstado' = [j \in Passes |-> IF j \in S THEN fate ELSE PassEstado[j]]
      BY <1>3, <2>1 DEF PassEstado
    <2>4. PassUser' = PassUser
      <3>1. \A j \in Passes : UsedBy(row'[j].hist) = UsedBy(row[j].hist)
        BY <1>3, <1>8
      <3> QED
        BY <3>1 DEF PassUser
    <2>5. \A j \in S : PassEstado[j] = "ACTIVA"
      BY <1>3, <2>2 DEF PassEstado
    <2>6. Promise!AEnd(S, fate)
      BY <1>4, <1>8, <2>3, <2>4, <2>5
         DEF Promise!AEnd, Promise!Ended, PassEstado, PassSlot, PassUser
    <2> QED
      BY <2>1, <2>2, <2>6 DEF Promise!ANext
  <1> QED
    BY <1>5, <1>7, <1>8

\* The commit of issue is the issue of one pass, usable or stillborn, and the
\* end of the usable pass of its slot in the same instant.
LEMMA IssueCommitIsPromised ==
  ASSUME Before, NEW i \in Issuers, pc[i] \in {"commit", "commitFailed"}, Commit(i),
         UNCHANGED slot
  PROVE  Promise!ANext
  <1>1. /\ IssuerWrites(i) /\ Retiring(i) /\ OneLive /\ IssuerOK(i)
        /\ i \in Passes /\ i \in Requests /\ slot[i] \in Slots /\ i \notin Consumers
    BY Disjoint
       DEF Before, JInv, RequestWrites, IssuerWrites, Writing, IInv, RequestOK
  <1>2. row[i] = NoRow /\ tx[i][i].estado \in {"ACTIVA", "REVOCADA"}
    BY <1>1 DEF IssuerWrites, IssuerOK
  <1>3. row'[i] = tx[i][i] /\ row'[i] # NoRow /\ UsedBy(row'[i].hist) = Nobody
    <2>1. row'[i] = tx[i][i] /\ row'[i] # NoRow
      BY <1>1, <1>2, NoRowFacts DEF Commit, Committed
    <2>2. GoodRow(row'[i])
      BY <1>1, <2>1 DEF Before, IInv, DataOK, RowsOK
    <2> QED
      BY <1>2, <2>1, <2>2, UsedByNobody
  <1>4. PICK S : S = {j \in Passes : PassSlot[j] = slot[i] /\ PassEstado[j] = "ACTIVA"}
    OBVIOUS
  <1>5. \A j \in Passes : j \in S <=>
          j # i /\ row[j] # NoRow /\ slot[j] = slot[i] /\ row[j].estado = "ACTIVA"
    BY <1>2, <1>4, NoRowFacts DEF PassSlot, PassEstado
  <1>6. ASSUME NEW j \in Passes \ {i}
        PROVE  /\ row[j] = NoRow <=> row'[j] = NoRow
               /\ j \notin S => row'[j] = row[j]
               /\ j \in S => row'[j].estado \in {"EXPIRADA", "REVOCADA"}
               /\ UsedBy(row'[j].hist) = UsedBy(row[j].hist)
    <2>1. /\ tx[i][j] # NoRow <=> slot[j] = slot[i] /\ Live(row[j])
          /\ tx[i][j] # NoRow => tx[i][j].estado \in {"EXPIRADA", "REVOCADA"}
      BY <1>1 DEF Retiring
    <2>2. tx[i][j] # NoRow <=> j \in S
      BY <1>5, <2>1, RowsAre DEF Before
    <2>3. row'[j] = IF tx[i][j] = NoRow THEN row[j] ELSE tx[i][j]
      BY DEF Commit, Committed
    <2>4. row[j] # NoRow => row'[j] # NoRow /\ UsedBy(row'[j].hist) = UsedBy(row[j].hist)
      BY <1>1, <2>1, <2>3, CommittedOver
    <2> QED
      BY <1>5, <2>1, <2>2, <2>3, <2>4
  <1>7. PICK fate \in {"EXPIRADA", "REVOCADA"} : \A j \in S : row'[j].estado = fate
    <2>1. \A j, k \in S : j = k
      BY <1>1, <1>4, <1>5, RowsAre DEF OneLive, Before
    <2>2. \A j \in S : row'[j].estado \in {"EXPIRADA", "REVOCADA"}
      BY <1>4, <1>5, <1>6
    <2>3. CASE S = {}
      BY <2>3
    <2>4. CASE S # {}
      BY <2>1, <2>2, <2>4
    <2> QED
      BY <2>3, <2>4
  <1>8. i \notin S
    BY <1>5, <1>1
  <1>9. PassEstado' =
          [[j \in Passes |-> IF j \in S THEN fate ELSE PassEstado[j]]
             EXCEPT ![i] = tx[i][i].estado]
    BY <1>1, <1>3, <1>6, <1>7 DEF PassEstado
  <1>10. PassSlot' = [PassSlot EXCEPT ![i] = slot[i]]
    BY <1>1, <1>3, <1>6 DEF PassSlot
  <1>11. PassUser' = PassUser
    <2>1. \A j \in Passes : UsedBy(row'[j].hist) = UsedBy(row[j].hist)
      BY <1>2, <1>3, <1>6, NoRowFacts
    <2> QED
      BY <2>1 DEF PassUser
  <1>12. PassEstado[i] = "AUSENTE"
    BY <1>1, <1>2, NoRowFacts DEF PassEstado
  <1>13. Promise!AIssue(i, slot[i], tx[i][i].estado, fate)
    BY <1>4, <1>9, <1>10, <1>11, <1>12
       DEF Promise!AIssue, Promise!Ended, PassEstado, PassSlot, PassUser
  <1> QED
    BY <1>1, <1>2, <1>7, <1>13 DEF Promise!ANext

\* What commits nothing is invisible: an issuer chooses its slot before it has
\* a credential there.
LEMMA UncommittedIsInvisible ==
  ASSUME UNCHANGED row, \A j \in Passes : slot'[j] # slot[j] => row[j] = NoRow
  PROVE  UNCHANGED Promise!avars
  <1>1. PassEstado' = PassEstado /\ PassUser' = PassUser
    BY DEF PassEstado, PassUser
  <1>2. PassSlot' = PassSlot
    BY DEF PassSlot
  <1> QED
    BY <1>1, <1>2 DEF PassEstado, PassSlot, PassUser, Promise!avars

LEMMA StepIsPromised ==
  ASSUME IInv, IInv', JInv, [Next]_vars
  PROVE  Promise!ANext \/ UNCHANGED Promise!avars
  <1>1. CASE UNCHANGED vars
    BY <1>1, UncommittedIsInvisible DEF vars
  <1>2. ASSUME Before, NEW i \in Issuers, Issue(i)
        PROVE  Promise!ANext \/ UNCHANGED Promise!avars
    <2>1. CASE IssueCommit(i) \/ IssueCommitFailed(i)
      BY <1>2, <2>1, IssueCommitIsPromised DEF IssueCommit, IssueCommitFailed
    <2>2. CASE IssueStart(i)
      <3>1. row[i] = NoRow /\ UNCHANGED row
        BY <1>2, <2>2, Disjoint DEF IssueStart, Before, IInv, RequestOK, IssuerOK
      <3>2. \A j \in Passes : slot'[j] # slot[j] => j = i
        BY <1>2, <2>2, Disjoint DEF IssueStart, Before, IInv, TypeOK
      <3> QED
        BY <3>1, <3>2, UncommittedIsInvisible
    <2>3. CASE \/ IssueLockPassenger(i) \/ IssueRefuse(i) \/ IssueReplace(i)
               \/ IssueRegister(i) \/ IssueRegisterFailed(i) \/ IssueForget(i)
      BY <2>3, UncommittedIsInvisible
         DEF IssueLockPassenger, IssueRefuse, IssueReplace, IssueRegister,
             IssueRegisterFailed, IssueForget
    <2> QED
      BY <1>2, <2>1, <2>2, <2>3 DEF Issue
  <1>3. ASSUME Before, NEW c \in Consumers, Consume(c)
        PROVE  Promise!ANext \/ UNCHANGED Promise!avars
    <2>1. CASE ConsumeCommit(c)
      BY <1>3, <2>1, OthersCommitIsPromised, Disjoint DEF ConsumeCommit
    <2>2. CASE ConsumeStart(c) \/ NotFound(c) \/ ConsumeLock(c) \/ ConsumeToken(c)
      BY <2>2, UncommittedIsInvisible DEF ConsumeStart, NotFound, ConsumeLock, ConsumeToken
    <2> QED
      BY <1>3, <2>1, <2>2 DEF Consume
  <1>4. ASSUME Before, NEW v \in Revokers, Revoke(v)
        PROVE  Promise!ANext \/ UNCHANGED Promise!avars
    <2>1. CASE RevokeCommit(v)
      BY <1>4, <2>1, OthersCommitIsPromised, Disjoint DEF RevokeCommit
    <2>2. CASE RevokeStart(v) \/ NotFound(v) \/ RevokeLock(v) \/ RevokeForget(v)
      BY <2>2, UncommittedIsInvisible DEF RevokeStart, NotFound, RevokeLock, RevokeForget
    <2> QED
      BY <1>4, <2>1, <2>2 DEF Revoke
  <1>5. ASSUME Before, NEW w \in Viewers, View(w)
        PROVE  Promise!ANext \/ UNCHANGED Promise!avars
    <2>1. CASE ViewCommit(w)
      BY <1>5, <2>1, OthersCommitIsPromised, Disjoint DEF ViewCommit
    <2>2. CASE ViewStart(w) \/ NotFound(w) \/ ViewForeign(w) \/ ViewLock(w)
      BY <2>2, UncommittedIsInvisible DEF ViewStart, NotFound, ViewForeign, ViewLock
    <2> QED
      BY <1>5, <2>1, <2>2 DEF View
  <1>6. ASSUME Before, NEW s \in Sweepers, Sweep(s)
        PROVE  Promise!ANext \/ UNCHANGED Promise!avars
    <2>1. CASE SweepCommit(s)
      BY <1>6, <2>1, OthersCommitIsPromised, Disjoint DEF SweepCommit
    <2>2. CASE SweepStart(s) \/ SweepClaim(s) \/ SweepNothing(s)
      BY <2>2, UncommittedIsInvisible DEF SweepStart, SweepClaim, SweepNothing
    <2> QED
      BY <1>6, <2>1, <2>2 DEF Sweep
  <1>7. ASSUME Before, NEW r \in Requests, Crash(r)
        PROVE  Promise!ANext \/ UNCHANGED Promise!avars
    <2>1. UNCHANGED slot /\ (UNCHANGED row \/
                              (pc[r] \in {"commit", "commitFailed"} /\ Commit(r)))
      BY <1>7 DEF Crash
    <2> QED
      BY <1>7, <2>1, IssueCommitIsPromised, OthersCommitIsPromised, UncommittedIsInvisible
  <1>8. CASE Tick
    BY <1>8, UncommittedIsInvisible DEF Tick
  <1>9. CASE Next
    <2>1. Before
      BY <1>9, NextKeeps DEF Before
    <2> QED
      BY <1>2, <1>3, <1>4, <1>5, <1>6, <1>7, <1>8, <1>9, <2>1 DEF Next
  <1> QED
    BY <1>1, <1>9

\* Transactions, locks, renewals, sweeps and lost replies included, passes behave
\* as SingleUsePass: issued at once, used once by one checkpoint, ended once.
THEOREM ImplementsPromise == Spec => KeepsPromise
  <1>1. Init => Promise!AInit
    <2> SUFFICES ASSUME Init
                 PROVE  Promise!AInit
      OBVIOUS
    <2>1. \A j \in Passes : row[j] = NoRow
      BY DEF Init
    <2>2. /\ PassEstado = [j \in Passes |-> "AUSENTE"]
          /\ PassSlot = [j \in Passes |-> NoSlot]
          /\ PassUser = [j \in Passes |-> Nobody]
      BY <2>1, NoRowFacts DEF PassEstado, PassSlot, PassUser
    <2> QED
      BY <2>2 DEF Promise!AInit, PassEstado, PassSlot, PassUser
  <1>2. IInv /\ IInv' /\ JInv /\ [Next]_vars => [Promise!ANext]_(Promise!avars)
    BY StepIsPromised
  <1> QED
    BY <1>1, <1>2, Writes, PTL DEF Spec, KeepsPromise, Promise!ASpec
=============================================================================
