--------------------------- MODULE QrTokenProofs ---------------------------
(***************************************************************************)
(* What QrToken guarantees for every granularity of the clock and every    *)
(* setting of the lifetimes, margins and tolerances: how truncating to     *)
(* whole seconds behaves, and how long a key pair that is no longer the    *)
(* deployed one may be met in a cache or in a running request.             *)
(***************************************************************************)
EXTENDS QrToken, TLAPS

\* A pass that is signed has the claims and the row of one instant of its
\* request, by the key pair the request began with.
PassOK(r) ==
  LET p == pase[r]
  IN Signed(r) =>
       /\ p.emitida \in began[r] .. now
       /\ p.emitida <= began[r] + Seconds(MaxDuration)
       /\ p.kid = con[r].kid /\ p.par = con[r].par
       /\ p.iat = Whole(p.emitida)
       /\ p.exp = Whole(p.expira)
       /\ p.expira = p.emitida + Seconds(TTL)
       /\ Registered(r) => p.expira <= p.clave

\* A request runs for MaxDuration at most, with the deployed key pair or one
\* replaced after it began.
RequestOK(r) ==
  /\ pc[r] \in {"started", "signed", "registered"} => now <= began[r] + Seconds(MaxDuration)
  /\ pc[r] # "idle" => con[r] = llave \/ began[r] <= rotated

\* A cache is no older than MaxAge, and holds the deployed key or one replaced
\* after it was fetched.
CacheOK(c) ==
  /\ now <= fetched[c] + Seconds(MaxAge)
  /\ jwks[c] = {llave} \/ fetched[c] <= rotated

IInv ==
  /\ TypeOK
  /\ \A r \in Requests : PassOK(r) /\ RequestOK(r)
  /\ \A c \in Checkpoints : CacheOK(c)

-----------------------------------------------------------------------------
(* Truncation.                                                             *)

LEMMA SecondsMonotone ==
  ASSUME NEW m \in Int, NEW n \in Int, m <= n
  PROVE  Seconds(m) <= Seconds(n)
  BY ConstantsAssumption DEF Seconds

\* A whole second is at most one second before its instant.
LEMMA WholeBounds ==
  ASSUME NEW i \in Int
  PROVE  /\ Whole(i) \in Int
         /\ Seconds(Whole(i)) <= i
         /\ i < Seconds(Whole(i) + 1)
  BY ConstantsAssumption DEF Whole, Seconds

LEMMA SecondsTyped ==
  ASSUME NEW n \in Int
  PROVE  /\ Seconds(n) \in Int
         /\ Seconds(n + 1) = Seconds(n) + Second
         /\ n \in Nat => Seconds(n) \in Nat
  BY ConstantsAssumption DEF Seconds

\* The whole second of an instant is the one it falls in.
LEMMA WholeUnique ==
  ASSUME NEW i \in Int, NEW n \in Int, Seconds(n) <= i, i < Seconds(n + 1)
  PROVE  Whole(i) = n
  <1> DEFINE w == Whole(i)
  <1>1. w \in Int /\ Seconds(w) <= i /\ i < Seconds(w + 1)
    BY WholeBounds
  <1> HIDE DEF w
  <1>2. /\ Seconds(w) \in Int /\ Seconds(w + 1) \in Int
        /\ Seconds(n) \in Int /\ Seconds(n + 1) \in Int
    BY <1>1, SecondsTyped
  <1>3. ~(w + 1 <= n)
    <2>1. w + 1 <= n => Seconds(w + 1) <= Seconds(n)
      BY <1>1, SecondsMonotone
    <2> QED
      BY <1>1, <1>2, <2>1
  <1>4. ~(n + 1 <= w)
    <2>1. n + 1 <= w => Seconds(n + 1) <= Seconds(w)
      BY <1>1, SecondsMonotone
    <2> QED
      BY <1>1, <1>2, <2>1
  <1>5. w = n
    BY <1>1, <1>3, <1>4
  <1> QED
    BY <1>5 DEF w

\* Whole seconds pass through the truncation.
LEMMA WholeShifts ==
  ASSUME NEW i \in Int, NEW n \in Int
  PROVE  Whole(i + Seconds(n)) = Whole(i) + n
  <1> DEFINE w == Whole(i)
  <1>1. w \in Int /\ Seconds(w) <= i /\ i < Seconds(w) + Second
    BY WholeBounds, SecondsTyped
  <1> HIDE DEF w
  <1>2. Seconds(w + n) = Seconds(w) + Seconds(n) /\ Seconds(w + n + 1) = Seconds(w) + Seconds(n) + Second
    BY <1>1, ConstantsAssumption DEF Seconds
  <1>3. Seconds(w) \in Int /\ Seconds(n) \in Int /\ Second \in Int
    BY <1>1, SecondsTyped, ConstantsAssumption
  <1>4. /\ i + Seconds(n) \in Int /\ w + n \in Int
        /\ Seconds(w + n) <= i + Seconds(n) /\ i + Seconds(n) < Seconds(w + n + 1)
    BY <1>1, <1>2, <1>3
  <1>5. Whole(i + Seconds(n)) = w + n
    BY <1>4, WholeUnique
  <1> QED
    BY <1>5 DEF w

LEMMA WholeMonotone ==
  ASSUME NEW i \in Int, NEW j \in Int, i <= j
  PROVE  Whole(i) <= Whole(j)
  <1> DEFINE v == Whole(i)
             w == Whole(j)
  <1>1. /\ v \in Int /\ Seconds(v) <= i
        /\ w \in Int /\ j < Seconds(w + 1)
    BY WholeBounds
  <1> HIDE DEF v, w
  <1>2. Seconds(v) \in Int /\ Seconds(w + 1) \in Int
    BY <1>1, SecondsTyped
  <1>3. ~(w + 1 <= v)
    <2>1. w + 1 <= v => Seconds(w + 1) <= Seconds(v)
      BY <1>1, SecondsMonotone
    <2> QED
      BY <1>1, <1>2, <2>1
  <1>4. v <= w
    BY <1>1, <1>3
  <1> QED
    BY <1>4 DEF v, w

\* An instant before a whole second is truncated to an earlier one, and back.
LEMMA WholeBefore ==
  ASSUME NEW i \in Int, NEW n \in Int
  PROVE  Whole(i) < n <=> i < Seconds(n)
  <1> DEFINE w == Whole(i)
  <1>1. w \in Int /\ Seconds(w) <= i /\ i < Seconds(w + 1)
    BY WholeBounds
  <1> HIDE DEF w
  <1>2. Seconds(w) \in Int /\ Seconds(w + 1) \in Int /\ Seconds(n) \in Int
    BY <1>1, SecondsTyped
  <1>3. w < n => i < Seconds(n)
    <2>1. w + 1 <= n => Seconds(w + 1) <= Seconds(n)
      BY <1>1, SecondsMonotone
    <2> QED
      BY <1>1, <1>2, <2>1
  <1>4. n <= w => Seconds(n) <= i
    <2>1. n <= w => Seconds(n) <= Seconds(w)
      BY <1>1, SecondsMonotone
    <2> QED
      BY <1>1, <1>2, <2>1
  <1>5. w < n <=> i < Seconds(n)
    BY <1>1, <1>2, <1>3, <1>4
  <1> QED
    BY <1>5 DEF w

LEMMA WholeNatural ==
  ASSUME NEW i \in Nat
  PROVE  Whole(i) \in Nat
  <1>1. Whole(i) \in Int
    BY WholeBounds
  <1>2. Seconds(0) = 0
    BY ConstantsAssumption DEF Seconds
  <1>3. ~(Whole(i) < 0)
    BY <1>2, WholeBefore
  <1> QED
    BY <1>1, <1>3

-----------------------------------------------------------------------------
(* The steps.                                                              *)

LEMMA ConstantsTyped ==
  /\ Second \in Nat /\ Second > 0
  /\ Seconds(TTL) \in Nat /\ Seconds(MaxDuration) \in Nat /\ Seconds(MaxAge) \in Nat
  /\ Settling \in Nat
  /\ Seconds(MaxAge) <= Settling
  /\ Seconds(MaxDuration) + Seconds(TTL) + Seconds(Skew) <= Settling
  <1>1. /\ TTL \in Nat /\ MaxDuration \in Nat /\ MaxAge \in Nat /\ Skew \in Nat
        /\ Second \in Nat /\ Second > 0
    BY ConstantsAssumption
  <1>2. /\ Seconds(TTL) \in Nat /\ Seconds(MaxDuration) \in Nat /\ Seconds(MaxAge) \in Nat
        /\ Seconds(Skew) \in Nat
    BY <1>1, SecondsTyped
  <1> DEFINE m == MaxDuration + TTL + Skew
             n == Longest(MaxAge, m)
  <1>3. m \in Nat /\ n \in Nat /\ MaxAge <= n /\ m <= n
    BY <1>1 DEF Longest
  <1>4. Seconds(m) = Seconds(MaxDuration) + Seconds(TTL) + Seconds(Skew)
    BY <1>1 DEF Seconds
  <1> HIDE DEF m, n
  <1>5. Seconds(n) \in Nat /\ Seconds(MaxAge) <= Seconds(n) /\ Seconds(m) <= Seconds(n)
    BY <1>1, <1>3, SecondsMonotone, SecondsTyped
  <1>6. Settling = Seconds(n)
    BY DEF Settling, n, m
  <1> QED
    BY <1>1, <1>2, <1>4, <1>5, <1>6

\* What build makes at an instant: the claims are the columns of the row,
\* truncated, and last the seconds of the contract.
LEMMA TokenBuilt ==
  ASSUME NEW k \in Keys, NEW i \in Nat
  PROVE  /\ Token(k, i) \in PassType
         /\ Token(k, i).expira = i + Seconds(TTL)
         /\ Token(k, i).exp = Whole(i + Seconds(TTL))
         /\ Token(k, i).iat = Whole(i) /\ Token(k, i).emitida = i
         /\ Token(k, i).kid = k.kid /\ Token(k, i).par = k.par
  <1>1. i + Seconds(TTL) \in Nat
    BY ConstantsTyped
  <1>2. Whole(i) \in Nat /\ Whole(i + Seconds(TTL)) \in Nat
    BY <1>1, WholeNatural
  <1> QED
    BY <1>1, <1>2 DEF Token, PassType

LEMMA InitEstablishes == Init => IInv
  <1> SUFFICES ASSUME Init PROVE IInv
    OBVIOUS
  <1> USE DEF Init
  <1>1. TypeOK
    BY ConstantsAssumption, ConstantsTyped DEF TypeOK, NoPass, PassType, Published
  <1>2. \A r \in Requests : PassOK(r) /\ RequestOK(r)
    BY DEF PassOK, RequestOK, Signed
  <1>3. \A c \in Checkpoints : CacheOK(c)
    BY ConstantsTyped DEF CacheOK, Published
  <1> QED
    BY <1>1, <1>2, <1>3 DEF IInv

\* A step of one request, between two ticks.
RequestStep(r) ==
  /\ UNCHANGED << now, llave, rotated, jwks, fetched >>
  /\ \A q \in Requests \ {r} : /\ began'[q] = began[q] /\ con'[q] = con[q]
                               /\ pc'[q] = pc[q] /\ pase'[q] = pase[q]

LEMMA RequestStepKeeps ==
  ASSUME IInv, NEW r \in Requests, RequestStep(r), TypeOK', PassOK(r)', RequestOK(r)'
  PROVE  IInv'
  <1>1. ASSUME NEW q \in Requests \ {r}
        PROVE  PassOK(q)' /\ RequestOK(q)'
    BY DEF IInv, RequestStep, PassOK, RequestOK, Signed, Registered
  <1>2. \A c \in Checkpoints : CacheOK(c)'
    BY DEF IInv, RequestStep, CacheOK
  <1> QED
    BY <1>1, <1>2 DEF IInv

LEMMA BeginKeeps ==
  ASSUME IInv, NEW r \in Requests, Begin(r)
  PROVE  IInv'
  <1>1. RequestStep(r) /\ TypeOK'
    BY DEF Begin, RequestStep, IInv, TypeOK
  <1>2. PassOK(r)'
    BY DEF Begin, PassOK, Signed, IInv, TypeOK
  <1>3. RequestOK(r)'
    BY ConstantsTyped DEF Begin, RequestOK, IInv, TypeOK
  <1> QED
    BY <1>1, <1>2, <1>3, RequestStepKeeps

LEMMA SignKeeps ==
  ASSUME IInv, NEW r \in Requests, Sign(r)
  PROVE  IInv'
  <1>1. /\ TypeOK /\ pc[r] = "started" /\ RequestOK(r)
        /\ con[r] \in Keys /\ now \in Nat /\ began[r] \in 0 .. now
    BY DEF Sign, IInv, TypeOK
  <1> DEFINE p == Token(con[r], now)
  <1>2. /\ p \in PassType
        /\ p.expira = now + Seconds(TTL) /\ p.exp = Whole(p.expira)
        /\ p.iat = Whole(now) /\ p.emitida = now
        /\ p.kid = con[r].kid /\ p.par = con[r].par
    BY <1>1, TokenBuilt
  <1> HIDE DEF p
  <1>3. /\ pc' = [pc EXCEPT ![r] = "signed"] /\ pase' = [pase EXCEPT ![r] = p]
        /\ UNCHANGED << now, llave, rotated, began, con, jwks, fetched >>
    BY DEF Sign, p
  <1>4. RequestStep(r) /\ TypeOK'
    BY <1>1, <1>2, <1>3 DEF RequestStep, TypeOK
  <1>5. pase'[r] = p /\ pc'[r] = "signed"
    BY <1>1, <1>3 DEF TypeOK
  <1>6. PassOK(r)' /\ RequestOK(r)'
    BY <1>1, <1>2, <1>3, <1>5 DEF PassOK, RequestOK, Registered
  <1> QED
    BY <1>4, <1>6, RequestStepKeeps

LEMMA RegisterKeyKeeps ==
  ASSUME IInv, NEW r \in Requests, RegisterKey(r)
  PROVE  IInv'
  <1>1. /\ TypeOK /\ pc[r] = "signed" /\ RequestOK(r) /\ PassOK(r)
        /\ pase[r] \in PassType /\ now \in Nat /\ began[r] \in Nat
    BY DEF RegisterKey, IInv, TypeOK
  <1> DEFINE t == now + Seconds(TTL)
  <1>2. t \in Nat
    BY <1>1, ConstantsTyped
  <1>3. pase[r].expira <= t
    BY <1>1, ConstantsTyped DEF PassOK, Signed, PassType
  <1>4. /\ pc' = [pc EXCEPT ![r] = "registered"] /\ pase' = [pase EXCEPT ![r].clave = t]
        /\ UNCHANGED << now, llave, rotated, began, con, jwks, fetched >>
    BY DEF RegisterKey, KeyUntil
  <1> HIDE DEF t
  <1>5. RequestStep(r) /\ TypeOK'
    BY <1>1, <1>2, <1>4 DEF RequestStep, TypeOK, PassType
  <1>6. /\ pc'[r] = "registered" /\ pase'[r].clave = t
        /\ pase'[r].emitida = pase[r].emitida /\ pase'[r].expira = pase[r].expira
        /\ pase'[r].iat = pase[r].iat /\ pase'[r].exp = pase[r].exp
        /\ pase'[r].kid = pase[r].kid /\ pase'[r].par = pase[r].par
    BY <1>1, <1>4 DEF TypeOK, PassType
  <1>7. PassOK(r)' /\ RequestOK(r)'
    BY <1>1, <1>3, <1>4, <1>6 DEF PassOK, RequestOK, Signed
  <1> QED
    BY <1>5, <1>7, RequestStepKeeps

LEMMA DeliverKeeps ==
  ASSUME IInv, NEW r \in Requests, Deliver(r)
  PROVE  IInv'
  <1>1. /\ TypeOK /\ pc[r] = "registered" /\ RequestOK(r) /\ PassOK(r)
        /\ pase[r] \in PassType /\ now \in Nat
    BY DEF Deliver, IInv, TypeOK
  <1>2. /\ pc' = [pc EXCEPT ![r] = "delivered"] /\ pase' = [pase EXCEPT ![r].recibido = now]
        /\ UNCHANGED << now, llave, rotated, began, con, jwks, fetched >>
    BY DEF Deliver
  <1>3. RequestStep(r) /\ TypeOK'
    BY <1>1, <1>2 DEF RequestStep, TypeOK, PassType
  <1>4. /\ pc'[r] = "delivered" /\ pase'[r].clave = pase[r].clave
        /\ pase'[r].emitida = pase[r].emitida /\ pase'[r].expira = pase[r].expira
        /\ pase'[r].iat = pase[r].iat /\ pase'[r].exp = pase[r].exp
        /\ pase'[r].kid = pase[r].kid /\ pase'[r].par = pase[r].par
    BY <1>1, <1>2 DEF TypeOK, PassType
  <1>5. PassOK(r)' /\ RequestOK(r)'
    BY <1>1, <1>2, <1>4 DEF PassOK, RequestOK, Signed, Registered
  <1> QED
    BY <1>3, <1>5, RequestStepKeeps

\* A rotation puts behind it everything that began or was fetched before.
LEMMA RotateKeeps ==
  ASSUME IInv, NEW k \in Keys, Rotate(k)
  PROVE  IInv'
  <1>1. /\ TypeOK /\ llave' = k /\ rotated' = now /\ now \in Nat
        /\ UNCHANGED << now, began, con, pc, pase, jwks, fetched >>
    BY DEF Rotate, IInv, TypeOK
  <1>2. TypeOK'
    BY <1>1, ConstantsTyped DEF TypeOK
  <1>3. \A r \in Requests : PassOK(r)' /\ RequestOK(r)'
    BY <1>1 DEF IInv, TypeOK, PassOK, RequestOK, Signed, Registered
  <1>4. \A c \in Checkpoints : CacheOK(c)'
    BY <1>1 DEF IInv, TypeOK, CacheOK
  <1> QED
    BY <1>2, <1>3, <1>4 DEF IInv

LEMMA FetchKeeps ==
  ASSUME IInv, NEW c \in Checkpoints, Fetch(c)
  PROVE  IInv'
  <1>1. /\ TypeOK /\ jwks' = [jwks EXCEPT ![c] = {llave}] /\ fetched' = [fetched EXCEPT ![c] = now]
        /\ UNCHANGED << now, llave, rotated, began, con, pc, pase >>
        /\ now \in Nat
    BY DEF Fetch, Published, IInv, TypeOK
  <1>2. TypeOK'
    BY <1>1 DEF TypeOK
  <1>3. \A r \in Requests : PassOK(r)' /\ RequestOK(r)'
    BY <1>1 DEF IInv, PassOK, RequestOK, Signed, Registered
  <1>4. \A b \in Checkpoints : CacheOK(b)'
    BY <1>1, ConstantsTyped DEF IInv, TypeOK, CacheOK
  <1> QED
    BY <1>2, <1>3, <1>4 DEF IInv

LEMMA TickKeeps ==
  ASSUME IInv, Tick
  PROVE  IInv'
  <1>1. /\ TypeOK /\ now \in Nat /\ now' = now + 1 /\ now < MaxClock
        /\ \A c \in Checkpoints : now < fetched[c] + Seconds(MaxAge)
        /\ \A r \in Requests : pc[r] \in {"started", "signed", "registered"} =>
                                 now < began[r] + Seconds(MaxDuration)
        /\ UNCHANGED << llave, rotated, began, con, pc, pase, jwks, fetched >>
    BY DEF Tick, IInv, TypeOK
  <1>2. TypeOK'
    BY <1>1, ConstantsAssumption, ConstantsTyped DEF TypeOK
  <1>3. ASSUME NEW r \in Requests
        PROVE  PassOK(r)' /\ RequestOK(r)'
    <2>1. PassOK(r) /\ RequestOK(r) /\ began[r] \in Nat /\ pase[r].emitida \in Nat
      BY <1>1 DEF IInv, TypeOK, PassType
    <2>2. PassOK(r)'
      BY <1>1, <2>1 DEF PassOK, Signed, Registered
    <2>3. RequestOK(r)'
      BY <1>1, <2>1, ConstantsTyped DEF RequestOK
    <2> QED
      BY <2>2, <2>3
  <1>4. \A c \in Checkpoints : CacheOK(c)'
    BY <1>1, ConstantsTyped DEF IInv, TypeOK, CacheOK
  <1> QED
    BY <1>2, <1>3, <1>4 DEF IInv

LEMMA NextKeeps == IInv /\ [Next]_vars => IInv'
  <1> SUFFICES ASSUME IInv, [Next]_vars PROVE IInv'
    OBVIOUS
  <1>1. CASE Tick
    BY <1>1, TickKeeps
  <1>2. ASSUME NEW r \in Requests, Begin(r) \/ Sign(r) \/ RegisterKey(r) \/ Deliver(r)
        PROVE  IInv'
    BY <1>2, BeginKeeps, SignKeeps, RegisterKeyKeeps, DeliverKeeps
  <1>3. ASSUME NEW k \in Keys, Rotate(k)
        PROVE  IInv'
    BY <1>3, RotateKeeps
  <1>4. ASSUME NEW c \in Checkpoints, Fetch(c)
        PROVE  IInv'
    BY <1>4, FetchKeeps
  <1>5. CASE UNCHANGED vars
    BY <1>5 DEF vars, IInv, TypeOK, PassOK, RequestOK, CacheOK, Signed, Registered
  <1> QED
    BY <1>1, <1>2, <1>3, <1>4, <1>5 DEF Next

\* The inductive invariant holds in every reachable state.
THEOREM Invariance == Spec => []IInv
  BY InitEstablishes, NextKeeps, PTL DEF Spec

-----------------------------------------------------------------------------
(* What follows.                                                           *)

\* Every variable keeps its type: in particular no instant or claim is before
\* the start of time, and nothing is fetched or begun in the future.
THEOREM TypeCorrect == Spec => []TypeOK
  <1>1. IInv => TypeOK
    BY DEF IInv
  <1> QED
    BY <1>1, Invariance, PTL

\* What a signed pass is, in terms of instants.
LEMMA SignedPass ==
  ASSUME IInv, NEW r \in Requests, Signed(r)
  PROVE  LET p == pase[r]
         IN /\ p \in PassType /\ now \in Nat /\ began[r] \in Nat
            /\ p.emitida <= now /\ p.emitida <= began[r] + Seconds(MaxDuration)
            /\ p.expira = p.emitida + Seconds(TTL)
            /\ p.iat = Whole(p.emitida)
            /\ Seconds(p.exp) \in Int /\ Seconds(p.exp) <= p.expira
            /\ p.expira < Seconds(p.exp) + Second
            /\ p.kid = con[r].kid /\ p.par = con[r].par
            /\ Registered(r) => p.expira <= p.clave
  <1>1. PassOK(r) /\ pase[r] \in PassType /\ now \in Nat /\ began[r] \in Nat
    BY DEF IInv, TypeOK
  <1>2. pase[r].expira \in Int /\ pase[r].exp \in Int
    BY <1>1 DEF PassType
  <1>3. /\ Seconds(Whole(pase[r].expira)) <= pase[r].expira
        /\ pase[r].expira < Seconds(Whole(pase[r].expira) + 1)
    BY <1>2, WholeBounds
  <1>4. /\ Seconds(pase[r].exp) \in Int
        /\ Seconds(pase[r].exp + 1) = Seconds(pase[r].exp) + Second
    BY <1>2, SecondsTyped
  <1> QED
    BY <1>1, <1>3, <1>4 DEF PassOK

\* R6: token, row and key of one pass nest, and a checkpoint that takes a pass
\* takes it before its row expires by that checkpoint's clock.
THEOREM LifetimesNestHolds == Spec => []LifetimesNest
  <1>1. ASSUME IInv, NEW r \in Requests
        PROVE  LET p == pase[r]
               IN /\ Signed(r) => /\ Seconds(p.exp) <= p.expira /\ p.expira < Seconds(p.exp + 1)
                                  /\ p.exp - p.iat \in TtlMin .. TtlMax
                  /\ Registered(r) => p.expira <= p.clave
                  /\ \A c \in Checkpoints, d \in Offsets :
                       Signed(r) /\ Verify(c, p, d) = "ok" => Local(d) < p.expira
    <2> SUFFICES ASSUME Signed(r)
                 PROVE  LET p == pase[r]
                        IN /\ Seconds(p.exp) <= p.expira /\ p.expira < Seconds(p.exp + 1)
                           /\ p.exp - p.iat \in TtlMin .. TtlMax
                           /\ Registered(r) => p.expira <= p.clave
                           /\ \A c \in Checkpoints, d \in Offsets :
                                Verify(c, p, d) = "ok" => Local(d) < p.expira
      BY <1>1 DEF Signed, Registered
    <2> DEFINE p == pase[r]
    <2>1. /\ p \in PassType /\ now \in Nat
          /\ p.emitida \in Int /\ p.expira \in Int /\ p.exp \in Int /\ p.iat \in Int
      BY <1>1, SignedPass DEF PassType
    <2>2. /\ Seconds(p.exp) \in Int /\ Seconds(p.exp) <= p.expira
          /\ p.expira < Seconds(p.exp) + Second
          /\ Registered(r) => p.expira <= p.clave
      BY <1>1, SignedPass
    <2>3. Seconds(p.exp + 1) = Seconds(p.exp) + Second
      BY <2>1, SecondsTyped
    <2>4. p.exp - p.iat \in TtlMin .. TtlMax
      <3>1. p.exp = Whole(p.emitida + Seconds(TTL)) /\ p.iat = Whole(p.emitida)
        BY <1>1, SignedPass DEF IInv, PassOK
      <3>2. p.exp = p.iat + TTL
        BY <2>1, <3>1, WholeShifts, ConstantsAssumption
      <3> QED
        BY <2>1, <3>2, TtlAssumption, ConstantsAssumption
    <2>5. ASSUME NEW c \in Checkpoints, NEW d \in Offsets, Verify(c, p, d) = "ok"
          PROVE  Local(d) < p.expira
      <3>1. Whole(Local(d)) < p.exp
        <4>1. Whole(Local(d)) \in Int
          BY <2>1, WholeBounds, ConstantsAssumption DEF Local
        <4>2. Known(c, p) /\ Genuine(c, p)
          BY <2>5 DEF Verify, Known, Genuine
        <4>3. ~(Whole(Local(d)) >= p.exp)
          BY <2>5, <4>2 DEF Verify
        <4> QED
          BY <2>1, <4>1, <4>3
      <3>2. Local(d) \in Int
        BY <2>1, ConstantsAssumption DEF Local
      <3>3. Local(d) < Seconds(p.exp)
        BY <2>1, <3>1, <3>2, WholeBefore
      <3> QED
        BY <2>1, <2>2, <3>2, <3>3
    <2> QED
      BY <2>2, <2>3, <2>4, <2>5
  <1>2. IInv => LifetimesNest
    BY <1>1 DEF LifetimesNest
  <1> QED
    BY <1>2, Invariance, PTL

\* A clock within the tolerance never takes a token for one of the future.
LEMMA NeverEarly ==
  ASSUME IInv, NEW r \in Requests, Signed(r), NEW d \in Int, -Seconds(Skew) <= d
  PROVE  ~Early(pase[r], d)
  <1>1. /\ now \in Nat /\ pase[r].emitida \in Int /\ pase[r].emitida <= now
        /\ pase[r].iat = Whole(pase[r].emitida)
    BY SignedPass DEF PassType
  <1>2. Skew \in Int /\ Seconds(Skew) \in Int
    BY ConstantsAssumption, SecondsTyped
  <1>3. Local(d) + Seconds(Skew) \in Int /\ Local(d) \in Int
        /\ pase[r].emitida <= Local(d) + Seconds(Skew)
    BY <1>1, <1>2 DEF Local
  <1>4. pase[r].iat <= Whole(Local(d) + Seconds(Skew))
    BY <1>1, <1>3, WholeMonotone
  <1>5. Whole(Local(d) + Seconds(Skew)) = Whole(Local(d)) + Skew
    BY <1>2, <1>3, WholeShifts
  <1>6. Whole(Local(d)) \in Int /\ pase[r].iat \in Int
    BY <1>1, <1>3, WholeBounds
  <1> QED
    BY <1>2, <1>4, <1>5, <1>6 DEF Early

\* A checkpoint with a tolerable clock refuses a good token only while a
\* rotation settles: the older of what it has cached and of the requests that
\* began with the former key bounds how long.
THEOREM RefusedOnlyAfterRotationHolds == Spec => []RefusedOnlyAfterRotation
  <1>1. ASSUME IInv, NEW c \in Checkpoints, NEW r \in Requests, NEW d \in Offsets,
               Signed(r), d \in -Seconds(Skew) .. Seconds(Skew),
               Local(d) < Seconds(pase[r].exp), Verify(c, pase[r], d) # "ok"
        PROVE  now <= rotated + Settling
    <2> DEFINE p == pase[r]
    <2>1. /\ now \in Nat /\ rotated \in Int /\ d \in Int
          /\ fetched[c] \in Nat /\ began[r] \in Nat /\ Seconds(Skew) \in Int
          /\ p.exp \in Int /\ p.emitida \in Int /\ p.expira \in Int
          /\ -Seconds(Skew) <= d /\ d <= Seconds(Skew)
          /\ RequestOK(r) /\ CacheOK(c) /\ pc[r] # "idle"
      BY <1>1, SecondsTyped, ConstantsAssumption, ConstantsTyped
         DEF IInv, TypeOK, PassType, Signed
    <2>2. ~Early(p, d)
      BY <1>1, <2>1, NeverEarly
    <2>3. Local(d) \in Int
      BY <2>1 DEF Local
    <2>4. Whole(Local(d)) < p.exp /\ Whole(Local(d)) \in Int
      BY <1>1, <2>1, <2>3, WholeBefore, WholeBounds
    <2>5. ~Genuine(c, p)
      <3> SUFFICES ASSUME Genuine(c, p) PROVE FALSE
        OBVIOUS
      <3>1. Known(c, p)
        BY DEF Genuine, Known
      <3>2. ~(Whole(Local(d)) >= p.exp)
        BY <2>1, <2>4
      <3>3. Verify(c, p, d) = "ok"
        BY <3>1, <3>2, <2>2 DEF Verify
      <3> QED
        BY <1>1, <3>3
    <2>6. jwks[c] # {llave} \/ con[r] # llave
      BY <1>1, <2>5, SignedPass DEF Genuine
    <2>7. CASE jwks[c] # {llave}
      <3>1. now <= fetched[c] + Seconds(MaxAge) /\ fetched[c] <= rotated
        BY <2>1, <2>7 DEF CacheOK
      <3> QED
        BY <2>1, <3>1, ConstantsTyped
    <2>8. CASE con[r] # llave
      <3>1. began[r] <= rotated
        BY <2>1, <2>8 DEF RequestOK
      <3>2. /\ p.emitida <= began[r] + Seconds(MaxDuration)
            /\ p.expira = p.emitida + Seconds(TTL)
            /\ Seconds(p.exp) \in Int /\ Seconds(p.exp) <= p.expira
        BY <1>1, SignedPass
      <3>3. now + d < Seconds(p.exp)
        BY <1>1 DEF Local
      <3>4. now < p.emitida + Seconds(TTL) + Seconds(Skew)
        BY <2>1, <3>2, <3>3, ConstantsTyped
      <3> QED
        BY <2>1, <3>1, <3>2, <3>4, ConstantsTyped
    <2> QED
      BY <2>6, <2>7, <2>8
  <1>2. IInv => RefusedOnlyAfterRotation
    BY <1>1 DEF RefusedOnlyAfterRotation
  <1> QED
    BY <1>2, Invariance, PTL

\* renovar_en_segundos: the margin covers the second the token may lose, so an
\* answer on time asks for the renewal while its token is valid.
THEOREM RenewsInTimeHolds == Spec => []RenewsInTime
  <1>1. ASSUME IInv, NEW r \in Requests, pc[r] = "delivered",
               pase[r].recibido <= pase[r].emitida + Seconds(Margin - 1)
        PROVE  pase[r].recibido + Seconds(RenewIn) < Seconds(pase[r].exp)
    <2> DEFINE p == pase[r]
    <2>1. Signed(r)
      BY <1>1 DEF Signed
    <2>2. /\ p.recibido \in Int /\ p.emitida \in Int /\ Seconds(p.exp) \in Int
          /\ p.emitida + Seconds(TTL) < Seconds(p.exp) + Second
      BY <1>1, <2>1, SignedPass DEF PassType
    <2>3. /\ Seconds(RenewIn) = Seconds(TTL) - Seconds(Margin)
          /\ Seconds(Margin - 1) = Seconds(Margin) - Second
          /\ Seconds(TTL) \in Int /\ Seconds(Margin) \in Int /\ Second \in Int
      BY ConstantsAssumption DEF Seconds, RenewIn
    <2> QED
      BY <1>1, <2>2, <2>3
  <1>2. IInv => RenewsInTime
    BY <1>1 DEF RenewsInTime
  <1> QED
    BY <1>2, Invariance, PTL
=============================================================================
