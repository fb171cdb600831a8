----------------------------- MODULE QrToken -----------------------------
(***************************************************************************)
(* The signed token of a pass, its row and its key in Redis, and what a    *)
(* checkpoint that trusts the published keys makes of it. A pass has three *)
(* lifetimes: the row's, exact; the token's, in whole seconds; the key's,  *)
(* which begins when Redis takes it. The signing key is a setting of each  *)
(* deployment: a rotation is a deployment, requests already running go on  *)
(* with the key they began with, and checkpoints keep what they fetched.   *)
(***************************************************************************)
EXTENDS Integers, FiniteSets

CONSTANTS
  Requests,      \* issuances; each one makes one pass
  Checkpoints,
  Keys,          \* key pairs, [kid, par]: a kid may be used again
  Second,        \* ticks in a second
  TTL,           \* QR_TTL_SECONDS
  TtlMin, TtlMax,
  Margin,        \* RENEWAL_MARGIN_SECONDS
  Skew,          \* CLOCK_SKEW_SECONDS
  Offsets,       \* ticks the clock of a checkpoint may be ahead
  MaxAge,        \* of the published keys, in seconds
  MaxDuration,   \* of a request, in seconds (vercel.json)
  MaxClock       \* bound on the clock

ASSUME ConstantsAssumption ==
  /\ Second \in Nat \ {0} /\ TTL \in Nat /\ TtlMin \in Nat \ {0} /\ TtlMax \in Nat
  /\ Margin \in Nat \ {0} /\ Skew \in Nat /\ MaxAge \in Nat \ {0}
  /\ MaxDuration \in Nat \ {0} /\ MaxClock \in Nat
  /\ Offsets \subseteq Int
  /\ Keys # {} /\ \A k \in Keys : DOMAIN k = {"kid", "par"}

\* _ttl_in_range, and the same test when the pass is built.
ASSUME TtlAssumption == TTL \in TtlMin .. TtlMax

VARIABLES
  now,
  llave,     \* the key pair of the current deployment
  rotated,   \* history: when it was deployed
  began,     \* when each request began
  con,       \* the key pair of the process that runs it
  pc,
  pase,      \* the pass it issues
  jwks,      \* keys each checkpoint has, by kid
  fetched    \* when it fetched them

vars == << now, llave, rotated, began, con, pc, pase, jwks, fetched >>

Seconds(s) == s * Second

\* int(timestamp()) truncates.
Whole(instant) == instant \div Second

NoPass == [kid |-> "none", par |-> "none", iat |-> 0, exp |-> 0,
           emitida |-> 0, expira |-> 0, clave |-> 0, recibido |-> 0]

\* How long a rotation may be felt.
Longest(x, y) == IF x > y THEN x ELSE y
Settling == Seconds(Longest(MaxAge, MaxDuration + TTL + Skew))

Published(k) == {k}

Init ==
  /\ now = 0
  /\ llave \in Keys
  /\ rotated = - Settling - 1
  /\ began = [r \in Requests |-> 0]
  /\ con = [r \in Requests |-> llave]
  /\ pc = [r \in Requests |-> "idle"]
  /\ pase = [r \in Requests |-> NoPass]
  /\ jwks = [c \in Checkpoints |-> Published(llave)]
  /\ fetched = [c \in Checkpoints |-> 0]

-----------------------------------------------------------------------------
\* Mutant of Token: the times are rounded.
TokenRounded(k, emitida) ==
  LET nearest(i) == (2 * i + Second) \div (2 * Second)
  IN [kid |-> k.kid, par |-> k.par, iat |-> nearest(emitida),
      exp |-> nearest(emitida + Seconds(TTL)),
      emitida |-> emitida, expira |-> emitida + Seconds(TTL), clave |-> 0, recibido |-> 0]

\* build: the claims of the token beside the columns of the row.
Token(k, emitida) ==
  [kid |-> k.kid, par |-> k.par,
   iat |-> Whole(emitida), exp |-> Whole(emitida + Seconds(TTL)),
   emitida |-> emitida, expira |-> emitida + Seconds(TTL), clave |-> 0, recibido |-> 0]

Begin(r) ==
  /\ pc[r] = "idle"
  /\ pc' = [pc EXCEPT ![r] = "started"]
  /\ began' = [began EXCEPT ![r] = now]
  /\ con' = [con EXCEPT ![r] = llave]
  /\ UNCHANGED << now, llave, rotated, pase, jwks, fetched >>

\* The clock is read, the token signed and the row added.
Sign(r) ==
  /\ pc[r] = "started"
  /\ pc' = [pc EXCEPT ![r] = "signed"]
  /\ pase' = [pase EXCEPT ![r] = Token(con[r], now)]
  /\ UNCHANGED << now, llave, rotated, began, con, jwks, fetched >>

\* Mutant of KeyUntil: the key is given what is left of the token.
KeyUntilToken(p) == now + Seconds(p.exp - Whole(now))

\* SET ... EX ttl, counted from the instant Redis takes it.
KeyUntil(p) == now + Seconds(TTL)

RegisterKey(r) ==
  /\ pc[r] = "signed"
  /\ pc' = [pc EXCEPT ![r] = "registered"]
  /\ pase' = [pase EXCEPT ![r].clave = KeyUntil(pase[r])]
  /\ UNCHANGED << now, llave, rotated, began, con, jwks, fetched >>

\* The commit, and the answer on its way to the app.
Deliver(r) ==
  /\ pc[r] = "registered"
  /\ pc' = [pc EXCEPT ![r] = "delivered"]
  /\ pase' = [pase EXCEPT ![r].recibido = now]
  /\ UNCHANGED << now, llave, rotated, began, con, jwks, fetched >>

\* README, "Rotating the QR signing key"; that the kid is another is only asked
\* of the operator.
Rotate(k) ==
  /\ k # llave
  /\ llave' = k
  /\ rotated' = now
  /\ UNCHANGED << now, began, con, pc, pase, jwks, fetched >>

\* Mutant of Fetch: what is kept is when the keys go stale.
FetchUntil(c) ==
  /\ jwks' = [jwks EXCEPT ![c] = Published(llave)]
  /\ fetched' = [fetched EXCEPT ![c] = now + Seconds(MaxAge)]
  /\ UNCHANGED << now, llave, rotated, began, con, pc, pase >>

\* GET /.well-known/jwks.json: the current key and no other.
Fetch(c) ==
  /\ jwks' = [jwks EXCEPT ![c] = Published(llave)]
  /\ fetched' = [fetched EXCEPT ![c] = now]
  /\ UNCHANGED << now, llave, rotated, began, con, pc, pase >>

\* A cache is used while it is fresh, and the platform ends long requests.
Tick ==
  /\ now < MaxClock
  /\ \A c \in Checkpoints : now < fetched[c] + Seconds(MaxAge)
  /\ \A r \in Requests : pc[r] \in {"started", "signed", "registered"} =>
                           now < began[r] + Seconds(MaxDuration)
  /\ now' = now + 1
  /\ UNCHANGED << llave, rotated, began, con, pc, pase, jwks, fetched >>

Next ==
  \/ Tick
  \/ \E r \in Requests : Begin(r) \/ Sign(r) \/ RegisterKey(r) \/ Deliver(r)
  \/ \E k \in Keys : Rotate(k)
  \/ \E c \in Checkpoints : Fetch(c)

Spec == Init /\ [][Next]_vars

-----------------------------------------------------------------------------
(* CredentialVerifier.verify by a clock that is off by d. *)

Local(d) == now + d
Known(c, p) == \E k \in jwks[c] : k.kid = p.kid
Genuine(c, p) == \E k \in jwks[c] : k.kid = p.kid /\ k.par = p.par

\* Mutant of Early: no tolerance for clocks that disagree.
EarlyByAny(p, d) == p.iat > Whole(Local(d))

Early(p, d) == p.iat > Whole(Local(d)) + Skew

Verify(c, p, d) ==
  CASE ~Known(c, p) -> "unknown key id"
    [] Known(c, p) /\ ~Genuine(c, p) -> "signature"
    [] Genuine(c, p) /\ Whole(Local(d)) >= p.exp -> "expired"
    [] Genuine(c, p) /\ Whole(Local(d)) < p.exp /\ Early(p, d) -> "issued in the future"
    [] OTHER -> "ok"

\* Mutant of RenewIn: a second late.
RenewInLate == TTL - Margin + 1

\* renovar_en_segundos of the answer.
RenewIn == TTL - Margin

-----------------------------------------------------------------------------
(* Correctness. *)

Signed(r) == pc[r] \in {"signed", "registered", "delivered"}
Registered(r) == pc[r] \in {"registered", "delivered"}

PassType == [kid : {k.kid : k \in Keys} \cup {"none"}, par : {k.par : k \in Keys} \cup {"none"},
             iat : Nat, exp : Nat, emitida : Nat, expira : Nat, clave : Nat, recibido : Nat]

TypeOK ==
  /\ now \in 0 .. MaxClock /\ rotated \in - Settling - 1 .. now
  /\ llave \in Keys /\ con \in [Requests -> Keys]
  /\ began \in [Requests -> 0 .. now]
  /\ pc \in [Requests -> {"idle", "started", "signed", "registered", "delivered"}]
  /\ pase \in [Requests -> PassType]
  /\ jwks \in [Checkpoints -> SUBSET Keys]
  /\ fetched \in [Checkpoints -> 0 .. now]

\* Research R6 keeps one pass in three places. The token ends with the row or
\* less than a second before it, and promises the seconds the contract gives it
\* (extension-points.md, "exp - iat between 30 and 60"); the key outlives the
\* row, so a missing key never rejects a pass whose row is still good; and no
\* checkpoint, whatever it has cached, accepts a pass expired by its own clock.
LifetimesNest ==
  \A r \in Requests :
    LET p == pase[r]
    IN /\ Signed(r) => /\ Seconds(p.exp) <= p.expira /\ p.expira < Seconds(p.exp + 1)
                       /\ p.exp - p.iat \in TtlMin .. TtlMax
       /\ Registered(r) => p.expira <= p.clave
       /\ \A c \in Checkpoints, d \in Offsets :
            Signed(r) /\ Verify(c, p, d) = "ok" => Local(d) < p.expira

\* A checkpoint whose clock is within the tolerance refuses a good token only
\* because of a rotation, and not for long: not once its cache has run out and
\* the requests that began before the rotation have ended with their passes.
RefusedOnlyAfterRotation ==
  \A c \in Checkpoints, r \in Requests, d \in Offsets :
    /\ Signed(r) /\ d \in -Seconds(Skew) .. Seconds(Skew)
    /\ Local(d) < Seconds(pase[r].exp)
    /\ Verify(c, pase[r], d) # "ok"
    => now <= rotated + Settling

\* openapi.yaml, renovar_en_segundos: "to always show a valid QR". An answer that
\* takes the margin, less the second the token may lose, asks for the renewal
\* before the token it carries has expired.
RenewsInTime ==
  \A r \in Requests :
    /\ pc[r] = "delivered"
    /\ pase[r].recibido <= pase[r].emitida + Seconds(Margin - 1)
    => pase[r].recibido + Seconds(RenewIn) < Seconds(pase[r].exp)
=============================================================================
