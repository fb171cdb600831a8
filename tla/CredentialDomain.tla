------------------------- MODULE CredentialDomain -------------------------
(***************************************************************************)
(* The CredencialAcceso aggregate (domain/credential/): the state table,   *)
(* the transition method every operation goes through, and lazy expiry.    *)
(* A transition never raises: it is accepted or rejected, and either way   *)
(* it is appended to the history that the repository inserts.              *)
(*                                                                         *)
(* Left out: identifiers, permissions, signature, kid and the wording of   *)
(* the reasons; the history's created_at.                                  *)
(***************************************************************************)
EXTENDS Naturals, Sequences

Sistema == "sistema"

Estados == {"EMITIDA", "ACTIVA", "CONSUMIDA", "EXPIRADA", "REVOCADA"}

\* The states the partial unique index and the repository's queries call live.
Vivas == {"EMITIDA", "ACTIVA"}

\* Mutant of Allowed: a consumed credential may still expire.
AllowedLoose(e) ==
  CASE e = "EMITIDA"   -> {"ACTIVA", "EXPIRADA", "REVOCADA"}
    [] e = "ACTIVA"    -> {"CONSUMIDA", "EXPIRADA", "REVOCADA"}
    [] e = "CONSUMIDA" -> {"EXPIRADA"}
    [] OTHER           -> {}

\* The transition table of the State classes.
Allowed(e) ==
  CASE e = "EMITIDA" -> {"ACTIVA", "EXPIRADA", "REVOCADA"}
    [] e = "ACTIVA"  -> {"CONSUMIDA", "EXPIRADA", "REVOCADA"}
    [] OTHER         -> {}

CanTransitionTo(e, a) == a \in Allowed(e)

IsFinal(e) == Allowed(e) = {}

(***************************************************************************)
(* A row: its estado, its deadline and its history, whose entries say from *)
(* which estado (AUSENTE for the creation) to which one, whether it was    *)
(* accepted, and by which actor.                                           *)
(***************************************************************************)
NoRow == [estado |-> "AUSENTE", expira |-> 0, hist |-> << >>]

Transicion(de, a, aceptada, por) ==
  [de |-> de, a |-> a, aceptada |-> aceptada, por |-> por]

Emitir(expira) ==
  [estado |-> "EMITIDA", expira |-> expira,
   hist |-> << Transicion("AUSENTE", "EMITIDA", TRUE, Sistema) >>]

\* Mutant of Transition: the target is assigned before it is validated.
TransitionEager(c, a, por) ==
  [c EXCEPT !.estado = a,
            !.hist = Append(@, Transicion(c.estado, a, CanTransitionTo(c.estado, a), por))]

Transition(c, a, por) ==
  LET aceptada == CanTransitionTo(c.estado, a)
  IN [c EXCEPT !.estado = IF aceptada THEN a ELSE @,
               !.hist = Append(@, Transicion(c.estado, a, aceptada, por))]

Activar(c) == Transition(c, "ACTIVA", Sistema)
Consumir(c, por) == Transition(c, "CONSUMIDA", por)
Expirar(c) == Transition(c, "EXPIRADA", Sistema)
Revocar(c) == Transition(c, "REVOCADA", Sistema)

IsExpired(c, now) == now >= c.expira

RefreshExpiry(c, now) ==
  IF ~IsFinal(c.estado) /\ IsExpired(c, now) THEN Expirar(c) ELSE c

\* TransitionResult.aceptada of the last call made on c.
UltimaAceptada(c) == c.hist[Len(c.hist)].aceptada
===========================================================================
