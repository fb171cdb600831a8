--------------------------- MODULE SingleUsePass ---------------------------
(***************************************************************************)
(* What the pass subsystem promises, without transactions, locks, time or  *)
(* Redis: a pass is issued at once usable or stillborn, issuing retires    *)
(* the usable pass of the same slot in the same instant, a usable pass     *)
(* ends once, and the checkpoint that used it is the only one that did.    *)
(***************************************************************************)
CONSTANTS Passes, Checkpoints, Slots, NoSlot, Nobody

VARIABLES
  estado,   \* of each pass; AUSENTE before it is issued
  slotOf,   \* passenger and flight of each issued pass
  usedBy    \* the checkpoint that used it

avars == << estado, slotOf, usedBy >>

AInit ==
  /\ estado = [j \in Passes |-> "AUSENTE"]
  /\ slotOf = [j \in Passes |-> NoSlot]
  /\ usedBy = [j \in Passes |-> Nobody]

\* The passes in S, all usable, end unused.
Ended(S, fate) == [j \in Passes |-> IF j \in S THEN fate ELSE estado[j]]

AIssue(j, s, outcome, fate) ==
  LET usable == {k \in Passes : slotOf[k] = s /\ estado[k] = "ACTIVA"}
  IN /\ estado[j] = "AUSENTE"
     /\ estado' = [Ended(usable, fate) EXCEPT ![j] = outcome]
     /\ slotOf' = [slotOf EXCEPT ![j] = s]
     /\ UNCHANGED usedBy

AUse(j, c) ==
  /\ estado[j] = "ACTIVA"
  /\ estado' = [estado EXCEPT ![j] = "CONSUMIDA"]
  /\ usedBy' = [usedBy EXCEPT ![j] = c]
  /\ UNCHANGED slotOf

AEnd(S, fate) ==
  /\ S # {}
  /\ \A j \in S : estado[j] = "ACTIVA"
  /\ estado' = Ended(S, fate)
  /\ UNCHANGED << slotOf, usedBy >>

ANext ==
  \/ \E j \in Passes, s \in Slots, outcome \in {"ACTIVA", "REVOCADA"},
        fate \in {"EXPIRADA", "REVOCADA"} : AIssue(j, s, outcome, fate)
  \/ \E j \in Passes, c \in Checkpoints : AUse(j, c)
  \/ \E S \in SUBSET Passes, fate \in {"EXPIRADA", "REVOCADA"} : AEnd(S, fate)

ASpec == AInit /\ [][ANext]_avars
=============================================================================
