------------------------- MODULE OutboxDispatcher -------------------------
(***************************************************************************)
(* The transactional outbox: claim, publish, record, each in a transaction *)
(* of its own. Dispatchers are serverless invocations: the scheduled sweep *)
(* (a sweeper is one after another), or the request that has just          *)
(* committed an identity and calls publish_now, once, for its own event.   *)
(* The platform kills an invocation that reaches MaxDuration, and the      *)
(* lease a claim takes is what keeps the others off.                       *)
(*                                                                         *)
(* Time is relative: every instant is kept as the ticks left until it      *)
(* (negative when past), so that no bound on the clock is needed.          *)
(***************************************************************************)
EXTENDS Integers, Sequences, FiniteSets

CONSTANTS
  Events,
  Sweepers,
  Lease,            \* LEASE_SECONDS
  MaxDuration,      \* of an invocation (vercel.json)
  MaxBackoff,       \* MAX_BACKOFF_SECONDS
  Limit,            \* rows one claim may take
  MaxIntentos       \* bound: attempts are not counted beyond it

ASSUME ConstantsAssumption ==
  /\ Lease \in Nat \ {0} /\ MaxDuration \in Nat \ {0}
  /\ MaxBackoff \in Nat \ {0} /\ Limit \in Nat \ {0} /\ MaxIntentos \in Nat \ {0}

\* The two settings agree: 30 s each.
ASSUME LeaseAssumption == MaxDuration <= Lease

VARIABLES
  row,        \* outbox_eventos: estado, intentos, proximo_intento_at
  accepted,   \* events QStash has taken
  pc, life,   \* each invocation and the ticks it has left
  ids,        \* the events it may claim
  lag,        \* ticks since it read the clock
  batch,      \* entries it has claimed and not recorded, as it read them
  outcome,    \* what it will record for the first of them
  loaded      \* the row its session has loaded, before the UPDATE

\* The request that commits an event stands under the event's own name.
Dispatchers == Sweepers \cup Events

invocation == << pc, life, ids, lag, batch, outcome, loaded >>
vars == << row, accepted, pc, life, ids, lag, batch, outcome, loaded >>

Entry(estado, intentos, due) == [estado |-> estado, intentos |-> intentos, due |-> due]
NoRow == Entry("AUSENTE", 0, 0)

Min2(x, y) == IF x < y THEN x ELSE y

Init ==
  /\ row = [e \in Events |-> NoRow]
  /\ accepted = {}
  /\ pc = [d \in Dispatchers |-> "idle"]
  /\ life = [d \in Dispatchers |-> 0]
  /\ ids = [d \in Dispatchers |-> {}]
  /\ lag = [d \in Dispatchers |-> 0]
  /\ batch = [d \in Dispatchers |-> << >>]
  /\ outcome = [d \in Dispatchers |-> NoRow]
  /\ loaded = [d \in Dispatchers |-> NoRow]

-----------------------------------------------------------------------------
(* domain/events.py *)

Pendiente == Entry("PENDIENTE", 0, 0)

\* The instant of the next attempt means nothing from then on.
Entregado(x) == [x EXCEPT !.estado = "ENTREGADO", !.due = 0]

BackoffSeconds(intentos) == Min2(2 ^ intentos, MaxBackoff)

\* Mutant of Fallido: the backoff is not capped.
FallidoUncapped(x) ==
  LET intentos == Min2(x.intentos + 1, MaxIntentos)
  IN [x EXCEPT !.intentos = intentos, !.due = 2 ^ intentos]

Fallido(x) ==
  LET intentos == Min2(x.intentos + 1, MaxIntentos)
  IN [x EXCEPT !.intentos = intentos, !.due = BackoffSeconds(intentos)]

-----------------------------------------------------------------------------
(* One invocation. *)

Idle(d) ==
  /\ pc' = [pc EXCEPT ![d] = "idle"]
  /\ life' = [life EXCEPT ![d] = 0]
  /\ ids' = [ids EXCEPT ![d] = {}]
  /\ lag' = [lag EXCEPT ![d] = 0]
  /\ batch' = [batch EXCEPT ![d] = << >>]
  /\ outcome' = [outcome EXCEPT ![d] = NoRow]
  /\ loaded' = [loaded EXCEPT ![d] = NoRow]

Start(d, wanted, left) ==
  /\ pc[d] = "idle"
  /\ pc' = [pc EXCEPT ![d] = "claim"]
  /\ life' = [life EXCEPT ![d] = left]
  /\ ids' = [ids EXCEPT ![d] = wanted]
  /\ UNCHANGED << accepted, lag, batch, outcome, loaded >>

\* dispatch_due: claims whatever is due.
Sweep(d) == Start(d, Events, MaxDuration) /\ UNCHANGED row

\* verify_and_create_identity commits the row with the identity, some ticks
\* into its invocation, and calls publish_now with that event alone.
PublishNow(e) ==
  /\ row[e] = NoRow
  /\ row' = [row EXCEPT ![e] = Pendiente]
  /\ \E left \in 1 .. MaxDuration : Start(e, {e}, left)

\* Mutant of Due: an event whose send has failed is not claimed again.
DueOnce(d) ==
  {e \in ids[d] : row[e].estado = "PENDIENTE" /\ row[e].due + lag[d] <= 0
                  /\ row[e].intentos = 0}

\* PENDIENTE and due at the instant the clock was read.
Due(d) ==
  {e \in ids[d] : row[e].estado = "PENDIENTE" /\ row[e].due + lag[d] <= 0}

\* Oldest first, at most Limit.
Batches(found) ==
  {q \in UNION {[1 .. n -> found] : n \in 1 .. Min2(Limit, Cardinality(found))} :
     /\ Len(q) = Min2(Limit, Cardinality(found))
     /\ \A i, j \in 1 .. Len(q) : i < j => q[i] # q[j] /\ row[q[i]].due <= row[q[j]].due
     /\ \A e \in found : (\E i \in 1 .. Len(q) : q[i] = e)
                         \/ \A i \in 1 .. Len(q) : row[q[i]].due <= row[e].due}

\* Mutant of LeaseUntil: a lease a tick shorter than an invocation.
LeaseShort(d) == Lease - 1 - lag[d]

\* lease_until = now + LEASE_SECONDS, seen from the present.
LeaseUntil(d) == Lease - lag[d]

\* claim_due: the entries are read, then the rows are leased, in one commit.
Claim(d) ==
  /\ pc[d] = "claim"
  /\ \E q \in Batches(Due(d)) :
       /\ batch' = [batch EXCEPT ![d] = [i \in 1 .. Len(q) |->
                      [id |-> q[i], entry |-> row[q[i]]]]]
       /\ row' = [e \in Events |->
                    IF \E i \in 1 .. Len(q) : q[i] = e
                    THEN [row[e] EXCEPT !.due = LeaseUntil(d)] ELSE row[e]]
  /\ pc' = [pc EXCEPT ![d] = "publish"]
  /\ UNCHANGED << accepted, life, ids, lag, outcome, loaded >>

ClaimNothing(d) ==
  /\ pc[d] = "claim"
  /\ Due(d) = {}
  /\ Idle(d)
  /\ UNCHANGED << row, accepted >>

Current(d) == Head(batch[d]).id

\* QStash takes the event and its answer arrives.
Published(d) ==
  /\ pc[d] = "publish"
  /\ accepted' = accepted \cup {Current(d)}
  /\ outcome' = [outcome EXCEPT ![d] = Entregado(Head(batch[d]).entry)]
  /\ pc' = [pc EXCEPT ![d] = "load"]
  /\ UNCHANGED << row, life, ids, lag, batch, loaded >>

\* PublishFailed: an error, an open circuit, or a timeout after QStash took it.
NotPublished(d) ==
  /\ pc[d] = "publish"
  /\ accepted' \in {accepted, accepted \cup {Current(d)}}
  /\ outcome' = [outcome EXCEPT ![d] = Fallido(Head(batch[d]).entry)]
  /\ pc' = [pc EXCEPT ![d] = "load"]
  /\ UNCHANGED << row, life, ids, lag, batch, loaded >>

\* save: session.get ...
SaveLoad(d) ==
  /\ pc[d] = "load"
  /\ loaded' = [loaded EXCEPT ![d] = row[Current(d)]]
  /\ pc' = [pc EXCEPT ![d] = "flush"]
  /\ UNCHANGED << row, accepted, life, ids, lag, batch, outcome >>

\* ... then an UPDATE of the columns that differ from what was loaded.
SaveFlush(d) ==
  /\ pc[d] = "flush"
  /\ row' = [row EXCEPT ![Current(d)] =
       [f \in {"estado", "intentos", "due"} |->
          IF outcome[d][f] # loaded[d][f] THEN outcome[d][f] ELSE @[f]]]
  /\ IF Len(batch[d]) = 1
     THEN Idle(d)
     ELSE /\ batch' = [batch EXCEPT ![d] = Tail(@)]
          /\ outcome' = [outcome EXCEPT ![d] = NoRow]
          /\ loaded' = [loaded EXCEPT ![d] = NoRow]
          /\ pc' = [pc EXCEPT ![d] = "publish"]
          /\ UNCHANGED << life, ids, lag >>
  /\ UNCHANGED accepted

\* The database fails or the function dies; a send in transit may arrive.
Crash(d) ==
  /\ pc[d] # "idle"
  /\ accepted' \in {accepted} \cup
       (IF pc[d] = "publish" THEN {accepted \cup {Current(d)}} ELSE {})
  /\ Idle(d)
  /\ UNCHANGED row

Dispatch(d) ==
  \/ Claim(d) \/ ClaimNothing(d)
  \/ Published(d) \/ NotPublished(d) \/ SaveLoad(d) \/ SaveFlush(d)

\* Instants come nearer; what is long past is not told apart.
Sooner(due) == IF due > - MaxDuration THEN due - 1 ELSE due
Aged(x) == [x EXCEPT !.due = Sooner(@)]

\* A tick passes only for invocations with time left: the platform kills the
\* others at the instant they run out of it (Crash).
Tick ==
  /\ \A d \in Dispatchers : pc[d] # "idle" => life[d] > 1
  /\ row' = [e \in Events |-> IF row[e].estado = "PENDIENTE" THEN Aged(row[e]) ELSE row[e]]
  /\ life' = [d \in Dispatchers |-> IF pc[d] = "idle" THEN 0 ELSE life[d] - 1]
  /\ lag' = [d \in Dispatchers |-> IF pc[d] = "claim" THEN lag[d] + 1 ELSE lag[d]]
  /\ batch' = [d \in Dispatchers |-> [i \in 1 .. Len(batch[d]) |->
       [batch[d][i] EXCEPT !.entry = Aged(@)]]]
  /\ outcome' = [d \in Dispatchers |->
       IF outcome[d] = NoRow THEN NoRow ELSE Aged(outcome[d])]
  /\ loaded' = [d \in Dispatchers |->
       IF loaded[d] = NoRow THEN NoRow ELSE Aged(loaded[d])]
  /\ UNCHANGED << accepted, pc, ids >>

Next ==
  \/ Tick
  \/ \E e \in Events : PublishNow(e)
  \/ \E d \in Sweepers : Sweep(d)
  \/ \E d \in Dispatchers : Dispatch(d) \/ Crash(d)

Spec == Init /\ [][Next]_vars

-----------------------------------------------------------------------------
\* The faults end: from some instant on no sweep is killed once it has claimed.
FaultsEnd == <>[][\A d \in Sweepers : pc[d] # "claim" => ~Crash(d)]_vars

\* Time passes and kills the requests that have run out of it; the schedule
\* keeps starting sweeps and not all of them are killed before they claim;
\* QStash takes an event the sweeps offer it for ever, and the answer arrives.
\* Nothing is asked of publish_now: it is best effort.
Fairness ==
  /\ FaultsEnd
  /\ WF_vars(Tick)
  /\ \A e \in Events : WF_vars(Crash(e) /\ life[e] = 1)
  /\ \A d \in Sweepers :
       /\ WF_vars(Sweep(d))
       /\ SF_vars(Claim(d))
       /\ WF_vars(ClaimNothing(d))
       /\ \A e \in Events : SF_vars(Published(d) /\ Current(d) = e)
       /\ WF_vars(SaveLoad(d) \/ SaveFlush(d))

FairSpec == Spec /\ Fairness

-----------------------------------------------------------------------------
(* Correctness. *)

Deadline == - MaxDuration .. (IF MaxBackoff > Lease THEN MaxBackoff ELSE Lease)
Rows == [estado : {"AUSENTE", "PENDIENTE", "ENTREGADO"}, intentos : 0 .. MaxIntentos,
         due : Deadline]
Item == [id : Events, entry : Rows]

\* Every variable keeps its type; no row waits longer than the longest backoff.
TypeOK ==
  /\ row \in [Events -> Rows]
  /\ accepted \subseteq Events
  /\ pc \in [Dispatchers -> {"idle", "claim", "publish", "load", "flush"}]
  /\ life \in [Dispatchers -> 0 .. MaxDuration]
  /\ ids \in [Dispatchers -> SUBSET Events]
  /\ lag \in [Dispatchers -> 0 .. MaxDuration]
  /\ batch \in [Dispatchers -> Seq(Item)]
  /\ \A d \in Dispatchers : Len(batch[d]) <= Limit
  /\ outcome \in [Dispatchers -> Rows]
  /\ loaded \in [Dispatchers -> Rows]

Holds(d, e) == \E i \in 1 .. Len(batch[d]) : batch[d][i].id = e

\* "A lease keeps concurrent dispatchers from double-sending": no two live
\* invocations ever hold the same event. The lease is no shorter than an
\* invocation, so its holder is dead before another may claim.
LeaseIsExclusive ==
  \A d, f \in Dispatchers, e \in Events : Holds(d, e) /\ Holds(f, e) => d = f

\* The row is the source of truth: while an invocation holds an event its row
\* is the one it read (but for the lease), so recording the outcome overwrites
\* nobody's, and a failure is never forgotten.
NothingIsOverwritten ==
  \A d \in Dispatchers : \A i \in 1 .. Len(batch[d]) :
    LET x == row[batch[d][i].id]
    IN /\ x.estado = "PENDIENTE"
       /\ x.intentos = batch[d][i].entry.intentos
       /\ x.due >= life[d]

Channel == INSTANCE EventChannel WITH outbox <- [e \in Events |-> row[e].estado]

\* FR-013, SC-006: the dispatcher is the channel the services count on. A
\* committed event is handed over and ends ENTREGADO for good, only after
\* QStash took it, whatever fails or is killed on the way.
ImplementsChannel == Channel!ChannelSpec
=============================================================================
