-------------------------- MODULE OutboxRecovery --------------------------
(***************************************************************************)
(* How long an event waits once QStash is back: the backoff of its row,    *)
(* the schedule of the sweep, its batch and its loop, with the circuit     *)
(* breaker between it and QStash. The recovery is the end of the last call *)
(* that QStash fails: until the event is delivered QStash answers, while   *)
(* Redis may fail and invocations may be killed. Before it only the        *)
(* breaker is followed; what the row, the schedule and the sweep have come *)
(* to by then is left open. The event's own request has made its attempt.  *)
(***************************************************************************)
EXTENDS CircuitBreaker

CONSTANTS
  Sweep,         \* the call of the sweep; the others are of requests
  Backoff,       \* MAX_BACKOFF_SECONDS
  Schedule,      \* the dispatcher's cron
  Lease,         \* LEASE_SECONDS
  MaxDuration,   \* of an invocation, then the platform kills it
  Limit,         \* of a batch
  Backlog        \* bound: full batches that may be due before the event

ASSUME RecoveryAssumption ==
  /\ Sweep \in Calls
  /\ {Backoff, Schedule, Lease, MaxDuration, Limit} \subseteq Nat \ {0} /\ Backlog \in Nat
  /\ Lease <= Backoff /\ MaxDuration <= Schedule

VARIABLES
  evento,    \* "PENDIENTE" from a recovery to its delivery; no event, "ninguno"
  since,     \* history: ticks since the recovery or the last setback
  due,       \* ticks until proximo_intento_at
  next,      \* ticks until the schedule starts a sweep
  ahead,     \* full batches of rows due before it, once it is due
  sweep,     \* the sweep's invocation: "none", "holds" its row untried, "other"
  turn,      \* entries the batch that holds it has still to try before it
  life       \* ticks until the invocation is killed

waiting == << evento, since, due, next, ahead, sweep, turn, life >>
all == << vars, waiting >>

\* An open circuit refuses attempts that begin before Open is over and take up to
\* MaxLag to learn it; the row is due a backoff later, the schedule comes round
\* less than a period after that and once more for every batch ahead; the sweep
\* that claims the row reaches it within its own life.
Late == (Open - 1) + MaxLag + Backoff + (Schedule - 1) + Backlog * Schedule + MaxDuration

RecoveryInit ==
  /\ Init
  /\ evento = "ninguno" /\ sweep = "none"
  /\ since = 0 /\ due = 0 /\ next = 0 /\ ahead = 0 /\ turn = 0 /\ life = 0

Recover ==
  /\ evento = "ninguno" /\ evento' = "PENDIENTE"
  /\ due' \in 0 .. Backoff /\ next' \in 0 .. Schedule
  /\ \/ /\ sweep' = "none" /\ pc[Sweep] = "idle"
        /\ life' = 0 /\ turn' = 0 /\ ahead' \in 0 .. Backlog
     \/ /\ sweep' = "other" /\ pc[Sweep] = "idle"
        /\ life' \in 0 .. MaxDuration /\ turn' = 0 /\ ahead' \in 0 .. Backlog
     \/ /\ sweep' = "holds" /\ due' <= Lease
        /\ life' \in 0 .. MaxDuration /\ turn' \in 0 .. Limit - 1 /\ ahead' = 0
        /\ pc[Sweep] # "save" \/ turn' > 0
  /\ UNCHANGED << vars, since >>

-----------------------------------------------------------------------------
(* The schedule: one invocation of the sweep a period, and no retry of it. *)

Scheduled == evento = "PENDIENTE" /\ next = 0 /\ sweep = "none" /\ next' = Schedule

Invoked(s) ==
  /\ Scheduled /\ sweep' = s /\ life' = MaxDuration
  /\ UNCHANGED << vars, evento, since >>

\* Its batch is of other rows: this one is not due.
SweepElsewhere == Invoked("other") /\ due > 0 /\ UNCHANGED << due, ahead, turn >>

\* The limit leaves the row out: the batch is full of rows due before it. What
\* becomes of them, they are due after it from now on.
SweepLeavesOut ==
  /\ Invoked("other")
  /\ due = 0 /\ ahead > 0
  /\ ahead' = ahead - 1
  /\ UNCHANGED << due, turn >>

\* claim_due takes the row, somewhere in the batch. The rows ahead of it may have
\* been claimed by the requests that emitted them.
SweepClaims ==
  /\ Invoked("holds")
  /\ due = 0 /\ due' = Lease
  /\ turn' \in 0 .. Limit - 1
  /\ ahead' = 0

\* A setback: the call of the schedule is lost, or dies before its claim commits.
SweepMissed ==
  /\ Scheduled
  /\ due = 0
  /\ since' = 0
  /\ UNCHANGED << vars, evento, due, ahead, sweep, turn, life >>

-----------------------------------------------------------------------------
(* The loop over the batch. *)

Sweeping == evento = "PENDIENTE" /\ sweep # "none"
ItsTurn == evento = "PENDIENTE" /\ sweep = "holds" /\ turn = 0

\* The publication of the next entry.
SweepTries == Sweeping /\ Begin(Sweep) /\ UNCHANGED waiting

\* Another entry of the batch; it is delivered or fails, and the next one follows.
SweepOtherEntry ==
  /\ Sweeping /\ ~ItsTurn
  /\ Decide(Sweep) \/ ClaimTrial(Sweep) \/ Succeed(Sweep) \/ Save(Sweep)
  /\ turn' = IF turn > 0 /\ pc'[Sweep] = "idle" THEN turn - 1 ELSE turn
  /\ UNCHANGED << evento, since, due, next, ahead, sweep, life >>

\* Mutant of Fallido: the longest backoff is not the cap.
FallidoUncapped == due' \in 1 .. 2 * Backoff

\* fallido: the backoff of some count of attempts.
Fallido == due' \in 1 .. Backoff

\* CircuitOpenError becomes PublishFailed. A setback when the circuit was no longer
\* open, and it is the trial of another call, alive or dead, that refuses.
SweepRefused ==
  /\ ItsTurn
  /\ DecideOn(Sweep, store) /\ pc'[Sweep] = "idle"
  /\ Fallido
  /\ since' = IF store.status = "HALF_OPEN" THEN 0 ELSE since
  /\ sweep' = "other" /\ ahead' \in 0 .. Backlog
  /\ UNCHANGED << evento, next, turn, life >>

SweepGoesOn ==
  /\ ItsTurn
  /\ Decide(Sweep) \/ ClaimTrial(Sweep)
  /\ pc'[Sweep] # "idle"
  /\ UNCHANGED waiting

\* Delivered; QStash may fail again, and another event wait for another recovery.
SweepDelivers ==
  /\ ItsTurn
  /\ Succeed(Sweep)
  /\ evento' = "ninguno" /\ sweep' = "none"
  /\ since' = 0 /\ due' = 0 /\ next' = 0 /\ ahead' = 0 /\ turn' = 0 /\ life' = 0

SweepOver == sweep' = "none" /\ life' = 0 /\ turn' = 0 /\ UNCHANGED << evento, due, next >>

SweepDone ==
  /\ Sweeping /\ sweep = "other" /\ pc[Sweep] = "idle"
  /\ SweepOver
  /\ UNCHANGED << vars, since, ahead >>

\* The platform kills the invocation, or a save of the outbox raises: the rest of
\* the batch stays leased. A setback, if the event was there.
SweepDies ==
  /\ Sweeping
  /\ Crash(Sweep) \/ (pc[Sweep] = "idle" /\ UNCHANGED vars)
  /\ SweepOver
  /\ IF sweep = "holds" THEN since' = 0 /\ ahead' \in 0 .. Backlog
                        ELSE UNCHANGED << since, ahead >>

-----------------------------------------------------------------------------
Nearest(x) == IF x > 0 THEN x - 1 ELSE 0

\* The next sweep is never late, and none outlives its MaxDuration.
Wait ==
  /\ evento = "PENDIENTE" /\ next > 0
  /\ sweep # "none" => life > 0
  /\ Tick
  /\ since' = IF since <= Late THEN since + 1 ELSE since
  /\ due' = Nearest(due) /\ next' = next - 1 /\ life' = Nearest(life)
  /\ UNCHANGED << evento, ahead, sweep, turn >>

\* The requests beside it, and the key's TTL. QStash fails none of them.
Others ==
  /\ evento = "PENDIENTE"
  /\ \/ Expire
     \/ \E c \in Calls \ {Sweep} :
            Begin(c) \/ Decide(c) \/ ClaimTrial(c) \/ Succeed(c) \/ Save(c) \/ Crash(c)
  /\ UNCHANGED waiting

RecoveryNext ==
  \/ evento # "PENDIENTE" /\ Next /\ UNCHANGED waiting
  \/ Recover
  \/ SweepElsewhere \/ SweepLeavesOut \/ SweepClaims \/ SweepMissed
  \/ SweepTries \/ SweepOtherEntry \/ SweepRefused \/ SweepGoesOn \/ SweepDelivers
  \/ SweepDone \/ SweepDies
  \/ Wait \/ Others

RecoverySpec == RecoveryInit /\ [][RecoveryNext]_all

\* The fairness of the breaker; time passes for the row and the schedule too.
FairRecoverySpec == RecoverySpec /\ Fairness

-----------------------------------------------------------------------------
(* Correctness. *)

\* domain/events.py:17 and data-model.md:164 count one backoff and one period of
\* the schedule from the recovery to the delivery. It takes no more than that
\* after the circuit stops refusing, and a period for every full batch of older
\* rows, and the life of a sweep; and as much again from each setback: a refusal
\* by another call's trial, a sweep that is lost, or one that dies with the event.
LateOnlyAfterASetback == evento = "PENDIENTE" => since <= Late
=============================================================================
