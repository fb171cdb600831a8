-------------------------- MODULE CircuitBreaker --------------------------
(***************************************************************************)
(* The circuit breaker around the biometric provider and QStash. Its state *)
(* is a hash in Redis that every invocation reads, decides upon and writes *)
(* back whole: get and save are two calls with awaits between them, so a   *)
(* call acts on, and saves, what it read some time ago.                    *)
(*                                                                         *)
(* Time is relative: open_until and trial_until are the ticks left until   *)
(* them, window_start the ticks since it. What is long past is Past.       *)
(***************************************************************************)
EXTENDS Integers, FiniteSets

CONSTANTS
  Calls,        \* invocations; each makes one call after another
  Threshold,    \* failure_threshold
  Window,       \* window_seconds
  Open,         \* open_seconds
  Timeout,      \* of the protected function
  MaxLag,       \* bound: ticks the Redis calls of one side take together
  StoreFails    \* whether a Redis call may fail

ASSUME ConstantsAssumption ==
  /\ Threshold \in Nat \ {0} /\ Window \in Nat /\ Open \in Nat \ {0}
  /\ Timeout \in Nat \ {0} /\ MaxLag \in Nat \ {0}
  /\ StoreFails \in BOOLEAN

VARIABLES
  store,    \* cb:{name} in Redis
  pc,
  state,    \* what each call has read or is about to save
  lag,      \* ticks since it read the clock, or began to save
  left,     \* ticks until its timeout
  fails     \* history: failures of the dependency, by their age in ticks

vars == << store, pc, state, lag, left, fails >>

Past == - MaxLag

\* BreakerState(), also what a missing key reads as.
Default == [status |-> "CLOSED", failures |-> 0, window |-> Window + 1,
            open |-> Past, trial |-> Past]

Init ==
  /\ store = Default
  /\ pc = [c \in Calls |-> "idle"]
  /\ state = [c \in Calls |-> Default]
  /\ lag = [c \in Calls |-> 0]
  /\ left = [c \in Calls |-> 0]
  /\ fails = [age \in 0 .. Window |-> 0]

-----------------------------------------------------------------------------
Opened == [Default EXCEPT !.status = "OPEN", !.open = Open]

\* Mutant of AfterFailure: the window never ends.
AfterFailureForever(s) ==
  IF s.status = "HALF_OPEN" \/ s.failures + 1 >= Threshold
  THEN Opened
  ELSE [s EXCEPT !.failures = @ + 1,
                 !.window = IF s.failures = 0 THEN 0 ELSE @]

\* Mutant of AfterFailure: opens above the threshold instead of at it.
AfterFailureAbove(s) ==
  LET counted == IF s.window > Window
                 THEN [Default EXCEPT !.failures = 1, !.window = 0]
                 ELSE [s EXCEPT !.failures = @ + 1]
  IN IF s.status = "HALF_OPEN" \/ counted.failures > Threshold THEN Opened ELSE counted

\* _record_failure, on the state the call read.
AfterFailure(s) ==
  LET counted == IF s.window > Window
                 THEN [Default EXCEPT !.failures = 1, !.window = 0]
                 ELSE [s EXCEPT !.failures = @ + 1]
  IN IF s.status = "HALF_OPEN" \/ counted.failures >= Threshold THEN Opened ELSE counted

\* now < open_until or now < trial_until, at the instant the call read as now.
Refuses(s, late) ==
  \/ s.status = "OPEN" /\ s.open + late > 0
  \/ s.status = "HALF_OPEN" /\ s.trial + late > 0

\* The state a call that becomes the trial will save.
Trial(s, late) == [s EXCEPT !.status = "HALF_OPEN", !.trial = Timeout + 1 - late]

To(c, l) ==
  /\ pc' = [pc EXCEPT ![c] = l]
  /\ lag' = [lag EXCEPT ![c] = IF l = "claim" THEN @ ELSE 0]
  /\ left' = [left EXCEPT ![c] = IF l = "running" THEN Timeout ELSE 0]

Holding(c, s) == state' = [state EXCEPT ![c] = s]

End(c) == To(c, "idle") /\ Holding(c, Default)

\* The clock is read, then the store is asked.
Begin(c) ==
  /\ pc[c] = "idle"
  /\ To(c, "get")
  /\ UNCHANGED << store, state, fails >>

\* What a call does on reading s: it is refused, runs, or becomes the trial.
DecideOn(c, s) ==
  /\ pc[c] = "get"
  /\ \/ Refuses(s, lag[c]) /\ End(c)
     \/ s.status = "CLOSED" /\ To(c, "running") /\ Holding(c, s)
     \/ /\ s.status # "CLOSED" /\ ~Refuses(s, lag[c])
        /\ To(c, "claim") /\ Holding(c, Trial(s, lag[c]))
  /\ UNCHANGED << store, fails >>

\* A store that fails reads as a closed circuit.
Decide(c) == DecideOn(c, store) \/ (StoreFails /\ DecideOn(c, Default))

\* _save: one that fails is only logged.
Write(c) == store' = state[c] \/ (StoreFails /\ store' = store)

ClaimTrial(c) ==
  /\ pc[c] = "claim"
  /\ Write(c)
  /\ To(c, "running")
  /\ UNCHANGED << state, fails >>

\* Mutant of Succeed: only a count of failures is reset.
SucceedCounted(c) ==
  /\ pc[c] = "running"
  /\ IF state[c].failures # 0 THEN To(c, "save") /\ Holding(c, Default) ELSE End(c)
  /\ UNCHANGED << store, fails >>

Succeed(c) ==
  /\ pc[c] = "running"
  /\ IF state[c].status # "CLOSED" \/ state[c].failures # 0
     THEN To(c, "save") /\ Holding(c, Default)
     ELSE End(c)
  /\ UNCHANGED << store, fails >>

\* The function raises, or its timeout runs out.
Fail(c) ==
  /\ pc[c] = "running"
  /\ Holding(c, AfterFailure(state[c]))
  /\ To(c, "save")
  /\ fails' = [fails EXCEPT ![0] = IF @ < Threshold THEN @ + 1 ELSE @]
  /\ UNCHANGED store

Save(c) ==
  /\ pc[c] = "save"
  /\ Write(c)
  /\ End(c)
  /\ UNCHANGED fails

\* The function is killed; a command on its way may still reach Redis.
Crash(c) ==
  /\ pc[c] # "idle"
  /\ store' \in {store} \cup (IF pc[c] \in {"claim", "save"} THEN {state[c]} ELSE {})
  /\ End(c)
  /\ UNCHANGED fails

\* The key's TTL of 600 s is longer than anything the state still remembers;
\* but an EXPIRE that never follows its HSET leaves the key an older TTL.
Expire ==
  /\ StoreFails \/ (store.window > Window /\ store.open <= 0 /\ store.trial <= 0)
  /\ store # Default
  /\ store' = Default
  /\ UNCHANGED << pc, state, lag, left, fails >>

Nearer(x) == IF x > Past THEN x - 1 ELSE x
Aged(s) ==
  [s EXCEPT !.window = IF @ <= Window THEN @ + 1 ELSE @,
            !.open = Nearer(@), !.trial = Nearer(@)]

\* A running call is stopped by its timeout; Redis answers within MaxLag.
Tick ==
  /\ \A c \in Calls : CASE pc[c] = "idle" -> TRUE
                        [] pc[c] = "running" -> left[c] > 0
                        [] OTHER -> lag[c] < MaxLag
  /\ store' = Aged(store)
  /\ state' = [c \in Calls |-> Aged(state[c])]
  /\ lag' = [c \in Calls |-> IF pc[c] \in {"idle", "running"} THEN 0 ELSE lag[c] + 1]
  /\ left' = [c \in Calls |-> IF pc[c] = "running" THEN left[c] - 1 ELSE 0]
  /\ fails' = [age \in 0 .. Window |-> IF age = 0 THEN 0 ELSE fails[age - 1]]
  /\ UNCHANGED pc

Call(c) ==
  Begin(c) \/ Decide(c) \/ ClaimTrial(c) \/ Succeed(c) \/ Fail(c) \/ Save(c)

Next == Expire \/ Tick \/ \E c \in Calls : Call(c) \/ Crash(c)

Spec == Init /\ [][Next]_vars

\* Faults end: the dependency answers, Redis takes what is saved and shows
\* what it has, and nobody is killed.
Faultless ==
  \A c \in Calls : pc'[c] # pc[c] =>
    \/ Begin(c) \/ DecideOn(c, store) \/ Succeed(c)
    \/ (ClaimTrial(c) \/ Save(c)) /\ store' = state[c]
FaultsEnd == <>[][Faultless]_vars

\* Requests keep coming, time passes and the event loop drives every call on.
Fairness == WF_vars(Tick) /\ \A c \in Calls : WF_vars(Call(c))

FairSpec == Spec /\ Fairness

-----------------------------------------------------------------------------
(* Correctness. *)

BreakerState ==
  [status : {"CLOSED", "OPEN", "HALF_OPEN"}, failures : 0 .. Threshold - 1,
   window : 0 .. Window + 1, open : Past .. Open, trial : Past .. Timeout + 1]

\* Every variable keeps its type. No state, stored or about to be, refuses
\* calls for longer than open_seconds or one trial, and a count that has
\* reached the threshold is never left in a closed circuit.
TypeOK ==
  /\ store \in BreakerState
  /\ pc \in [Calls -> {"idle", "get", "claim", "running", "save"}]
  /\ state \in [Calls -> BreakerState]
  /\ lag \in [Calls -> 0 .. MaxLag]
  /\ left \in [Calls -> 0 .. Timeout]
  /\ fails \in [0 .. Window -> 0 .. Threshold]

\* The failures that count[age] tells of, no older than oldest, one by one.
Failures(count, oldest) ==
  {f \in (0 .. oldest) \X (1 .. Threshold) : f[2] <= count[f[1]]}

\* Research R5, "opens with 5 failures in a 60 s window": however stale the
\* states that calls read and save, a call opens the circuit only after a
\* failed trial or when the dependency did fail Threshold times in the window.
OpensOnTruth ==
  [][\A c \in Calls :
       state'[c].status = "OPEN" /\ state[c].status = "CLOSED" =>
         Cardinality(Failures(fails', Window)) >= Threshold]_vars

\* "In HALF_OPEN lets a single probe call through."
Probing(c) == pc[c] = "running" /\ state[c].status = "HALF_OPEN"
SingleProbe == Cardinality({c \in Calls : Probing(c)}) <= 1

\* When the faults end the circuit closes, and closes again whenever a late
\* claim reopens it: whatever was open, half open, claimed by a dead trial or
\* on its way to Redis at that moment, nobody is shut out for good.
Recovers == FaultsEnd => []<>(store.status = "CLOSED")
===========================================================================
