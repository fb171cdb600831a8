------------------------ MODULE CircuitBreakerProofs ------------------------
(***************************************************************************)
(* What the breaker guarantees for any number of calls and any settings,   *)
(* whatever Redis loses and however stale the states that calls save: the  *)
(* count of a closed state never exceeds the failures there were; and how  *)
(* long an event that is published through it waits once QStash is back.   *)
(***************************************************************************)
EXTENDS OutboxRecovery, FiniteSetTheorems, TLAPS

Seen(count, oldest) == Cardinality(Failures(count, oldest))

\* The count of a closed state whose window is open tells of real failures.
Truthful(s, count) ==
  s.status = "CLOSED" /\ s.window <= Window =>
    Seen(count, s.window) >= s.failures

IInv ==
  /\ TypeOK
  /\ Truthful(store, fails)
  /\ \A c \in Calls : Truthful(state[c], fails)

Counts == [0 .. Window -> 0 .. Threshold]

-----------------------------------------------------------------------------
(* The operators.                                                          *)

LEMMA StatesMade ==
  /\ Default \in BreakerState /\ Default.status = "CLOSED" /\ Default.window > Window
  /\ Opened \in BreakerState /\ Opened.status = "OPEN" /\ Opened.failures = 0
  <1>1. /\ 0 \in 0 .. Threshold - 1 /\ Window + 1 \in 0 .. Window + 1
        /\ Past \in Past .. Open /\ Open \in Past .. Open
        /\ Past \in Past .. Timeout + 1 /\ Window + 1 > Window
    BY ConstantsAssumption DEF Past
  <1>2. Default \in BreakerState /\ Default.status = "CLOSED" /\ Default.window > Window
    BY <1>1 DEF Default, BreakerState
  <1>3. Opened \in BreakerState /\ Opened.status = "OPEN" /\ Opened.failures = 0
    BY <1>1, <1>2 DEF Opened, Default, BreakerState
  <1> QED
    BY <1>2, <1>3

LEMMA TrialTyped ==
  ASSUME NEW s \in BreakerState, NEW late \in 0 .. MaxLag
  PROVE  Trial(s, late) \in BreakerState /\ Trial(s, late).status = "HALF_OPEN"
  <1>1. Timeout + 1 - late \in Past .. Timeout + 1
    BY ConstantsAssumption DEF Past
  <1> QED
    BY <1>1 DEF Trial, BreakerState

LEMMA AgedTyped ==
  ASSUME NEW s \in BreakerState
  PROVE  /\ Aged(s) \in BreakerState
         /\ Aged(s).status = s.status /\ Aged(s).failures = s.failures
         /\ Aged(s).window = IF s.window <= Window THEN s.window + 1 ELSE s.window
  <1>1. \A x \in Past .. Open : Nearer(x) \in Past .. Open
    BY ConstantsAssumption DEF Nearer, Past
  <1>2. \A x \in Past .. Timeout + 1 : Nearer(x) \in Past .. Timeout + 1
    BY ConstantsAssumption DEF Nearer, Past
  <1>3. (IF s.window <= Window THEN s.window + 1 ELSE s.window) \in 0 .. Window + 1
    BY ConstantsAssumption DEF BreakerState
  <1>4. Nearer(s.open) \in Past .. Open /\ Nearer(s.trial) \in Past .. Timeout + 1
    BY <1>1, <1>2 DEF BreakerState
  <1> QED
    BY <1>3, <1>4 DEF Aged, BreakerState

\* The two ends of _record_failure: it opens, or it counts one failure more.
LEMMA FailureCounted ==
  ASSUME NEW s \in BreakerState
  PROVE  /\ AfterFailure(s) \in BreakerState
         /\ \/ /\ AfterFailure(s) = Opened
               /\ \/ s.status = "HALF_OPEN"
                  \/ s.window > Window /\ Threshold = 1
                  \/ s.window <= Window /\ s.failures + 1 >= Threshold
            \/ /\ s.window > Window
               /\ AfterFailure(s).failures = 1 /\ AfterFailure(s).window = 0
            \/ /\ s.window <= Window /\ AfterFailure(s).status = s.status
               /\ AfterFailure(s).failures = s.failures + 1
               /\ AfterFailure(s).window = s.window
  <1> DEFINE counted == IF s.window > Window
                        THEN [Default EXCEPT !.failures = 1, !.window = 0]
                        ELSE [s EXCEPT !.failures = @ + 1]
  <1>1. AfterFailure(s) = IF s.status = "HALF_OPEN" \/ counted.failures >= Threshold
                          THEN Opened ELSE counted
    BY DEF AfterFailure
  <1>2. /\ s.failures \in 0 .. Threshold - 1 /\ s.window \in 0 .. Window + 1
        /\ Threshold \in Nat /\ Window \in Nat /\ Threshold >= 1
    BY ConstantsAssumption DEF BreakerState
  <1>3. CASE s.window > Window
    <2>1. counted = [Default EXCEPT !.failures = 1, !.window = 0]
      BY <1>3
    <2>2. 0 \in 0 .. Window + 1 /\ (Threshold > 1 => 1 \in 0 .. Threshold - 1)
      BY <1>2
    <2>3. /\ counted.failures = 1 /\ counted.window = 0
          /\ Threshold > 1 => counted \in BreakerState
      BY <2>1, <2>2, StatesMade DEF BreakerState
    <2> HIDE DEF counted
    <2> QED
      BY <1>1, <1>2, <1>3, <2>3, StatesMade
  <1>4. CASE s.window <= Window
    <2>1. /\ counted.failures = s.failures + 1 /\ counted.window = s.window
          /\ counted.status = s.status
          /\ s.failures + 1 < Threshold => counted \in BreakerState
      BY <1>2, <1>4 DEF BreakerState
    <2> HIDE DEF counted
    <2> QED
      BY <1>1, <1>2, <1>4, <2>1, StatesMade
  <1> QED
    BY <1>2, <1>3, <1>4

-----------------------------------------------------------------------------
(* Counting failures.                                                      *)

LEMMA FailuresFinite ==
  ASSUME NEW count, NEW oldest \in Int
  PROVE  IsFiniteSet(Failures(count, oldest)) /\ Cardinality(Failures(count, oldest)) \in Nat
  <1>1. IsFiniteSet(0 .. oldest) /\ IsFiniteSet(1 .. Threshold)
    BY FS_Interval, ConstantsAssumption
  <1>2. IsFiniteSet((0 .. oldest) \X (1 .. Threshold))
    BY <1>1, FS_Product
  <1>3. Failures(count, oldest) \subseteq (0 .. oldest) \X (1 .. Threshold)
    BY DEF Failures
  <1> QED
    BY <1>2, <1>3, FS_Subset, FS_CardinalityType

LEMMA FailuresGrow ==
  ASSUME NEW before, NEW after, NEW i \in Int, NEW j \in Int,
         Failures(before, i) \subseteq Failures(after, j)
  PROVE  Cardinality(Failures(before, i)) <= Cardinality(Failures(after, j))
  BY FailuresFinite, FS_Subset

\* A failure that is counted is one more.
LEMMA OneFailureMore ==
  ASSUME NEW count \in Counts, NEW oldest \in 0 .. Window, count[0] < Threshold,
         NEW later, later = [count EXCEPT ![0] = @ + 1]
  PROVE  Cardinality(Failures(later, oldest)) >= Cardinality(Failures(count, oldest)) + 1
  <1> DEFINE new == << 0, count[0] + 1 >>
             old == Failures(count, oldest)
  <1>1. /\ oldest \in Nat /\ oldest <= Window /\ Window \in Nat /\ Threshold \in Nat
        /\ 0 \in 0 .. Window /\ 0 \in 0 .. oldest /\ count[0] \in 0 .. Threshold
    BY ConstantsAssumption DEF Counts
  <1>2. new \notin old
    BY <1>1 DEF Failures
  <1>3. old \cup {new} \subseteq Failures(later, oldest)
    <2>1. new \in Failures(later, oldest)
      BY <1>1 DEF Failures, Counts
    <2>2. ASSUME NEW f \in old
          PROVE  f \in Failures(later, oldest)
      <3>1. f \in (0 .. oldest) \X (1 .. Threshold) /\ f[2] <= count[f[1]]
        BY DEF Failures
      <3>2. f[1] \in 0 .. Window /\ f[2] \in Nat /\ count[f[1]] \in Nat
        BY <1>1, <3>1 DEF Counts
      <3>3. later[f[1]] >= count[f[1]]
        BY <1>1, <3>2 DEF Counts
      <3>4. later[f[1]] \in Nat
        BY <1>1, <3>2 DEF Counts
      <3> QED
        BY <3>1, <3>2, <3>3, <3>4 DEF Failures
    <2> QED
      BY <2>1, <2>2
  <1>4. IsFiniteSet(old) /\ IsFiniteSet(Failures(later, oldest)) /\ Cardinality(old) \in Nat
    BY <1>1, FailuresFinite
  <1>5. Cardinality(old \cup {new}) = Cardinality(old) + 1 /\ IsFiniteSet(old \cup {new})
    BY <1>2, <1>4, FS_AddElement
  <1>6. Cardinality(old \cup {new}) <= Cardinality(Failures(later, oldest))
    BY <1>3, <1>4, FS_Subset
  <1> QED
    BY <1>5, <1>6

\* A tick later the failures of the open window are a tick older, and as many.
LEMMA FailuresAge ==
  ASSUME NEW count \in Counts, NEW oldest \in Nat, oldest < Window,
         NEW later, later = [age \in 0 .. Window |-> IF age = 0 THEN 0 ELSE count[age - 1]]
  PROVE  Cardinality(Failures(later, oldest + 1)) >= Cardinality(Failures(count, oldest))
  <1> DEFINE S == Failures(count, oldest)
             T == Failures(later, oldest + 1)
             older == [f \in S |-> << f[1] + 1, f[2] >>]
  <1>1. ASSUME NEW f \in S
        PROVE  /\ f \in (0 .. oldest) \X (1 .. Threshold)
               /\ << f[1] + 1, f[2] >> \in T
    <2>1. f \in (0 .. oldest) \X (1 .. Threshold) /\ f[2] <= count[f[1]]
      BY DEF Failures
    <2>2. f[1] + 1 \in 0 .. oldest + 1 /\ f[1] + 1 \in 0 .. Window /\ f[1] + 1 # 0
      BY <2>1, ConstantsAssumption
    <2>3. later[f[1] + 1] = count[f[1]]
      BY <2>1, <2>2
    <2> QED
      BY <2>1, <2>2, <2>3 DEF Failures
  <1>2. older \in [S -> T]
    BY <1>1
  <1>3. \A f, g \in S : older[f] = older[g] => f = g
    BY <1>1
  <1>4. older \in Injection(S, T)
    BY <1>2, <1>3 DEF Injection, IsInjective
  <1>5. IsFiniteSet(T) /\ Cardinality(S) \in Nat /\ Cardinality(T) \in Nat
    BY FailuresFinite
  <1> HIDE DEF S, T, older
  <1>6. Cardinality(S) <= Cardinality(T)
    BY <1>4, <1>5, FS_Injection
  <1> QED
    BY <1>5, <1>6 DEF S, T

\* A tick that has seen Threshold failures has as many as any state counts.
LEMMA FailuresFull ==
  ASSUME NEW count \in Counts, NEW oldest \in Nat, count[0] = Threshold
  PROVE  Cardinality(Failures(count, oldest)) >= Threshold
  <1> DEFINE S == 1 .. Threshold
             T == Failures(count, oldest)
             told == [n \in S |-> << 0, n >>]
  <1>1. \A n \in S : told[n] \in T
    BY ConstantsAssumption DEF Failures
  <1>2. told \in Injection(S, T)
    BY <1>1 DEF Injection, IsInjective
  <1>3. IsFiniteSet(T) /\ Cardinality(T) \in Nat
    BY FailuresFinite
  <1>4. Cardinality(S) = Threshold
    BY FS_Interval, ConstantsAssumption
  <1> HIDE DEF S, T, told
  <1> QED
    BY <1>2, <1>3, <1>4, FS_Injection DEF T
\* A failure of the dependency is one more, or there are Threshold of them.
LEMMA FailureTold ==
  ASSUME NEW count \in Counts, NEW oldest \in 0 .. Window,
         NEW later, later = [count EXCEPT ![0] = IF @ < Threshold THEN @ + 1 ELSE @]
  PROVE  /\ later \in Counts
         /\ Seen(count, oldest) \in Nat /\ Seen(later, oldest) \in Nat
         /\ \/ Seen(later, oldest) >= Seen(count, oldest) + 1
            \/ Seen(later, oldest) >= Threshold /\ Seen(later, oldest) = Seen(count, oldest)
  <1>1. /\ 0 \in 0 .. Window /\ count[0] \in 0 .. Threshold /\ Threshold \in Nat
        /\ oldest \in Nat
    BY ConstantsAssumption DEF Counts
  <1>2. Seen(count, oldest) \in Nat /\ Seen(later, oldest) \in Nat
    BY <1>1, FailuresFinite DEF Seen
  <1>3. CASE count[0] < Threshold
    <2>1. later = [count EXCEPT ![0] = @ + 1] /\ count[0] + 1 \in 0 .. Threshold
      BY <1>1, <1>3
    <2>2. later \in Counts
      BY <1>1, <2>1 DEF Counts
    <2>3. Seen(later, oldest) >= Seen(count, oldest) + 1
      BY <1>3, <2>1, OneFailureMore DEF Seen
    <2> QED
      BY <1>2, <2>2, <2>3
  <1>4. CASE count[0] = Threshold
    <2>1. later = count
      BY <1>1, <1>4 DEF Counts
    <2>2. Seen(count, oldest) >= Threshold
      BY <1>1, <1>4, FailuresFull DEF Seen
    <2> QED
      BY <1>2, <2>1, <2>2
  <1>5. count[0] < Threshold \/ count[0] = Threshold
    BY <1>1
  <1> QED
    BY <1>3, <1>4, <1>5

LEMMA DefaultTruthful ==
  ASSUME NEW count
  PROVE  Truthful(Default, count) /\ Truthful(Opened, count)
  <1>1. ~(Default.window <= Window)
    BY ConstantsAssumption DEF Default
  <1> QED
    BY <1>1, StatesMade DEF Truthful

-----------------------------------------------------------------------------
(* Steps.                                                                  *)

\* What a step that opens the circuit of a call must have seen.
Honest ==
  \A c \in Calls :
    state'[c].status = "OPEN" /\ state[c].status = "CLOSED" =>
      Seen(fails', Window) >= Threshold

Labels == {"idle", "get", "claim", "running", "save"}

LEMMA ToTyped ==
  ASSUME TypeOK, NEW c \in Calls, NEW l \in Labels, To(c, l)
  PROVE  /\ pc' \in [Calls -> Labels]
         /\ lag' \in [Calls -> 0 .. MaxLag]
         /\ left' \in [Calls -> 0 .. Timeout]
  <1>1. /\ 0 \in 0 .. MaxLag /\ lag[c] \in 0 .. MaxLag
        /\ 0 \in 0 .. Timeout /\ Timeout \in 0 .. Timeout
    BY ConstantsAssumption DEF TypeOK
  <1> QED
    BY <1>1 DEF To, TypeOK, Labels

\* A step of one call in which the dependency does not fail: what the call
\* holds, or writes, was already true.
LEMMA QuietStep ==
  ASSUME IInv, NEW c \in Calls, NEW l \in Labels, To(c, l), UNCHANGED fails,
         NEW s \in BreakerState, Truthful(s, fails), s.status # "OPEN",
         Holding(c, s) \/ UNCHANGED state,
         store' \in {store, state[c], Default}
  PROVE  IInv' /\ Honest
  <1>1. TypeOK /\ Truthful(store, fails) /\ \A x \in Calls : Truthful(state[x], fails)
    BY DEF IInv
  <1>2. store' \in BreakerState /\ Truthful(store', fails)
    BY <1>1, StatesMade, DefaultTruthful DEF TypeOK
  <1>3. /\ state' \in [Calls -> BreakerState]
        /\ \A x \in Calls : state'[x] = state[x] \/ state'[x] = s
    BY <1>1 DEF Holding, TypeOK
  <1>4. TypeOK'
    BY <1>1, <1>2, <1>3, ToTyped DEF TypeOK, Labels
  <1>5. \A x \in Calls : Truthful(state'[x], fails)
    BY <1>1, <1>3
  <1>6. Honest
    BY <1>3 DEF Honest
  <1> QED
    BY <1>2, <1>4, <1>5, <1>6 DEF IInv

LEMMA BeginKeeps ==
  ASSUME IInv, NEW c \in Calls, Begin(c)
  PROVE  IInv' /\ Honest
  <1>1. To(c, "get") /\ UNCHANGED << store, state, fails >>
    BY DEF Begin
  <1> QED
    BY <1>1, QuietStep, StatesMade, DefaultTruthful DEF Labels

LEMMA DecideKeeps ==
  ASSUME IInv, NEW c \in Calls, NEW s \in BreakerState, Truthful(s, fails), DecideOn(c, s)
  PROVE  IInv' /\ Honest
  <1>1. UNCHANGED << store, fails >> /\ lag[c] \in 0 .. MaxLag
    BY DEF DecideOn, IInv, TypeOK
  <1>2. CASE End(c)
    BY <1>1, <1>2, QuietStep, StatesMade, DefaultTruthful DEF End, Labels
  <1>3. CASE s.status = "CLOSED" /\ To(c, "running") /\ Holding(c, s)
    BY <1>1, <1>3, QuietStep DEF Labels
  <1>4. CASE To(c, "claim") /\ Holding(c, Trial(s, lag[c]))
    <2>1. /\ Trial(s, lag[c]) \in BreakerState /\ Trial(s, lag[c]).status = "HALF_OPEN"
          /\ Truthful(Trial(s, lag[c]), fails)
      BY <1>1, TrialTyped DEF Truthful
    <2> QED
      BY <1>1, <1>4, <2>1, QuietStep DEF Labels
  <1> QED
    BY <1>2, <1>3, <1>4 DEF DecideOn

LEMMA WriteKeeps ==
  ASSUME IInv, NEW c \in Calls, ClaimTrial(c) \/ Save(c) \/ Crash(c)
  PROVE  IInv' /\ Honest
  <1>1. UNCHANGED fails /\ store' \in {store, state[c], Default}
    BY DEF ClaimTrial, Save, Crash, Write
  <1>2. CASE ClaimTrial(c)
    BY <1>1, <1>2, QuietStep, StatesMade, DefaultTruthful DEF ClaimTrial, Labels
  <1>3. CASE Save(c) \/ Crash(c)
    BY <1>1, <1>3, QuietStep, StatesMade, DefaultTruthful DEF Save, Crash, End, Labels
  <1> QED
    BY <1>2, <1>3

LEMMA SucceedKeeps ==
  ASSUME IInv, NEW c \in Calls, Succeed(c)
  PROVE  IInv' /\ Honest
  <1>1. UNCHANGED << store, fails >> /\ Holding(c, Default)
        /\ (To(c, "save") \/ To(c, "idle"))
    BY DEF Succeed, End
  <1> QED
    BY <1>1, QuietStep, StatesMade, DefaultTruthful DEF Labels

LEMMA FailKeeps ==
  ASSUME IInv, NEW c \in Calls, Fail(c)
  PROVE  IInv' /\ Honest
  <1> DEFINE s == state[c]
             told == AfterFailure(s)
  <1>1. /\ TypeOK /\ s \in BreakerState /\ fails \in Counts
        /\ \A x \in Calls : state[x] \in BreakerState /\ Truthful(state[x], fails)
        /\ store \in BreakerState /\ Truthful(store, fails)
    BY DEF IInv, TypeOK, Counts
  <1>2. /\ state' = [state EXCEPT ![c] = told] /\ To(c, "save") /\ UNCHANGED store
        /\ fails' = [fails EXCEPT ![0] = IF @ < Threshold THEN @ + 1 ELSE @]
    BY DEF Fail, Holding
  <1>3. 0 \in 0 .. Window /\ Window \in 0 .. Window /\ Threshold \in Nat \ {0} /\ Window \in Nat
    BY ConstantsAssumption
  <1>4. fails' \in Counts
    BY <1>1, <1>2, <1>3, FailureTold
  <1>5. ASSUME NEW oldest \in 0 .. Window
        PROVE  /\ Seen(fails, oldest) \in Nat /\ Seen(fails', oldest) \in Nat
               /\ \/ Seen(fails', oldest) >= Seen(fails, oldest) + 1
                  \/ /\ Seen(fails', oldest) >= Threshold
                     /\ Seen(fails', oldest) = Seen(fails, oldest)
    BY <1>1, <1>2, FailureTold
  <1>6. ASSUME NEW x \in BreakerState, Truthful(x, fails)
        PROVE  /\ Truthful(x, fails') /\ x.failures \in 0 .. Threshold - 1
               /\ x.status = "CLOSED" /\ x.window <= Window =>
                    /\ x.window \in 0 .. Window
                    /\ Seen(fails', x.window) >= x.failures + 1
    <2>1. x.failures \in 0 .. Threshold - 1 /\ x.window \in 0 .. Window + 1
      BY DEF BreakerState
    <2>2. CASE x.status = "CLOSED" /\ x.window <= Window
      <3>1. x.window \in 0 .. Window /\ Seen(fails, x.window) >= x.failures
        BY <1>3, <1>6, <2>1, <2>2 DEF Truthful
      <3>2. Seen(fails', x.window) >= x.failures + 1
        BY <1>3, <1>5, <2>1, <3>1
      <3> QED
        BY <1>5, <2>1, <3>1, <3>2 DEF Truthful
    <2>3. CASE ~(x.status = "CLOSED" /\ x.window <= Window)
      BY <2>1, <2>3 DEF Truthful
    <2> QED
      BY <2>2, <2>3
  <1>7. Seen(fails', 0) >= 1
    BY <1>3, <1>5
  <1>8. told \in BreakerState
    BY <1>1, FailureCounted
  <1>9. Truthful(told, fails')
    <2>1. CASE told = Opened
      BY <2>1, DefaultTruthful
    <2>2. CASE s.window > Window /\ told.failures = 1 /\ told.window = 0
      BY <1>7, <2>2 DEF Truthful
    <2>3. CASE /\ s.window <= Window /\ told.status = s.status
               /\ told.failures = s.failures + 1 /\ told.window = s.window
      BY <1>1, <1>6, <2>3 DEF Truthful
    <2> QED
      BY <1>1, <2>1, <2>2, <2>3, FailureCounted
  <1>10. told.status = "OPEN" /\ s.status = "CLOSED" => Seen(fails', Window) >= Threshold
    <2> SUFFICES ASSUME told.status = "OPEN", s.status = "CLOSED"
                 PROVE  Seen(fails', Window) >= Threshold
      OBVIOUS
    <2>1. \A oldest \in 0 .. Window : Seen(fails', oldest) <= Seen(fails', Window)
      <3>1. ASSUME NEW oldest \in 0 .. Window
            PROVE  Seen(fails', oldest) <= Seen(fails', Window)
        <4>1. Failures(fails', oldest) \subseteq Failures(fails', Window)
          BY <1>3 DEF Failures
        <4> QED
          BY <1>3, <4>1, FailuresGrow DEF Seen
      <3> QED
        BY <3>1
    <2>2. CASE s.window > Window /\ Threshold = 1
      BY <1>3, <1>5, <1>7, <2>1, <2>2
    <2>3. CASE s.window <= Window /\ s.failures + 1 >= Threshold
      <3>1. s.window \in 0 .. Window /\ Seen(fails', s.window) >= s.failures + 1
            /\ s.failures \in 0 .. Threshold - 1
        BY <1>1, <1>6, <2>3
      <3>2. Seen(fails', s.window) \in Nat /\ Seen(fails', Window) \in Nat
        BY <1>3, <1>5, <3>1
      <3> QED
        BY <1>3, <2>1, <2>3, <3>1, <3>2
    <2>4. CASE told # Opened
      <3>1. told.status = s.status \/ told.status = Default.status
        BY <2>4 DEF AfterFailure
      <3> QED
        BY <3>1, StatesMade
    <2>5. CASE told = Opened
      <3>1. \/ s.window > Window /\ Threshold = 1
            \/ s.window <= Window /\ s.failures + 1 >= Threshold
        <4>1. s.failures + 1 # 0
          BY <1>1 DEF BreakerState
        <4> QED
          BY <1>1, <2>5, <4>1, StatesMade, FailureCounted
      <3> QED
        BY <2>2, <2>3, <3>1
    <2> QED
      BY <2>4, <2>5
  <1> HIDE DEF told, s
  <1>11. TypeOK'
    BY <1>1, <1>2, <1>4, <1>8, ToTyped DEF TypeOK, Labels, Counts
  <1>12. \A x \in Calls : state'[x] = IF x = c THEN told ELSE state[x]
    BY <1>1, <1>2 DEF TypeOK
  <1>13. Honest
    BY <1>10, <1>12 DEF Honest, s
  <1> QED
    BY <1>1, <1>2, <1>6, <1>9, <1>11, <1>12, <1>13 DEF IInv

LEMMA TickKeeps ==
  ASSUME IInv, Tick
  PROVE  IInv' /\ Honest
  <1>1. /\ TypeOK /\ fails \in Counts /\ store \in BreakerState
        /\ \A c \in Calls : state[c] \in BreakerState
    BY DEF IInv, TypeOK, Counts
  <1>2. /\ store' = Aged(store) /\ state' = [c \in Calls |-> Aged(state[c])]
        /\ fails' = [age \in 0 .. Window |-> IF age = 0 THEN 0 ELSE fails[age - 1]]
        /\ UNCHANGED pc
    BY DEF Tick
  <1>3. ASSUME NEW s \in BreakerState, Truthful(s, fails)
        PROVE  Truthful(Aged(s), fails')
    <2>1. /\ Aged(s).status = s.status /\ Aged(s).failures = s.failures
          /\ Aged(s).window = IF s.window <= Window THEN s.window + 1 ELSE s.window
          /\ s.window \in 0 .. Window + 1 /\ s.failures \in Nat /\ Window \in Nat
      BY AgedTyped, ConstantsAssumption DEF BreakerState
    <2>2. CASE s.window < Window
      <3>1. Seen(fails', s.window + 1) >= Seen(fails, s.window)
        BY <1>1, <1>2, <2>1, <2>2, FailuresAge DEF Seen
      <3>2. Seen(fails', s.window + 1) \in Nat /\ Seen(fails, s.window) \in Nat
        BY <2>1, FailuresFinite DEF Seen
      <3> QED
        BY <1>3, <2>1, <2>2, <3>1, <3>2 DEF Truthful
    <2>3. CASE s.window >= Window
      BY <2>1, <2>3 DEF Truthful
    <2> QED
      BY <2>1, <2>2, <2>3
  <1>4. TypeOK'
    <2>1. store' \in BreakerState /\ state' \in [Calls -> BreakerState]
      BY <1>1, <1>2, AgedTyped
    <2>2. lag' \in [Calls -> 0 .. MaxLag]
      <3>1. ASSUME NEW c \in Calls
            PROVE  (IF pc[c] \in {"idle", "running"} THEN 0 ELSE lag[c] + 1) \in 0 .. MaxLag
        <4>1. lag[c] \in 0 .. MaxLag /\ (pc[c] \notin {"idle", "running"} => lag[c] < MaxLag)
          BY <1>1 DEF Tick, TypeOK
        <4> QED
          BY <4>1, ConstantsAssumption
      <3> QED
        BY <3>1 DEF Tick
    <2>3. left' \in [Calls -> 0 .. Timeout]
      <3>1. ASSUME NEW c \in Calls
            PROVE  (IF pc[c] = "running" THEN left[c] - 1 ELSE 0) \in 0 .. Timeout
        <4>1. left[c] \in 0 .. Timeout /\ (pc[c] = "running" => left[c] > 0)
          BY <1>1 DEF Tick, TypeOK
        <4> QED
          BY <4>1, ConstantsAssumption
      <3> QED
        BY <3>1 DEF Tick
    <2>4. fails' \in Counts
      BY <1>1, <1>2, ConstantsAssumption DEF Counts
    <2> QED
      BY <1>1, <1>2, <2>1, <2>2, <2>3, <2>4 DEF TypeOK, Counts
  <1>5. Truthful(store', fails') /\ \A c \in Calls : Truthful(state'[c], fails')
    BY <1>1, <1>2, <1>3 DEF IInv
  <1>6. Honest
    BY <1>1, <1>2, AgedTyped DEF Honest
  <1> QED
    BY <1>4, <1>5, <1>6 DEF IInv

LEMMA ExpireKeeps ==
  ASSUME IInv, Expire
  PROVE  IInv' /\ Honest
  <1>1. store' = Default /\ UNCHANGED << pc, state, lag, left, fails >>
    BY DEF Expire
  <1> QED
    BY <1>1, StatesMade, DefaultTruthful DEF IInv, TypeOK, Honest

-----------------------------------------------------------------------------
(* The specification.                                                      *)

LEMMA InitEstablishes == Init => IInv
  <1> SUFFICES ASSUME Init PROVE IInv
    OBVIOUS
  <1>1. TypeOK
    BY StatesMade, ConstantsAssumption DEF Init, TypeOK
  <1> QED
    BY <1>1, DefaultTruthful DEF Init, IInv

LEMMA NextKeeps == IInv /\ [Next]_vars => IInv' /\ (Honest \/ UNCHANGED vars)
  <1> SUFFICES ASSUME IInv, [Next]_vars PROVE IInv' /\ (Honest \/ UNCHANGED vars)
    OBVIOUS
  <1>1. CASE Expire
    BY <1>1, ExpireKeeps
  <1>2. CASE Tick
    BY <1>2, TickKeeps
  <1>3. ASSUME NEW c \in Calls, Call(c) \/ Crash(c) PROVE IInv' /\ Honest
    <2>1. CASE Decide(c)
      <3>1. store \in BreakerState /\ Truthful(store, fails)
        BY DEF IInv, TypeOK
      <3> QED
        BY <2>1, <3>1, StatesMade, DefaultTruthful, DecideKeeps DEF Decide
    <2> QED
      BY <1>3, <2>1, BeginKeeps, WriteKeeps, SucceedKeeps, FailKeeps DEF Call
  <1>4. CASE UNCHANGED vars
    <2>1. UNCHANGED << store, pc, state, lag, left, fails >>
      BY <1>4 DEF vars
    <2> QED
      BY <1>4, <2>1 DEF IInv, TypeOK
  <1> QED
    BY <1>1, <1>2, <1>3, <1>4 DEF Next

\* The inductive invariant, of every reachable state.
THEOREM Invariance == Spec => []IInv
  BY InitEstablishes, NextKeeps, PTL DEF Spec

\* Every variable keeps its type: no state, stored or about to be, refuses calls
\* for longer than open_seconds or one trial, and no closed circuit keeps a
\* count that has reached the threshold.
THEOREM TypeCorrect == Spec => []TypeOK
  <1>1. IInv => TypeOK
    BY DEF IInv
  <1> QED
    BY <1>1, Invariance, PTL

\* "Opens with 5 failures in a 60 s window": however stale the states that calls
\* read and save, whatever Redis loses, the circuit is opened from CLOSED only
\* when the dependency did fail Threshold times within the window.
THEOREM OpensOnTruthHolds == Spec => OpensOnTruth
  <1>1. IInv /\ [Next]_vars =>
          [\A c \in Calls :
             state'[c].status = "OPEN" /\ state[c].status = "CLOSED" =>
               Cardinality(Failures(fails', Window)) >= Threshold]_vars
    BY NextKeeps DEF Honest, Seen
  <1> QED
    BY <1>1, Invariance, PTL DEF Spec, OpensOnTruth

-----------------------------------------------------------------------------
(* How long an event waits behind the breaker, once QStash is back.         *)

\* Since the recovery no call opens the circuit: what is left of an open state,
\* stored or on its way, was there at the recovery.
Fades(s) == s.status = "OPEN" => s.open <= Open - since \/ s.open = Past

\* Until so many batches have been served before the event.
Turns(k) == k * Schedule

\* Where an event may be, so many ticks after the recovery or its last setback: a
\* sweep that holds it ends in time; until then it is due, and its turn comes, in
\* time for a sweep.
InTime ==
  /\ sweep = "holds" => since + life <= Late /\ due <= Lease
  /\ sweep # "holds" /\ due > 0 =>
       since + due + (Schedule - 1) + Turns(ahead) + MaxDuration <= Late
  /\ sweep # "holds" /\ due = 0 => since + next + Turns(ahead) + MaxDuration <= Late

WaitingTypeOK ==
  /\ since \in Nat /\ due \in 0 .. Backoff /\ next \in 0 .. Schedule
  /\ ahead \in 0 .. Backlog /\ life \in 0 .. MaxDuration
  /\ evento \in {"ninguno", "PENDIENTE"}
  /\ evento = "ninguno" => since = 0

Waits ==
  evento = "PENDIENTE" =>
    /\ Fades(store) /\ \A c \in Calls : Fades(state[c])
    /\ InTime

RecoveryInv == WaitingTypeOK /\ Waits

\* The breaker does what it does in its own module.
LEMMA StepOfBreaker ==
  ASSUME [RecoveryNext]_all
  PROVE  [Next]_vars
  <1>1. Sweep \in Calls
    BY RecoveryAssumption
  <1>2. ASSUME NEW c \in Calls,
               Begin(c) \/ Decide(c) \/ ClaimTrial(c) \/ Succeed(c) \/ Save(c) \/ Crash(c)
        PROVE  Next
    BY <1>2 DEF Next, Call
  <1>3. DecideOn(Sweep, store) => Next
    BY <1>1, <1>2 DEF Decide
  <1>4. Others => Next
    BY <1>2 DEF Others, Next
  <1>5. SweepTries \/ SweepOtherEntry \/ SweepRefused \/ SweepGoesOn \/ SweepDelivers => Next
    BY <1>1, <1>2, <1>3 DEF SweepTries, SweepOtherEntry, SweepRefused, SweepGoesOn, SweepDelivers
  <1>6. SweepDies => [Next]_vars
    BY <1>1, <1>2 DEF SweepDies
  <1>7. SweepElsewhere \/ SweepLeavesOut \/ SweepClaims \/ SweepMissed \/ SweepDone => UNCHANGED vars
    BY DEF SweepElsewhere, SweepLeavesOut, SweepClaims, SweepMissed, SweepDone, Invoked
  <1>8. Recover => UNCHANGED vars
    BY DEF Recover
  <1>9. Wait => Next
    BY DEF Wait, Next
  <1> QED
    BY <1>4, <1>5, <1>6, <1>7, <1>8, <1>9 DEF RecoveryNext, all

\* The breaker that an event waits behind is the breaker.
THEOREM RecoveryIsBreaker == RecoverySpec => Spec
  <1>1. RecoveryInit => Init
    BY DEF RecoveryInit
  <1> QED
    BY <1>1, StepOfBreaker, PTL DEF RecoverySpec, Spec

\* A step in which no call fails, nor time passes.
Calm ==
  /\ store' = store \/ store' = Default \/ \E c \in Calls : store' = state[c]
  /\ \A c \in Calls : state'[c] = state[c] \/ state'[c].status # "OPEN"

LEMMA CalmFades ==
  ASSUME TypeOK, Calm, since \in Nat, since' = since \/ since' = 0,
         Fades(store), \A c \in Calls : Fades(state[c])
  PROVE  Fades(store)' /\ \A c \in Calls : Fades(state[c])'
  <1>1. Default.status # "OPEN"
    BY StatesMade
  <1>2. ASSUME NEW s \in BreakerState, s.status = "OPEN" => s.open <= Open - since \/ s.open = Past
        PROVE  s.status = "OPEN" => s.open <= Open - since' \/ s.open = Past
    BY <1>2, ConstantsAssumption DEF BreakerState, Past
  <1>3. store \in BreakerState /\ \A c \in Calls : state[c] \in BreakerState
    BY DEF TypeOK
  <1>4. \A c \in Calls : Fades(state[c])'
    BY <1>2, <1>3 DEF Calm, Fades
  <1>5. Fades(store)'
    BY <1>1, <1>2, <1>3 DEF Calm, Fades
  <1> QED
    BY <1>4, <1>5

LEMMA CalmCall ==
  ASSUME TypeOK, NEW c \in Calls,
         Begin(c) \/ Decide(c) \/ ClaimTrial(c) \/ Succeed(c) \/ Save(c) \/ Crash(c)
  PROVE  Calm
  <1>1. state \in [Calls -> BreakerState] /\ store \in BreakerState /\ lag[c] \in 0 .. MaxLag
    BY DEF TypeOK
  <1>2. Default \in BreakerState /\ Default.status = "CLOSED"
    BY StatesMade
  <1>3. \A s \in BreakerState : Trial(s, lag[c]).status = "HALF_OPEN"
    BY <1>1, TrialTyped
  <1>4. \A s \in BreakerState : DecideOn(c, s) =>
          /\ UNCHANGED store
          /\ \/ s.status = "CLOSED" /\ Holding(c, s)
             \/ \E t : Holding(c, t) /\ t.status # "OPEN"
    BY <1>2, <1>3 DEF DecideOn, End
  <1>5. \/ UNCHANGED state
        \/ \E t : Holding(c, t) /\ t.status # "OPEN"
    BY <1>1, <1>2, <1>4 DEF Begin, Decide, ClaimTrial, Succeed, Save, Crash, End
  <1>6. \A x \in Calls : state'[x] = state[x] \/ state'[x].status # "OPEN"
    BY <1>1, <1>5 DEF Holding
  <1>7. store' = store \/ store' = state[c]
    BY <1>1, <1>2, <1>4 DEF Begin, Decide, ClaimTrial, Succeed, Save, Crash, Write
  <1> QED
    BY <1>6, <1>7 DEF Calm

\* The numbers an event waits by.
LEMMA Numbers ==
  /\ Open \in Nat \ {0} /\ MaxLag \in Nat \ {0} /\ Timeout \in Nat \ {0}
  /\ Backoff \in Nat \ {0} /\ Schedule \in Nat \ {0} /\ Past = - MaxLag
  /\ Lease \in Nat \ {0} /\ MaxDuration \in Nat \ {0} /\ Limit \in Nat \ {0} /\ Backlog \in Nat
  /\ Lease <= Backoff /\ MaxDuration <= Schedule /\ Sweep \in Calls
  BY ConstantsAssumption, RecoveryAssumption DEF Past

\* A batch takes a period; those that may be ahead are in the bound.
LEMMA TurnsTaken ==
  ASSUME NEW k \in 0 .. Backlog
  PROVE  /\ Turns(k) \in Nat /\ Turns(k) <= Turns(Backlog) /\ Turns(0) = 0
         /\ k > 0 => Turns(k - 1) + Schedule = Turns(k)
  <1>1. k \in Nat /\ Backlog - k \in Nat /\ Schedule \in Nat
    BY Numbers
  <1>2. Turns(k) \in Nat /\ Turns(0) = 0
    BY <1>1 DEF Turns
  <1>3. (Backlog - k) * Schedule \in Nat
    BY <1>1
  <1>4. Turns(Backlog) = Turns(k) + (Backlog - k) * Schedule
    BY <1>1, Numbers DEF Turns
  <1>5. (k - 1) * Schedule = k * Schedule - Schedule
    BY <1>1
  <1>6. Turns(k) <= Turns(Backlog)
    <2>1. ASSUME NEW x \in Nat, NEW y \in Nat, NEW z, z = x + y
          PROVE  x <= z
      BY <2>1
    <2> QED
      BY <1>2, <1>3, <1>4, <2>1
  <1>7. k > 0 => Turns(k - 1) + Schedule = Turns(k)
    <2>1. ASSUME NEW x \in Nat, NEW s \in Nat, NEW z, z = x - s
          PROVE  z + s = x
      BY <2>1
    <2>2. Turns(k - 1) = Turns(k) - Schedule
      BY <1>5 DEF Turns
    <2> QED
      BY <1>1, <1>2, <2>1, <2>2
  <1> QED
    BY <1>2, <1>6, <1>7

LEMMA LateIs ==
  /\ Turns(Backlog) \in Nat
  /\ Late = Open + MaxLag + Backoff + Schedule + MaxDuration - 2 + Turns(Backlog)
  <1>1. Turns(Backlog) \in Nat
    BY Numbers, TurnsTaken
  <1> QED
    BY <1>1, Numbers DEF Late, Turns

\* A row due in d, behind k batches, of a schedule that comes round in n: what is
\* left of the bound is enough for it, no later than the open circuit refuses.
LEMMA Anew ==
  ASSUME NEW d \in 0 .. Backoff, NEW n \in 0 .. Schedule, NEW k \in 0 .. Backlog,
         NEW t \in Nat, t <= (Open - 1) + MaxLag
  PROVE  /\ t + d + (Schedule - 1) + Turns(k) + MaxDuration <= Late
         /\ t + n + Turns(k) + MaxDuration <= Late
  <1>1. Turns(k) \in Nat /\ Turns(k) <= Turns(Backlog)
    BY TurnsTaken
  <1> QED
    BY <1>1, Numbers, LateIs

\* So an event that no sweep holds is in time after its last setback.
LEMMA AnewInTime ==
  ASSUME WaitingTypeOK', since' <= (Open - 1) + MaxLag, sweep' # "holds"
  PROVE  InTime'
  <1>1. /\ due' \in 0 .. Backoff /\ next' \in 0 .. Schedule /\ ahead' \in 0 .. Backlog
        /\ since' \in Nat
    BY DEF WaitingTypeOK
  <1>2. /\ since' + due' + (Schedule - 1) + Turns(ahead') + MaxDuration <= Late
        /\ since' + next' + Turns(ahead') + MaxDuration <= Late
    BY <1>1, Anew
  <1>3. Turns(ahead)' = Turns(ahead')
    BY DEF Turns
  <1> QED
    BY <1>2, <1>3 DEF InTime

LEMMA SoonerThanLate ==
  ASSUME NEW x \in Int, x <= MaxDuration
  PROVE  0 <= (Open - 1) + MaxLag /\ x <= Late
  BY Numbers, LateIs

\* At the recovery the row is due within a backoff, the schedule within a period.
LEMMA RecoverKeeps ==
  ASSUME TypeOK, RecoveryInv, Recover
  PROVE  RecoveryInv'
  <1>1. /\ due' \in 0 .. Backoff /\ next' \in 0 .. Schedule /\ evento' = "PENDIENTE"
        /\ UNCHANGED << vars, since >> /\ since = 0
        /\ life' \in 0 .. MaxDuration /\ ahead' \in 0 .. Backlog
        /\ sweep' = "holds" => due' <= Lease
    BY Numbers DEF Recover, RecoveryInv, WaitingTypeOK
  <1>2. UNCHANGED << store, pc, state, lag, left, fails >>
    BY <1>1 DEF vars
  <1>3. WaitingTypeOK'
    BY <1>1 DEF RecoveryInv, WaitingTypeOK
  <1>4. \A s \in BreakerState : Fades(s)'
    BY <1>1, Numbers DEF Fades, BreakerState
  <1>5. Fades(store)' /\ \A c \in Calls : Fades(state[c])'
    BY <1>2, <1>4 DEF TypeOK, Fades
  <1>6. InTime'
    <2>1. CASE sweep' = "holds"
      <3>1. 0 + life' <= Late
        BY <1>1, SoonerThanLate, Numbers
      <3> QED
        BY <1>1, <2>1, <3>1 DEF InTime
    <2>2. CASE sweep' # "holds"
      BY <1>1, <1>3, <2>2, AnewInTime, SoonerThanLate, Numbers
    <2> QED
      BY <2>1, <2>2
  <1> QED
    BY <1>3, <1>5, <1>6 DEF RecoveryInv, Waits

\* What the schedule starts, or fails to start, changes nothing of the breaker.
LEMMA ScheduledKeeps ==
  ASSUME TypeOK, RecoveryInv, SweepElsewhere \/ SweepLeavesOut \/ SweepClaims \/ SweepMissed
  PROVE  RecoveryInv'
  <1>1. /\ next = 0 /\ next' = Schedule /\ sweep = "none" /\ UNCHANGED << vars, evento >>
        /\ evento = "PENDIENTE" /\ (since' = since \/ since' = 0)
    BY DEF SweepElsewhere, SweepLeavesOut, SweepClaims, SweepMissed, Invoked, Scheduled
  <1>2. /\ UNCHANGED << store, pc, state, lag, left, fails >>
        /\ since \in Nat /\ due \in 0 .. Backoff /\ ahead \in 0 .. Backlog
        /\ life \in 0 .. MaxDuration
    BY <1>1 DEF vars, RecoveryInv, WaitingTypeOK
  <1>3. /\ due' \in 0 .. Backoff /\ ahead' \in 0 .. Backlog /\ life' \in 0 .. MaxDuration
        /\ since' \in Nat
    BY <1>1, <1>2, Numbers DEF SweepElsewhere, SweepLeavesOut, SweepClaims, SweepMissed, Invoked
  <1>4. WaitingTypeOK'
    BY <1>1, <1>3, Numbers DEF RecoveryInv, WaitingTypeOK
  <1>5. Fades(store)' /\ \A c \in Calls : Fades(state[c])'
    <2>1. Calm
      BY <1>2 DEF Calm
    <2> QED
      BY <1>1, <1>2, <2>1, CalmFades DEF RecoveryInv, Waits
  <1>6. InTime
    BY <1>1 DEF RecoveryInv, Waits
  <1>7. Turns(ahead) \in Nat /\ Turns(ahead)' = Turns(ahead')
    BY <1>2, TurnsTaken DEF Turns
  <1>8. InTime'
    <2>1. CASE SweepElsewhere
      <3>1. due > 0 /\ due' = due /\ ahead' = ahead /\ since' = since /\ sweep' = "other"
        BY <2>1 DEF SweepElsewhere, Invoked
      <3> QED
        BY <1>1, <1>6, <1>7, <3>1 DEF InTime
    <2>2. CASE SweepLeavesOut
      <3>1. /\ due = 0 /\ due' = 0 /\ ahead > 0 /\ ahead' = ahead - 1 /\ since' = since
            /\ sweep' = "other"
        BY <2>2 DEF SweepLeavesOut, Invoked
      <3>2. since + 0 + Turns(ahead) + MaxDuration <= Late
        BY <1>1, <1>6, <3>1 DEF InTime
      <3>3. Turns(ahead - 1) + Schedule = Turns(ahead)
        BY <1>2, <3>1, TurnsTaken
      <3>4. since + Schedule + Turns(ahead - 1) + MaxDuration <= Late
        <4>1. Turns(ahead - 1) \in Nat
          <5>1. ahead - 1 \in 0 .. Backlog
            BY <1>2, <3>1, Numbers
          <5> QED
            BY <5>1, TurnsTaken
        <4> QED
          BY <1>2, <1>7, <3>2, <3>3, <4>1, Numbers, LateIs
      <3> QED
        BY <1>1, <1>7, <3>1, <3>4 DEF InTime
    <2>3. CASE SweepClaims
      <3>1. due = 0 /\ due' = Lease /\ since' = since /\ sweep' = "holds" /\ life' = MaxDuration
        BY <2>3 DEF SweepClaims, Invoked
      <3>2. since + 0 + Turns(ahead) + MaxDuration <= Late
        BY <1>1, <1>6, <3>1 DEF InTime
      <3>3. since + MaxDuration <= Late
        BY <1>2, <1>7, <3>2, Numbers, LateIs
      <3> QED
        BY <3>1, <3>3, Numbers DEF InTime
    <2>4. CASE SweepMissed
      <3>1. since' = 0 /\ sweep' = "none"
        BY <1>1, <2>4 DEF SweepMissed
      <3> QED
        BY <1>4, <3>1, AnewInTime, SoonerThanLate, Numbers
    <2> QED
      BY <2>1, <2>2, <2>3, <2>4
  <1> QED
    BY <1>4, <1>5, <1>8 DEF RecoveryInv, Waits

\* Calls that go on while the event waits where it is.
LEMMA CallsKeep ==
  ASSUME TypeOK, RecoveryInv, evento = "PENDIENTE", Calm,
         UNCHANGED << evento, since, due, next, ahead, sweep, life >>
  PROVE  RecoveryInv'
  <1>1. Fades(store)' /\ \A c \in Calls : Fades(state[c])'
    BY CalmFades DEF RecoveryInv, Waits, WaitingTypeOK
  <1>2. InTime'
    BY DEF RecoveryInv, Waits, InTime, Turns
  <1> QED
    BY <1>1, <1>2 DEF RecoveryInv, Waits, WaitingTypeOK

\* A circuit that is still open refuses only attempts that began before Open was
\* over.
LEMMA RefusedKeeps ==
  ASSUME TypeOK, RecoveryInv, SweepRefused
  PROVE  RecoveryInv'
  <1>1. /\ Sweep \in Calls /\ DecideOn(Sweep, store) /\ pc'[Sweep] = "idle"
        /\ due' \in 1 .. Backoff /\ ahead' \in 0 .. Backlog /\ sweep' = "other"
        /\ since' = (IF store.status = "HALF_OPEN" THEN 0 ELSE since)
        /\ UNCHANGED << evento, next, life >> /\ evento = "PENDIENTE"
    BY Numbers DEF SweepRefused, Fallido, ItsTurn
  <1>2. /\ lag[Sweep] \in 0 .. MaxLag /\ store \in BreakerState /\ since \in Nat
        /\ pc \in [Calls -> Labels]
    BY <1>1 DEF TypeOK, RecoveryInv, WaitingTypeOK, Labels
  <1>3. Refuses(store, lag[Sweep])
    <2>1. ASSUME NEW l, To(Sweep, l)
          PROVE  l = "idle"
      BY <1>1, <1>2, <2>1 DEF To
    <2> QED
      BY <1>1, <2>1 DEF DecideOn
  <1>4. WaitingTypeOK'
    BY <1>1, <1>2, Numbers DEF RecoveryInv, WaitingTypeOK
  <1>5. Fades(store)' /\ \A c \in Calls : Fades(state[c])'
    <2>1. Calm
      BY <1>1, CalmCall DEF Decide
    <2> QED
      BY <1>1, <1>2, <2>1, CalmFades DEF RecoveryInv, Waits
  <1>6. since' <= (Open - 1) + MaxLag
    <2>1. CASE store.status = "HALF_OPEN"
      BY <1>1, <2>1, SoonerThanLate, Numbers
    <2>2. CASE store.status # "HALF_OPEN"
      <3>1. store.status = "OPEN" /\ store.open + lag[Sweep] > 0
        BY <1>3, <2>2 DEF Refuses
      <3>2. store.open <= Open - since \/ store.open = Past
        BY <1>1, <3>1 DEF RecoveryInv, Waits, Fades
      <3>3. store.open \in Int
        BY <1>2, Numbers DEF BreakerState
      <3> QED
        BY <1>1, <1>2, <2>2, <3>1, <3>2, <3>3, Numbers
    <2> QED
      BY <2>1, <2>2
  <1>7. InTime'
    BY <1>1, <1>4, <1>6, AnewInTime
  <1> QED
    BY <1>4, <1>5, <1>7 DEF RecoveryInv, Waits

\* A sweep that ends leaves an event that was another's as it was; one that dies
\* with the event leaves it leased.
LEMMA SweepOverKeeps ==
  ASSUME TypeOK, RecoveryInv, SweepDone \/ SweepDies
  PROVE  RecoveryInv'
  <1>1. /\ evento = "PENDIENTE" /\ UNCHANGED << evento, due, next >>
        /\ sweep' = "none" /\ life' = 0
        /\ \/ sweep # "holds" /\ UNCHANGED << since, ahead >>
           \/ sweep = "holds" /\ since' = 0 /\ ahead' \in 0 .. Backlog
    BY DEF SweepDone, SweepDies, SweepOver, Sweeping
  <1>2. WaitingTypeOK'
    BY <1>1, Numbers DEF RecoveryInv, WaitingTypeOK
  <1>3. Calm
    <2>1. UNCHANGED vars => Calm
      BY DEF vars, Calm
    <2>2. Crash(Sweep) => Calm
      BY CalmCall, Numbers
    <2> QED
      BY <2>1, <2>2 DEF SweepDone, SweepDies
  <1>4. Fades(store)' /\ \A c \in Calls : Fades(state[c])'
    BY <1>1, <1>3, CalmFades DEF RecoveryInv, Waits, WaitingTypeOK
  <1>5. InTime'
    <2>1. CASE sweep # "holds"
      BY <1>1, <2>1 DEF RecoveryInv, Waits, InTime, Turns
    <2>2. CASE sweep = "holds"
      BY <1>1, <1>2, <2>2, AnewInTime, SoonerThanLate, Numbers
    <2> QED
      BY <2>1, <2>2
  <1> QED
    BY <1>2, <1>4, <1>5 DEF RecoveryInv, Waits

\* A tick brings the row, the schedule and the end of the sweep nearer.
LEMMA WaitKeeps ==
  ASSUME TypeOK, RecoveryInv, Wait
  PROVE  RecoveryInv'
  <1>1. /\ Tick /\ evento = "PENDIENTE" /\ next > 0 /\ UNCHANGED << evento, ahead, sweep >>
        /\ since' = (IF since <= Late THEN since + 1 ELSE since)
        /\ next' = next - 1 /\ (sweep # "none" => life > 0)
    BY DEF Wait
  <1>2. /\ since \in Nat /\ due \in 0 .. Backoff /\ next \in 0 .. Schedule
        /\ ahead \in 0 .. Backlog /\ life \in 0 .. MaxDuration
        /\ due' = (IF due > 0 THEN due - 1 ELSE 0) /\ life' = (IF life > 0 THEN life - 1 ELSE 0)
    BY DEF RecoveryInv, WaitingTypeOK, Wait, Nearest
  <1>3. WaitingTypeOK'
    BY <1>1, <1>2, Numbers DEF RecoveryInv, WaitingTypeOK
  <1>4. ASSUME NEW s \in BreakerState, Fades(s), NEW t, t = Aged(s)
        PROVE  Fades(t)'
    <2>1. t.status = s.status /\ t.open = Nearer(s.open) /\ s.open \in Past .. Open
      BY <1>4 DEF Aged, BreakerState
    <2> QED
      BY <1>1, <1>2, <1>4, <2>1, Numbers DEF Fades, Nearer
  <1>5. Fades(store)' /\ \A c \in Calls : Fades(state[c])'
    <2>1. /\ store' = Aged(store) /\ \A c \in Calls : state'[c] = Aged(state[c])
          /\ store \in BreakerState /\ \A c \in Calls : state[c] \in BreakerState
      BY <1>1 DEF Tick, TypeOK
    <2>2. Fades(store) /\ \A c \in Calls : Fades(state[c])
      BY <1>1 DEF RecoveryInv, Waits
    <2>3. \A s \in BreakerState : Fades(s) => \A t : t = Aged(s) => Fades(t)'
      BY <1>4
    <2> QED
      BY <2>1, <2>2, <2>3 DEF Fades
  <1>6. InTime /\ Late \in Nat
    BY <1>1, Numbers, LateIs DEF RecoveryInv, Waits
  <1>7. Turns(ahead) \in Nat /\ Turns(ahead)' = Turns(ahead)
    BY <1>1, <1>2, TurnsTaken DEF Turns
  <1>8. InTime'
    <2>1. CASE sweep = "holds"
      <3>1. since + life <= Late /\ due <= Lease /\ life > 0
        BY <1>1, <1>6, <2>1 DEF InTime
      <3>2. since' + life' <= Late /\ due' <= Lease
        BY <1>1, <1>2, <1>6, <3>1, Numbers
      <3> QED
        BY <1>1, <2>1, <3>2 DEF InTime
    <2>2. CASE sweep # "holds"
      <3>1. IF due > 0 THEN since + due + (Schedule - 1) + Turns(ahead) + MaxDuration <= Late
                       ELSE since + next + Turns(ahead) + MaxDuration <= Late
        BY <1>2, <1>6, <2>2, Numbers DEF InTime
      <3>2. since <= Late
        BY <1>2, <1>6, <1>7, <3>1, Numbers
      <3>3. since' = since + 1
        BY <1>1, <3>2
      <3>4. IF due' > 0 THEN since' + due' + (Schedule - 1) + Turns(ahead) + MaxDuration <= Late
                        ELSE since' + next' + Turns(ahead) + MaxDuration <= Late
        BY <1>1, <1>2, <1>6, <1>7, <3>1, <3>3, Numbers
      <3> QED
        BY <1>1, <1>2, <1>7, <2>2, <3>4 DEF InTime
    <2> QED
      BY <2>1, <2>2
  <1> QED
    BY <1>3, <1>5, <1>8 DEF RecoveryInv, Waits

LEMMA RecoveryNextKeeps ==
  ASSUME TypeOK, RecoveryInv, [RecoveryNext]_all
  PROVE  RecoveryInv'
  <1>1. ASSUME UNCHANGED waiting, evento # "PENDIENTE"
        PROVE  RecoveryInv'
    <2>1. UNCHANGED << evento, since, due, next, ahead, life >>
      BY <1>1 DEF waiting
    <2> QED
      BY <1>1, <2>1 DEF RecoveryInv, WaitingTypeOK, Waits
  <1>2. CASE SweepDelivers
    <2>1. /\ evento' = "ninguno" /\ since' = 0 /\ due' = 0 /\ next' = 0 /\ ahead' = 0
          /\ life' = 0
      BY <1>2 DEF SweepDelivers
    <2> QED
      BY <2>1, Numbers DEF RecoveryInv, WaitingTypeOK, Waits
  <1>3. CASE UNCHANGED all
    <2>1. /\ UNCHANGED << store, pc, state, lag, left, fails >>
          /\ UNCHANGED << evento, since, due, next, ahead, sweep, turn, life >>
      BY <1>3 DEF all, vars, waiting
    <2> QED
      BY <2>1 DEF RecoveryInv, WaitingTypeOK, Waits, InTime, Turns, Fades
  <1>4. CASE SweepTries \/ SweepOtherEntry \/ SweepGoesOn
    <2>1. /\ evento = "PENDIENTE"
          /\ Begin(Sweep) \/ Decide(Sweep) \/ ClaimTrial(Sweep) \/ Succeed(Sweep) \/ Save(Sweep)
          /\ UNCHANGED << evento, since, due, next, ahead, sweep, life >>
      BY <1>4 DEF SweepTries, SweepOtherEntry, SweepGoesOn, Sweeping, ItsTurn, waiting
    <2> QED
      BY <2>1, CalmCall, CallsKeep, Numbers
  <1>5. CASE Others
    <2>1. evento = "PENDIENTE" /\ UNCHANGED << evento, since, due, next, ahead, sweep, life >>
      BY <1>5 DEF Others, waiting
    <2>2. Calm
      <3>1. CASE Expire
        BY <3>1 DEF Expire, Calm
      <3>2. ASSUME NEW c \in Calls \ {Sweep},
                   Begin(c) \/ Decide(c) \/ ClaimTrial(c) \/ Succeed(c) \/ Save(c) \/ Crash(c)
            PROVE  Calm
        BY <3>2, CalmCall
      <3> QED
        BY <1>5, <3>1, <3>2 DEF Others
    <2> QED
      BY <2>1, <2>2, CallsKeep
  <1>6. CASE evento # "PENDIENTE" /\ Next /\ UNCHANGED waiting
    BY <1>1, <1>6
  <1> QED
    BY <1>2, <1>3, <1>4, <1>5, <1>6, RecoverKeeps, ScheduledKeeps, RefusedKeeps, SweepOverKeeps,
       WaitKeeps DEF RecoveryNext

\* SC-006 and domain/events.py:17: once QStash is back, an event is delivered within
\* what the open circuit, one backoff, one period of the schedule and one more for
\* every full batch ahead, and the life of a sweep take, counted from the recovery
\* or the last setback: for any values of these, whatever the circuit was left in,
\* whoever else uses it and is killed, and wherever the event stands in its batch.
THEOREM LateOnlyAfterASetbackHolds == RecoverySpec => []LateOnlyAfterASetback
  <1>1. RecoveryInit => RecoveryInv
    BY Numbers DEF RecoveryInit, RecoveryInv, WaitingTypeOK, Waits
  <1>2. TypeOK /\ RecoveryInv /\ [RecoveryNext]_all => RecoveryInv'
    BY RecoveryNextKeeps
  <1>3. RecoveryInv => LateOnlyAfterASetback
    <2> SUFFICES ASSUME RecoveryInv, evento = "PENDIENTE"
                 PROVE  since <= Late
      BY DEF LateOnlyAfterASetback
    <2>1. /\ InTime /\ since \in Nat /\ due \in 0 .. Backoff /\ next \in 0 .. Schedule
          /\ ahead \in 0 .. Backlog /\ life \in 0 .. MaxDuration
      BY DEF RecoveryInv, WaitingTypeOK, Waits
    <2>2. Turns(ahead) \in Nat /\ Late \in Int
      BY <2>1, TurnsTaken, Numbers, LateIs
    <2>3. CASE sweep = "holds"
      <3>1. since + life <= Late
        BY <2>1, <2>3 DEF InTime
      <3> QED
        BY <2>1, <2>2, <3>1
    <2>4. CASE sweep # "holds"
      <3>1. IF due > 0 THEN since + due + (Schedule - 1) + Turns(ahead) + MaxDuration <= Late
                       ELSE since + next + Turns(ahead) + MaxDuration <= Late
        BY <2>1, <2>4 DEF InTime
      <3> QED
        BY <2>1, <2>2, <3>1, Numbers
    <2> QED
      BY <2>3, <2>4
  <1> QED
    BY <1>1, <1>2, <1>3, RecoveryIsBreaker, TypeCorrect, PTL DEF RecoverySpec
=============================================================================
