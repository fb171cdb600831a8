---------------------- MODULE OutboxDispatcherProofs ----------------------
(***************************************************************************)
(* What OutboxDispatcher guarantees for any number of events, sweepers and *)
(* requests, and any settings in which a lease is no shorter than an       *)
(* invocation. A held row is due only after its holder is dead, so nobody  *)
(* else claims it meanwhile; everything else follows from that.            *)
(***************************************************************************)
EXTENDS OutboxDispatcher, FiniteSetTheorems, SequenceTheorems, TLAPS

Working == {"publish", "load", "flush"}

\* Where an invocation stands: alive while it has ticks left, a batch of
\* different events while it works on them, and a success to record only for
\* an event QStash took.
WorkOK(d) ==
  /\ pc[d] = "idle" <=> life[d] = 0
  /\ pc[d] = "idle" => lag[d] = 0
  /\ pc[d] = "claim" => life[d] + lag[d] <= MaxDuration
  /\ batch[d] # << >> <=> pc[d] \in Working
  /\ \A i, j \in 1 .. Len(batch[d]) : batch[d][i].id = batch[d][j].id => i = j
  /\ pc[d] \in {"load", "flush"} =>
       /\ outcome[d].estado \in {"PENDIENTE", "ENTREGADO"}
       /\ outcome[d].estado = "ENTREGADO" => Current(d) \in accepted
  /\ pc[d] = "flush" => loaded[d].estado = "PENDIENTE"

\* The row of an entry that d holds, but for the lease, is the one it read.
HeldOK(d) ==
  \A i \in 1 .. Len(batch[d]) :
    LET x == row[batch[d][i].id]
        entry == batch[d][i].entry
    IN /\ x.estado = "PENDIENTE" /\ entry.estado = "PENDIENTE"
       /\ x.intentos = entry.intentos
       /\ x.due >= life[d]

Committed == {e \in Events : row[e].estado # "AUSENTE"}

IInv ==
  /\ TypeOK
  /\ IsFiniteSet(Committed)
  /\ \A d \in Dispatchers : WorkOK(d) /\ HeldOK(d)
  /\ LeaseIsExclusive

-----------------------------------------------------------------------------
(* The operators.                                                          *)

LEMMA PowerIsPositive ==
  ASSUME NEW n \in Nat
  PROVE  2 ^ n \in Nat /\ 2 ^ n > 0
  <1>1. IsFiniteSet(1 .. n) /\ Cardinality(1 .. n) = n
    BY FS_Interval
  <1>2. IsFiniteSet(SUBSET (1 .. n)) /\ Cardinality(SUBSET (1 .. n)) = 2 ^ n
    BY <1>1, FS_SUBSET
  <1>3. 2 ^ n \in Nat
    BY <1>2, FS_CardinalityType
  <1>4. SUBSET (1 .. n) # {}
    OBVIOUS
  <1>5. 2 ^ n # 0
    BY <1>2, <1>4, FS_EmptySet
  <1> QED
    BY <1>3, <1>5

\* A failed row waits a while, and no longer than the cap.
LEMMA BackoffBounded ==
  ASSUME NEW n \in Nat
  PROVE  BackoffSeconds(n) \in 1 .. MaxBackoff
  BY PowerIsPositive, ConstantsAssumption DEF BackoffSeconds, Min2

LEMMA DeadlineBounds ==
  /\ 0 \in Deadline
  /\ \A t \in 1 .. MaxBackoff : t \in Deadline
  /\ \A t \in 0 .. MaxDuration : Lease - t \in Deadline
  /\ \A t \in Deadline : t \in Int /\ Sooner(t) \in Deadline
  BY ConstantsAssumption, LeaseAssumption DEF Deadline, Sooner

LEMMA RowsMade ==
  /\ NoRow \in Rows /\ NoRow.estado = "AUSENTE" /\ Pendiente \in Rows
  /\ Pendiente.estado = "PENDIENTE"
  /\ \A x \in Rows : /\ Entregado(x) \in Rows /\ Entregado(x).estado = "ENTREGADO"
                     /\ Fallido(x) \in Rows /\ Fallido(x).estado = x.estado
                     /\ Aged(x) \in Rows /\ Aged(x).estado = x.estado
                     /\ Aged(x).intentos = x.intentos /\ Aged(x).due = Sooner(x.due)
  <1>1. /\ NoRow \in Rows /\ NoRow.estado = "AUSENTE" /\ Pendiente \in Rows
        /\ Pendiente.estado = "PENDIENTE"
    BY DeadlineBounds, ConstantsAssumption DEF NoRow, Pendiente, Entry, Rows
  <1>2. ASSUME NEW x \in Rows
        PROVE  /\ Entregado(x) \in Rows /\ Entregado(x).estado = "ENTREGADO"
               /\ Fallido(x) \in Rows /\ Fallido(x).estado = x.estado
               /\ Aged(x) \in Rows /\ Aged(x).estado = x.estado
               /\ Aged(x).intentos = x.intentos /\ Aged(x).due = Sooner(x.due)
    <2>1. Entregado(x) \in Rows /\ Entregado(x).estado = "ENTREGADO"
      BY DeadlineBounds DEF Entregado, Rows
    <2>2. Fallido(x) \in Rows /\ Fallido(x).estado = x.estado
      <3> DEFINE n == Min2(x.intentos + 1, MaxIntentos)
      <3>1. n \in 0 .. MaxIntentos
        BY ConstantsAssumption DEF Min2, Rows
      <3>2. BackoffSeconds(n) \in Deadline
        BY <3>1, BackoffBounded, DeadlineBounds
      <3> HIDE DEF n
      <3>3. Fallido(x) = [x EXCEPT !.intentos = n, !.due = BackoffSeconds(n)]
        BY DEF Fallido, n
      <3> QED
        BY <3>1, <3>2, <3>3 DEF Rows
    <2>3. /\ Aged(x) \in Rows /\ Aged(x).estado = x.estado
          /\ Aged(x).intentos = x.intentos /\ Aged(x).due = Sooner(x.due)
      BY DeadlineBounds DEF Aged, Rows
    <2> QED
      BY <2>1, <2>2, <2>3
  <1> QED
    BY <1>1, <1>2

\* What is left of a batch, entry by entry.
LEMMA TailOfBatch ==
  ASSUME NEW q \in Seq(Item), Len(q) > 0, Len(q) # 1
  PROVE  /\ Tail(q) \in Seq(Item) /\ Len(Tail(q)) = Len(q) - 1 /\ Tail(q) # << >>
         /\ \A i \in 1 .. Len(Tail(q)) : i + 1 \in 1 .. Len(q) /\ Tail(q)[i] = q[i + 1]
  <1>1. q # << >> /\ Len(q) \in Nat
    BY EmptySeq, LenProperties
  <1>2. /\ Tail(q) \in Seq(Item) /\ Len(Tail(q)) = Len(q) - 1
        /\ \A i \in 1 .. Len(Tail(q)) : Tail(q)[i] = q[i + 1]
    BY <1>1, HeadTailProperties
  <1>3. Len(Tail(q)) # Len(<< >>)
    BY <1>1, <1>2
  <1>4. Tail(q) # << >>
    BY <1>3
  <1> QED
    BY <1>1, <1>2, <1>4

-----------------------------------------------------------------------------
(* One step of one invocation.                                             *)

StepOf(d) ==
  \A f \in Dispatchers \ {d} :
    /\ pc'[f] = pc[f] /\ life'[f] = life[f] /\ ids'[f] = ids[f] /\ lag'[f] = lag[f]
    /\ batch'[f] = batch[f] /\ outcome'[f] = outcome[f] /\ loaded'[f] = loaded[f]

\* d changes no row that another holds, and takes none.
Aside(d) ==
  \A f \in Dispatchers \ {d}, e \in Events : Holds(f, e) =>
    row'[e] = row[e] /\ ~Holds(d, e)'

LEMMA OneStep ==
  ASSUME IInv, NEW d \in Dispatchers, StepOf(d), Aside(d), accepted \subseteq accepted',
         TypeOK', IsFiniteSet(Committed'), WorkOK(d)', HeldOK(d)'
  PROVE  IInv'
  <1>1. ASSUME NEW f \in Dispatchers \ {d}
        PROVE  WorkOK(f)' /\ HeldOK(f)'
    <2>1. WorkOK(f) /\ HeldOK(f) /\ batch[f] \in Seq(Item)
      BY DEF IInv, TypeOK
    <2>2. WorkOK(f)'
      BY <2>1 DEF StepOf, WorkOK, Current
    <2>3. ASSUME NEW i \in 1 .. Len(batch[f])
          PROVE  row'[batch[f][i].id] = row[batch[f][i].id]
      <3>1. batch[f][i] \in Item
        BY <2>1, <2>3, ElementOfSeq
      <3>2. batch[f][i].id \in Events
        BY <3>1 DEF Item
      <3>3. Holds(f, batch[f][i].id)
        BY DEF Holds
      <3> QED
        BY <3>2, <3>3 DEF Aside
    <2>4. HeldOK(f)'
      BY <2>1, <2>3 DEF StepOf, HeldOK
    <2> QED
      BY <2>2, <2>4
  <1>2. ASSUME NEW f \in Dispatchers \ {d}, NEW e \in Events
        PROVE  Holds(f, e)' <=> Holds(f, e)
    BY DEF StepOf, Holds
  <1>3. LeaseIsExclusive'
    BY <1>2 DEF IInv, LeaseIsExclusive, Aside
  <1> QED
    BY <1>1, <1>3 DEF IInv

\* A step that changes no row.
LEMMA QuietStep ==
  ASSUME IInv, NEW d \in Dispatchers, StepOf(d), UNCHANGED row,
         accepted \subseteq accepted', batch'[d] \in {batch[d], << >>},
         TypeOK', WorkOK(d)', HeldOK(d)'
  PROVE  IInv'
  <1>1. \A e \in Events : Holds(d, e)' => Holds(d, e)
    BY DEF Holds
  <1>2. Aside(d)
    BY <1>1 DEF IInv, LeaseIsExclusive, Aside
  <1>3. Committed' = Committed
    BY DEF Committed
  <1> QED
    BY <1>2, <1>3, OneStep DEF IInv

\* An invocation that ends holds nothing.
LEMMA IdleEnds ==
  ASSUME IInv, NEW d \in Dispatchers, Idle(d)
  PROVE  /\ StepOf(d) /\ WorkOK(d)' /\ HeldOK(d)' /\ batch'[d] = << >>
         /\ pc' \in [Dispatchers -> {"idle", "claim", "publish", "load", "flush"}]
         /\ life' \in [Dispatchers -> 0 .. MaxDuration]
         /\ ids' \in [Dispatchers -> SUBSET Events]
         /\ lag' \in [Dispatchers -> 0 .. MaxDuration]
         /\ batch' \in [Dispatchers -> Seq(Item)]
         /\ \A f \in Dispatchers : Len(batch'[f]) <= Limit
         /\ outcome' \in [Dispatchers -> Rows]
         /\ loaded' \in [Dispatchers -> Rows]
  <1>1. TypeOK /\ 0 \in 0 .. MaxDuration
    BY ConstantsAssumption DEF IInv
  <1>2. << >> \in Seq(Item) /\ Len(<< >>) = 0
    BY EmptySeq
  <1>3. /\ pc'[d] = "idle" /\ life'[d] = 0 /\ lag'[d] = 0 /\ batch'[d] = << >>
        /\ StepOf(d)
    BY <1>1 DEF Idle, TypeOK, StepOf
  <1>4. WorkOK(d)' /\ HeldOK(d)'
    BY <1>2, <1>3 DEF WorkOK, HeldOK, Working
  <1>5. /\ batch' \in [Dispatchers -> Seq(Item)]
        /\ \A f \in Dispatchers : Len(batch'[f]) <= Limit
    BY <1>1, <1>2, ConstantsAssumption DEF Idle, TypeOK
  <1>6. outcome' \in [Dispatchers -> Rows] /\ loaded' \in [Dispatchers -> Rows]
    BY <1>1, RowsMade DEF Idle, TypeOK
  <1> QED
    BY <1>1, <1>3, <1>4, <1>5, <1>6 DEF Idle, TypeOK

\* An invocation that begins holds nothing yet.
LEMMA StartBegins ==
  ASSUME IInv, NEW d \in Dispatchers, NEW wanted \in SUBSET Events, NEW left \in 1 .. MaxDuration,
         Start(d, wanted, left)
  PROVE  /\ StepOf(d) /\ WorkOK(d)' /\ HeldOK(d)' /\ batch'[d] = << >> /\ batch[d] = << >>
         /\ row' \in [Events -> Rows] => TypeOK'
         /\ UNCHANGED accepted
  <1>1. TypeOK /\ WorkOK(d) /\ left \in 0 .. MaxDuration /\ left # 0
    BY ConstantsAssumption DEF IInv
  <1>2. /\ pc[d] = "idle" /\ lag[d] = 0 /\ batch[d] = << >>
        /\ pc' = [pc EXCEPT ![d] = "claim"] /\ life' = [life EXCEPT ![d] = left]
        /\ ids' = [ids EXCEPT ![d] = wanted]
        /\ UNCHANGED << accepted, lag, batch, outcome, loaded >>
    BY <1>1 DEF Start, WorkOK, Working
  <1>3. StepOf(d) /\ pc'[d] = "claim" /\ life'[d] = left /\ lag'[d] = 0 /\ batch'[d] = << >>
    BY <1>1, <1>2 DEF TypeOK, StepOf
  <1>4. Len(<< >>) = 0
    BY EmptySeq
  <1>5. WorkOK(d)' /\ HeldOK(d)'
    BY <1>1, <1>3, <1>4, ConstantsAssumption DEF WorkOK, HeldOK, Working
  <1>6. row' \in [Events -> Rows] => TypeOK'
    BY <1>1, <1>2 DEF TypeOK
  <1> QED
    BY <1>2, <1>3, <1>5, <1>6

LEMMA SweepKeeps ==
  ASSUME IInv, NEW d \in Dispatchers, Sweep(d)
  PROVE  IInv'
  <1>1. /\ Start(d, Events, MaxDuration) /\ UNCHANGED row /\ MaxDuration \in 1 .. MaxDuration
        /\ row' \in [Events -> Rows]
    BY ConstantsAssumption DEF Sweep, IInv, TypeOK
  <1>2. /\ StepOf(d) /\ WorkOK(d)' /\ HeldOK(d)' /\ batch'[d] = << >> /\ TypeOK'
        /\ accepted \subseteq accepted'
    BY <1>1, StartBegins
  <1> QED
    BY <1>1, <1>2, QuietStep

LEMMA PublishNowKeeps ==
  ASSUME IInv, NEW e \in Events, PublishNow(e)
  PROVE  IInv'
  <1>1. PICK left \in 1 .. MaxDuration : Start(e, {e}, left)
    BY DEF PublishNow
  <1>2. /\ TypeOK /\ e \in Dispatchers /\ row[e] = NoRow /\ row' = [row EXCEPT ![e] = Pendiente]
    BY DEF PublishNow, IInv, Dispatchers
  <1>3. row' \in [Events -> Rows]
    BY <1>2, RowsMade DEF TypeOK
  <1>4. /\ StepOf(e) /\ WorkOK(e)' /\ HeldOK(e)' /\ batch'[e] = << >> /\ TypeOK'
        /\ accepted \subseteq accepted'
    BY <1>1, <1>2, <1>3, StartBegins
  <1>5. Aside(e)
    <2>1. ASSUME NEW f \in Dispatchers, Holds(f, e)
          PROVE  FALSE
      BY <1>2, <2>1, RowsMade DEF IInv, HeldOK, Holds
    <2>2. \A g \in Events : ~Holds(e, g)'
      BY <1>4, EmptySeq DEF Holds
    <2> QED
      BY <1>2, <2>1, <2>2 DEF Aside, TypeOK
  <1>6. IsFiniteSet(Committed')
    <2>1. Committed' = Committed \cup {e}
      BY <1>2, RowsMade DEF Committed, TypeOK
    <2> QED
      BY <2>1, FS_AddElement DEF IInv
  <1> QED
    BY <1>2, <1>4, <1>5, <1>6, OneStep

\* What an invocation at work holds.
LEMMA WorkingBatch ==
  ASSUME IInv, NEW d \in Dispatchers, pc[d] \in Working
  PROVE  /\ batch[d] \in Seq(Item) /\ Len(batch[d]) \in Nat /\ Len(batch[d]) > 0
         /\ Head(batch[d]) = batch[d][1] /\ Current(d) = batch[d][1].id
         /\ Current(d) \in Events /\ Head(batch[d]).entry \in Rows
         /\ Holds(d, Current(d))
         /\ row[Current(d)].estado = "PENDIENTE" /\ Head(batch[d]).entry.estado = "PENDIENTE"
  <1>1. batch[d] \in Seq(Item) /\ batch[d] # << >>
    BY DEF IInv, WorkOK, TypeOK
  <1>2. Len(batch[d]) \in Nat /\ Len(batch[d]) > 0 /\ Head(batch[d]) = batch[d][1]
    BY <1>1
  <1>3. batch[d][1] \in Item /\ 1 \in 1 .. Len(batch[d])
    BY <1>1, <1>2
  <1>4. batch[d][1].id \in Events /\ batch[d][1].entry \in Rows
    BY <1>3 DEF Item
  <1>5. Current(d) = batch[d][1].id
    BY <1>2 DEF Current
  <1>6. row[batch[d][1].id].estado = "PENDIENTE" /\ batch[d][1].entry.estado = "PENDIENTE"
    BY <1>3 DEF IInv, HeldOK
  <1>7. Holds(d, Current(d))
    BY <1>3, <1>5 DEF Holds
  <1> QED
    BY <1>1, <1>2, <1>4, <1>5, <1>6, <1>7

\* The invocation ends: nothing was due, or it is killed.
LEMMA EndKeeps ==
  ASSUME IInv, NEW d \in Dispatchers, ClaimNothing(d) \/ Crash(d)
  PROVE  IInv'
  <1>1. Idle(d) /\ UNCHANGED row /\ TypeOK
    BY DEF ClaimNothing, Crash, IInv
  <1>2. accepted \subseteq accepted' /\ accepted' \subseteq Events
    <2>1. CASE ClaimNothing(d)
      BY <1>1, <2>1 DEF ClaimNothing, TypeOK
    <2>2. CASE Crash(d) /\ pc[d] # "publish"
      BY <1>1, <2>2 DEF Crash, TypeOK
    <2>3. CASE Crash(d) /\ pc[d] = "publish"
      <3>1. Current(d) \in Events
        BY <2>3, WorkingBatch DEF Working
      <3> QED
        BY <1>1, <2>3, <3>1 DEF Crash, TypeOK
    <2> QED
      BY <2>1, <2>2, <2>3
  <1>3. TypeOK'
    BY <1>1, <1>2, IdleEnds DEF TypeOK
  <1> QED
    BY <1>1, <1>2, <1>3, IdleEnds, QuietStep

LEMMA PublishKeeps ==
  ASSUME IInv, NEW d \in Dispatchers, Published(d) \/ NotPublished(d)
  PROVE  IInv'
  <1> DEFINE entry == Head(batch[d]).entry
  <1>1. TypeOK /\ WorkOK(d) /\ HeldOK(d) /\ pc[d] = "publish" /\ pc[d] \in Working
    BY DEF Published, NotPublished, IInv, Working
  <1>2. Current(d) \in Events /\ entry \in Rows /\ entry.estado = "PENDIENTE"
    BY <1>1, WorkingBatch
  <1>3. PICK x \in Rows :
          /\ outcome' = [outcome EXCEPT ![d] = x] /\ pc' = [pc EXCEPT ![d] = "load"]
          /\ accepted' \in {accepted, accepted \cup {Current(d)}}
          /\ x.estado \in {"PENDIENTE", "ENTREGADO"}
          /\ x.estado = "ENTREGADO" => Current(d) \in accepted'
          /\ UNCHANGED << row, life, ids, lag, batch, loaded >>
    <2>1. CASE Published(d)
      <3>1. Entregado(entry) \in Rows /\ Entregado(entry).estado = "ENTREGADO"
        BY <1>2, RowsMade
      <3> QED
        BY <2>1, <3>1 DEF Published
    <2>2. CASE NotPublished(d)
      <3>1. Fallido(entry) \in Rows /\ Fallido(entry).estado = "PENDIENTE"
        BY <1>2, RowsMade
      <3> QED
        BY <2>2, <3>1 DEF NotPublished
    <2> QED
      BY <2>1, <2>2
  <1>4. StepOf(d) /\ pc'[d] = "load" /\ outcome'[d] = x
    BY <1>1, <1>3 DEF StepOf, TypeOK
  <1>5. TypeOK'
    BY <1>1, <1>2, <1>3 DEF TypeOK
  <1>6. WorkOK(d)' /\ HeldOK(d)'
    BY <1>1, <1>3, <1>4 DEF WorkOK, HeldOK, Working, Current
  <1> QED
    BY <1>3, <1>4, <1>5, <1>6, QuietStep

LEMMA SaveLoadKeeps ==
  ASSUME IInv, NEW d \in Dispatchers, SaveLoad(d)
  PROVE  IInv'
  <1>1. TypeOK /\ WorkOK(d) /\ HeldOK(d) /\ pc[d] = "load" /\ pc[d] \in Working
    BY DEF SaveLoad, IInv, Working
  <1>2. /\ Current(d) \in Events /\ row[Current(d)] \in Rows
        /\ row[Current(d)].estado = "PENDIENTE"
    BY <1>1, WorkingBatch DEF TypeOK
  <1>3. /\ loaded' = [loaded EXCEPT ![d] = row[Current(d)]] /\ pc' = [pc EXCEPT ![d] = "flush"]
        /\ UNCHANGED << row, accepted, life, ids, lag, batch, outcome >>
    BY DEF SaveLoad
  <1>4. StepOf(d) /\ pc'[d] = "flush" /\ loaded'[d] = row[Current(d)]
    BY <1>1, <1>3 DEF StepOf, TypeOK
  <1>5. TypeOK'
    BY <1>1, <1>2, <1>3 DEF TypeOK
  <1>6. WorkOK(d)' /\ HeldOK(d)'
    BY <1>1, <1>2, <1>3, <1>4 DEF WorkOK, HeldOK, Working, Current
  <1> QED
    BY <1>3, <1>4, <1>5, <1>6, QuietStep
\* What is recorded replaces exactly what was read, so the row is the outcome.
LEMMA RecordedRow ==
  ASSUME IInv, NEW d \in Dispatchers, SaveFlush(d)
  PROVE  /\ row' \in [Events -> Rows]
         /\ row'[Current(d)].estado = outcome[d].estado
         /\ \A e \in Events \ {Current(d)} : row'[e] = row[e]
  <1> DEFINE x == row[Current(d)]
             o == outcome[d]
             l == loaded[d]
             n == [f \in {"estado", "intentos", "due"} |->
                     IF o[f] # l[f] THEN o[f] ELSE x[f]]
             m == [estado |-> o.estado,
                   intentos |-> IF o.intentos # l.intentos THEN o.intentos ELSE x.intentos,
                   due |-> IF o.due # l.due THEN o.due ELSE x.due]
  <1>1. TypeOK /\ WorkOK(d) /\ pc[d] = "flush" /\ pc[d] \in Working
    BY DEF SaveFlush, IInv, Working
  <1>2. /\ Current(d) \in Events /\ x \in Rows /\ o \in Rows /\ l \in Rows
        /\ x.estado = "PENDIENTE" /\ l.estado = "PENDIENTE"
    BY <1>1, WorkingBatch DEF TypeOK, WorkOK
  <1>3. row' = [row EXCEPT ![Current(d)] = n] /\ row \in [Events -> Rows]
    BY <1>1 DEF SaveFlush, TypeOK
  <1> HIDE DEF x, o, l
  <1>4. n = m
    BY <1>2
  <1>5. m \in Rows
    <2>1. /\ m.intentos \in 0 .. MaxIntentos /\ m.due \in Deadline
          /\ o.estado \in {"AUSENTE", "PENDIENTE", "ENTREGADO"}
      BY <1>2 DEF Rows
    <2> QED
      BY <2>1 DEF Rows
  <1>6. n \in Rows /\ n.estado = o.estado
    BY <1>4, <1>5
  <1> HIDE DEF n, m
  <1>7. row' \in [Events -> Rows] /\ row'[Current(d)] = n
        /\ \A e \in Events \ {Current(d)} : row'[e] = row[e]
    BY <1>2, <1>3, <1>6
  <1> QED
    BY <1>6, <1>7 DEF o

LEMMA SaveFlushKeeps ==
  ASSUME IInv, NEW d \in Dispatchers, SaveFlush(d)
  PROVE  IInv'
  <1>1. TypeOK /\ WorkOK(d) /\ HeldOK(d) /\ pc[d] = "flush" /\ UNCHANGED accepted
    BY DEF SaveFlush, IInv
  <1>2. /\ Current(d) \in Events /\ Holds(d, Current(d)) /\ batch[d] \in Seq(Item)
        /\ Len(batch[d]) \in Nat /\ Len(batch[d]) > 0 /\ Current(d) = batch[d][1].id
        /\ row[Current(d)].estado = "PENDIENTE"
    BY <1>1, WorkingBatch DEF Working
  <1>3. /\ row' \in [Events -> Rows]
        /\ row'[Current(d)].estado = outcome[d].estado
        /\ outcome[d].estado \in {"PENDIENTE", "ENTREGADO"}
        /\ \A e \in Events \ {Current(d)} : row'[e] = row[e]
    BY <1>1, RecordedRow DEF WorkOK
  <1>4. Committed' = Committed
    BY <1>2, <1>3 DEF Committed
  <1>5. /\ StepOf(d) /\ TypeOK' /\ WorkOK(d)' /\ HeldOK(d)'
        /\ \A e \in Events : Holds(d, e)' => Holds(d, e) /\ e # Current(d)
    <2>1. CASE Len(batch[d]) = 1
      <3>1. Idle(d)
        BY <2>1 DEF SaveFlush
      <3>2. \A e \in Events : ~Holds(d, e)'
        BY <3>1, IdleEnds, EmptySeq DEF Holds
      <3> QED
        BY <1>1, <1>3, <3>1, <3>2, IdleEnds DEF TypeOK
    <2>2. CASE Len(batch[d]) # 1
      <3>1. /\ batch' = [batch EXCEPT ![d] = Tail(batch[d])]
            /\ outcome' = [outcome EXCEPT ![d] = NoRow]
            /\ loaded' = [loaded EXCEPT ![d] = NoRow]
            /\ pc' = [pc EXCEPT ![d] = "publish"]
            /\ UNCHANGED << life, ids, lag >>
        BY <2>2 DEF SaveFlush
      <3>2. /\ Tail(batch[d]) \in Seq(Item) /\ Len(Tail(batch[d])) = Len(batch[d]) - 1
            /\ Tail(batch[d]) # << >>
            /\ \A i \in 1 .. Len(Tail(batch[d])) :
                  i + 1 \in 1 .. Len(batch[d]) /\ Tail(batch[d])[i] = batch[d][i + 1]
        BY <1>2, <2>2, TailOfBatch
      <3>3. /\ StepOf(d) /\ batch'[d] = Tail(batch[d]) /\ pc'[d] = "publish"
            /\ life'[d] = life[d] /\ lag'[d] = lag[d]
        BY <1>1, <3>1 DEF StepOf, TypeOK
      <3>4. TypeOK'
        <4>1. batch' \in [Dispatchers -> Seq(Item)]
          BY <1>1, <3>1, <3>2 DEF TypeOK
        <4>2. \A f \in Dispatchers : Len(batch'[f]) <= Limit
          BY <1>1, <1>2, <3>1, <3>2, ConstantsAssumption DEF TypeOK
        <4>3. outcome' \in [Dispatchers -> Rows] /\ loaded' \in [Dispatchers -> Rows]
          BY <1>1, <3>1, RowsMade DEF TypeOK
        <4> QED
          BY <1>1, <1>3, <3>1, <4>1, <4>2, <4>3 DEF TypeOK
      <3>5. \A i \in 1 .. Len(batch'[d]) :
               batch'[d][i].id \in Events /\ batch'[d][i].id # Current(d)
        <4>1. ASSUME NEW i \in 1 .. Len(batch'[d])
              PROVE  batch'[d][i].id \in Events /\ batch'[d][i].id # Current(d)
          <5>1. i + 1 \in 1 .. Len(batch[d]) /\ batch'[d][i] = batch[d][i + 1] /\ i + 1 # 1
            BY <3>2, <3>3
          <5>2. batch[d][i + 1] \in Item
            BY <1>2, <5>1
          <5>3. batch[d][i + 1].id # batch[d][1].id
            BY <1>1, <1>2, <5>1 DEF WorkOK
          <5> QED
            BY <1>2, <5>1, <5>2, <5>3 DEF Item
        <4> QED
          BY <4>1
      <3>6. WorkOK(d)'
        <4>1. \A i, j \in 1 .. Len(batch'[d]) :
                 batch'[d][i].id = batch'[d][j].id => i = j
          <5>1. ASSUME NEW i \in 1 .. Len(batch'[d]), NEW j \in 1 .. Len(batch'[d]),
                       batch'[d][i].id = batch'[d][j].id
                PROVE  i = j
            <6>1. /\ i + 1 \in 1 .. Len(batch[d]) /\ batch'[d][i] = batch[d][i + 1]
                  /\ j + 1 \in 1 .. Len(batch[d]) /\ batch'[d][j] = batch[d][j + 1]
              BY <3>2, <3>3
            <6>2. i + 1 = j + 1
              BY <1>1, <5>1, <6>1 DEF WorkOK
            <6> QED
              BY <6>2
          <5> QED
            BY <5>1
        <4> QED
          BY <1>1, <3>2, <3>3, <4>1 DEF WorkOK, Working
      <3>7. HeldOK(d)'
        BY <1>1, <1>3, <3>2, <3>3, <3>5 DEF HeldOK
      <3>8. \A e \in Events : Holds(d, e)' => Holds(d, e) /\ e # Current(d)
        BY <3>2, <3>3, <3>5 DEF Holds
      <3> QED
        BY <3>3, <3>4, <3>6, <3>7, <3>8
    <2> QED
      BY <2>1, <2>2
  <1>6. Aside(d)
    BY <1>2, <1>3, <1>5 DEF IInv, LeaseIsExclusive, Aside
  <1> QED
    BY <1>1, <1>4, <1>5, <1>6, OneStep DEF IInv
\* A claim takes, once each, some of the events that are due.
LEMMA BatchPicked ==
  ASSUME IInv, NEW d \in Dispatchers, NEW q \in Batches(Due(d))
  PROVE  /\ q \in Seq(Due(d)) /\ Len(q) \in 1 .. Limit
         /\ \A i \in 1 .. Len(q) : q[i] \in Due(d)
         /\ \A i, j \in 1 .. Len(q) : q[i] = q[j] => i = j
  <1> DEFINE found == Due(d)
             top == Min2(Limit, Cardinality(found))
  <1>1. found \subseteq Committed
    BY DEF Due, Committed, IInv, TypeOK
  <1>2. Cardinality(found) \in Nat
    BY <1>1, FS_Subset, FS_CardinalityType DEF IInv
  <1>3. top \in Nat /\ top <= Limit
    BY <1>2, ConstantsAssumption DEF Min2
  <1>4. /\ q \in UNION {[1 .. n -> found] : n \in 1 .. top} /\ Len(q) = top
        /\ \A i, j \in 1 .. Len(q) : i < j => q[i] # q[j]
    BY DEF Batches
  <1> HIDE DEF found, top
  <1>5. PICK n \in 1 .. top : q \in [1 .. n -> found]
    BY <1>4
  <1>6. n \in Nat /\ n >= 1
    BY <1>3, <1>5
  <1>7. q \in Seq(found) /\ Len(q) = n
    BY <1>5, <1>6
  <1>8. \A i \in 1 .. Len(q) : q[i] \in found
    BY <1>5, <1>7
  <1>9. \A i, j \in 1 .. Len(q) : q[i] = q[j] => i = j
    BY <1>4, <1>6, <1>7
  <1> QED
    BY <1>3, <1>4, <1>6, <1>7, <1>8, <1>9 DEF found

\* Nobody alive holds an event that is due.
LEMMA DueIsFree ==
  ASSUME IInv, NEW d \in Dispatchers, NEW e \in Due(d), NEW f \in Dispatchers
  PROVE  /\ ~Holds(f, e)
         /\ e \in Events /\ row[e] \in Rows /\ row[e].estado = "PENDIENTE"
  <1>1. /\ TypeOK /\ e \in Events /\ row[e] \in Rows /\ row[e].estado = "PENDIENTE"
        /\ row[e].due + lag[d] <= 0
    BY DEF Due, IInv, TypeOK
  <1>2. row[e].due \in Int /\ lag[d] \in 0 .. MaxDuration
    BY <1>1, DeadlineBounds DEF TypeOK, Rows
  <1>3. ASSUME Holds(f, e)
        PROVE  FALSE
    <2>1. PICK i \in 1 .. Len(batch[f]) : batch[f][i].id = e
      BY <1>3 DEF Holds
    <2>2. row[e].due >= life[f]
      BY <2>1 DEF IInv, HeldOK
    <2>3. WorkOK(f) /\ batch[f] # << >>
      BY <2>1, EmptySeq DEF IInv
    <2>4. life[f] \in 0 .. MaxDuration /\ life[f] # 0
      BY <1>1, <2>3 DEF WorkOK, Working, TypeOK
    <2> QED
      BY <1>1, <1>2, <2>2, <2>4, ConstantsAssumption
  <1> QED
    BY <1>1, <1>3

\* The lease of a claim outlives the invocation that takes it.
LEMMA LeaseOutlives ==
  ASSUME IInv, NEW d \in Dispatchers, pc[d] = "claim"
  PROVE  LeaseUntil(d) \in Deadline /\ LeaseUntil(d) >= life[d]
  <1>1. /\ lag[d] \in 0 .. MaxDuration /\ life[d] \in 0 .. MaxDuration
        /\ life[d] + lag[d] <= MaxDuration
    BY DEF IInv, TypeOK, WorkOK
  <1>2. LeaseUntil(d) \in Deadline
    BY <1>1, DeadlineBounds DEF LeaseUntil
  <1>3. LeaseUntil(d) >= life[d]
    BY <1>1, ConstantsAssumption, LeaseAssumption DEF LeaseUntil
  <1> QED
    BY <1>2, <1>3

LEMMA ClaimKeeps ==
  ASSUME IInv, NEW d \in Dispatchers, Claim(d)
  PROVE  IInv'
  <1>1. PICK q \in Batches(Due(d)) :
          /\ batch' = [batch EXCEPT ![d] = [i \in 1 .. Len(q) |->
                         [id |-> q[i], entry |-> row[q[i]]]]]
          /\ row' = [e \in Events |->
                       IF \E i \in 1 .. Len(q) : q[i] = e
                       THEN [row[e] EXCEPT !.due = LeaseUntil(d)] ELSE row[e]]
    BY DEF Claim
  <1> DEFINE n == Len(q)
             taken == [i \in 1 .. n |-> [id |-> q[i], entry |-> row[q[i]]]]
             Leased(e) == [row[e] EXCEPT !.due = LeaseUntil(d)]
  <1>2. /\ TypeOK /\ WorkOK(d) /\ pc[d] = "claim" /\ pc' = [pc EXCEPT ![d] = "publish"]
        /\ UNCHANGED << accepted, life, ids, lag, outcome, loaded >>
    BY DEF Claim, IInv
  <1>3. /\ n \in Nat /\ n \in 1 .. Limit /\ \A i \in 1 .. n : q[i] \in Due(d)
        /\ \A i, j \in 1 .. n : q[i] = q[j] => i = j
    BY BatchPicked, ConstantsAssumption
  <1>4. \A i \in 1 .. n : q[i] \in Events /\ row[q[i]] \in Rows
                            /\ row[q[i]].estado = "PENDIENTE"
    BY <1>3, DueIsFree
  <1>5. taken \in Seq(Item) /\ Len(taken) = n
    <2>1. \A i \in 1 .. n : [id |-> q[i], entry |-> row[q[i]]] \in Item
      BY <1>4 DEF Item
    <2>2. taken \in [1 .. n -> Item]
      BY <2>1
    <2> HIDE DEF taken
    <2> QED
      BY <1>3, <2>2
  <1>6. \A e \in Events : row[e] \in Rows =>
          /\ Leased(e) \in Rows /\ Leased(e).estado = row[e].estado
          /\ Leased(e).intentos = row[e].intentos /\ Leased(e).due = LeaseUntil(d)
    BY <1>2, LeaseOutlives DEF Rows
  <1>7. \A i \in 1 .. n : taken[i].id = q[i] /\ taken[i].entry = row[q[i]]
    OBVIOUS
  <1> HIDE DEF taken, n
  <1>8. /\ StepOf(d) /\ pc'[d] = "publish" /\ batch'[d] = taken /\ life'[d] = life[d]
        /\ lag'[d] = lag[d]
    BY <1>1, <1>2 DEF StepOf, TypeOK, taken, n
  <1>9. \A i \in 1 .. n : row'[q[i]] = Leased(q[i])
    BY <1>1, <1>4 DEF n
  <1>10. \A e \in Events : row'[e] = row[e] \/ row'[e] = Leased(e)
    BY <1>1
  <1>11. \A e \in Events : row'[e] # row[e] => e \in Due(d)
    BY <1>1, <1>3 DEF n
  <1> HIDE DEF Leased
  <1>12. TypeOK'
    <2>1. row' \in [Events -> Rows]
      <3>1. \A e \in Events : row'[e] \in Rows
        BY <1>2, <1>6, <1>10 DEF TypeOK
      <3>2. row' = [e \in Events |-> row'[e]]
        BY <1>1
      <3> QED
        BY <3>1, <3>2
    <2>2. batch' \in [Dispatchers -> Seq(Item)]
      BY <1>1, <1>2, <1>5 DEF TypeOK, taken, n
    <2>3. \A f \in Dispatchers : Len(batch'[f]) <= Limit
      <3>1. n <= Limit
        BY <1>3, ConstantsAssumption
      <3> QED
        BY <1>2, <1>5, <1>8, <3>1 DEF StepOf, TypeOK
    <2> QED
      BY <1>2, <2>1, <2>2, <2>3 DEF TypeOK
  <1>13. IsFiniteSet(Committed')
    <2>1. Committed' = Committed
      BY <1>2, <1>6, <1>10 DEF Committed, TypeOK
    <2> QED
      BY <2>1 DEF IInv
  <1>14. WorkOK(d)'
    <2>1. taken # << >>
      BY <1>3, <1>5
    <2>2. \A i, j \in 1 .. n : taken[i].id = taken[j].id => i = j
      BY <1>3, <1>7
    <2> QED
      BY <1>2, <1>5, <1>8, <2>1, <2>2 DEF WorkOK, Working
  <1>15. HeldOK(d)'
    <2>1. ASSUME NEW i \in 1 .. n
          PROVE  /\ row'[q[i]].estado = "PENDIENTE" /\ row[q[i]].estado = "PENDIENTE"
                 /\ row'[q[i]].intentos = row[q[i]].intentos
                 /\ row'[q[i]].due >= life[d]
      BY <1>2, <1>4, <1>6, <1>9, LeaseOutlives
    <2> QED
      BY <1>5, <1>7, <1>8, <2>1 DEF HeldOK
  <1>16. Aside(d)
    <2>1. \A e \in Events : Holds(d, e)' => e \in Due(d)
      BY <1>3, <1>5, <1>7, <1>8 DEF Holds
    <2> QED
      BY <1>11, <2>1, DueIsFree DEF Aside
  <1> QED
    BY <1>2, <1>8, <1>12, <1>13, <1>14, <1>15, <1>16, OneStep
\* A batch a tick later: the same events, their entries aged.
LEMMA AgedBatch ==
  ASSUME IInv, NEW d \in Dispatchers, Tick
  PROVE  /\ batch[d] \in Seq(Item) /\ batch'[d] \in Seq(Item)
         /\ Len(batch'[d]) = Len(batch[d]) /\ Len(batch[d]) \in Nat
         /\ \A i \in 1 .. Len(batch[d]) :
              /\ batch[d][i].id \in Events /\ batch[d][i].entry \in Rows
              /\ batch'[d][i].id = batch[d][i].id
              /\ batch'[d][i].entry = Aged(batch[d][i].entry)
  <1> DEFINE n == Len(batch[d])
             older == [i \in 1 .. n |-> [batch[d][i] EXCEPT !.entry = Aged(@)]]
  <1>1. batch[d] \in Seq(Item) /\ n \in Nat
    BY DEF IInv, TypeOK
  <1>2. batch'[d] = older
    BY DEF Tick
  <1>3. ASSUME NEW i \in 1 .. n
        PROVE  /\ batch[d][i].id \in Events /\ batch[d][i].entry \in Rows
               /\ older[i] \in Item
               /\ older[i].id = batch[d][i].id
               /\ older[i].entry = Aged(batch[d][i].entry)
    <2>1. batch[d][i] \in Item
      BY <1>1
    <2>2. /\ batch[d][i].id \in Events /\ batch[d][i].entry \in Rows
          /\ Aged(batch[d][i].entry) \in Rows
      BY <2>1, RowsMade DEF Item
    <2>3. older[i] = [batch[d][i] EXCEPT !.entry = Aged(batch[d][i].entry)]
      OBVIOUS
    <2> HIDE DEF older
    <2> QED
      BY <2>1, <2>2, <2>3 DEF Item
  <1>4. older \in [1 .. n -> Item]
    BY <1>3
  <1> HIDE DEF older, n
  <1>5. older \in Seq(Item) /\ Len(older) = n
    BY <1>1, <1>4
  <1> QED
    BY <1>1, <1>2, <1>3, <1>5 DEF n

LEMMA TickTyped ==
  ASSUME IInv, Tick
  PROVE  TypeOK'
  <1>1. TypeOK /\ UNCHANGED << accepted, pc, ids >>
    BY DEF Tick, IInv
  <1>2. row' \in [Events -> Rows]
    BY <1>1, RowsMade DEF Tick, TypeOK
  <1>3. life' \in [Dispatchers -> 0 .. MaxDuration]
    <2>1. ASSUME NEW d \in Dispatchers
          PROVE  (IF pc[d] = "idle" THEN 0 ELSE life[d] - 1) \in 0 .. MaxDuration
      BY <1>1, ConstantsAssumption DEF Tick, TypeOK
    <2> QED
      BY <2>1 DEF Tick
  <1>4. lag' \in [Dispatchers -> 0 .. MaxDuration]
    <2>1. ASSUME NEW d \in Dispatchers
          PROVE  (IF pc[d] = "claim" THEN lag[d] + 1 ELSE lag[d]) \in 0 .. MaxDuration
      <3>1. /\ life[d] \in 0 .. MaxDuration /\ lag[d] \in 0 .. MaxDuration
            /\ pc[d] = "claim" => life[d] + lag[d] <= MaxDuration /\ life[d] > 1
        BY <1>1 DEF Tick, TypeOK, IInv, WorkOK
      <3> QED
        BY <3>1, ConstantsAssumption
    <2> QED
      BY <2>1 DEF Tick
  <1>5. batch' \in [Dispatchers -> Seq(Item)]
    <2>1. \A d \in Dispatchers : batch'[d] \in Seq(Item)
      BY AgedBatch
    <2>2. batch' = [d \in Dispatchers |-> batch'[d]]
      BY DEF Tick
    <2> QED
      BY <2>1, <2>2
  <1>6. \A d \in Dispatchers : Len(batch'[d]) <= Limit
    BY <1>1, AgedBatch DEF TypeOK
  <1>7. outcome' \in [Dispatchers -> Rows] /\ loaded' \in [Dispatchers -> Rows]
    BY <1>1, RowsMade DEF Tick, TypeOK
  <1> QED
    BY <1>1, <1>2, <1>3, <1>4, <1>5, <1>6, <1>7 DEF TypeOK

LEMMA TickKeeps ==
  ASSUME IInv, Tick
  PROVE  IInv'
  <1>1. TypeOK /\ UNCHANGED << accepted, pc, ids >>
    BY DEF Tick, IInv
  <1>2. \A e \in Events :
          /\ row[e] \in Rows /\ row'[e].estado = row[e].estado
          /\ row'[e].intentos = row[e].intentos
          /\ row[e].estado = "PENDIENTE" => row'[e].due = Sooner(row[e].due)
    BY <1>1, RowsMade DEF Tick, TypeOK
  <1>3. IsFiniteSet(Committed')
    <2>1. Committed' = Committed
      BY <1>2 DEF Committed
    <2> QED
      BY <2>1 DEF IInv
  <1>4. ASSUME NEW d \in Dispatchers
        PROVE  WorkOK(d)' /\ HeldOK(d)'
    <2>1. /\ WorkOK(d) /\ HeldOK(d) /\ life[d] \in 0 .. MaxDuration /\ lag[d] \in 0 .. MaxDuration
          /\ outcome[d] \in Rows /\ loaded[d] \in Rows
      BY <1>1 DEF IInv, TypeOK
    <2>2. /\ pc'[d] = pc[d]
          /\ life'[d] = IF pc[d] = "idle" THEN 0 ELSE life[d] - 1
          /\ lag'[d] = IF pc[d] = "claim" THEN lag[d] + 1 ELSE lag[d]
          /\ pc[d] # "idle" => life[d] > 1
      BY <1>1 DEF Tick
    <2>3. /\ outcome'[d].estado = outcome[d].estado
          /\ loaded'[d].estado = loaded[d].estado
      BY <2>1, RowsMade DEF Tick
    <2>4. /\ batch[d] \in Seq(Item) /\ batch'[d] \in Seq(Item)
          /\ Len(batch'[d]) = Len(batch[d]) /\ Len(batch[d]) \in Nat
          /\ \A i \in 1 .. Len(batch[d]) :
               /\ batch[d][i].id \in Events /\ batch[d][i].entry \in Rows
               /\ batch'[d][i].id = batch[d][i].id
               /\ batch'[d][i].entry = Aged(batch[d][i].entry)
      BY AgedBatch
    <2>5. batch'[d] = << >> <=> batch[d] = << >>
      BY <2>4
    <2>6. batch[d] # << >> => Current(d)' = Current(d)
      <3>1. batch[d] # << >> => /\ 1 \in 1 .. Len(batch[d])
                                /\ Head(batch[d]) = batch[d][1]
                                /\ Head(batch'[d]) = batch'[d][1]
        BY <2>4, <2>5
      <3> QED
        BY <2>4, <3>1 DEF Current
    <2>7. WorkOK(d)'
      <3>1. (pc[d] = "idle" <=> life[d] = 0)' /\ (pc[d] = "idle" => lag[d] = 0)'
            /\ (pc[d] = "claim" => life[d] + lag[d] <= MaxDuration)'
        BY <2>1, <2>2, ConstantsAssumption DEF WorkOK
      <3>2. (batch[d] # << >> <=> pc[d] \in Working)'
        BY <2>1, <2>2, <2>5 DEF WorkOK
      <3>3. \A i, j \in 1 .. Len(batch'[d]) : batch'[d][i].id = batch'[d][j].id => i = j
        BY <2>1, <2>4 DEF WorkOK
      <3>4. pc'[d] \in {"load", "flush"} =>
              /\ outcome'[d].estado \in {"PENDIENTE", "ENTREGADO"}
              /\ outcome'[d].estado = "ENTREGADO" => Current(d)' \in accepted'
        BY <1>1, <2>1, <2>2, <2>3, <2>6 DEF WorkOK, Working
      <3>5. pc'[d] = "flush" => loaded'[d].estado = "PENDIENTE"
        BY <2>1, <2>2, <2>3 DEF WorkOK
      <3> QED
        BY <3>1, <3>2, <3>3, <3>4, <3>5 DEF WorkOK
    <2>8. HeldOK(d)'
      <3>1. ASSUME NEW i \in 1 .. Len(batch[d])
            PROVE  LET x == row'[batch'[d][i].id]
                       entry == batch'[d][i].entry
                   IN /\ x.estado = "PENDIENTE" /\ entry.estado = "PENDIENTE"
                      /\ x.intentos = entry.intentos
                      /\ x.due >= life'[d]
        <4> DEFINE e == batch[d][i].id
                   entry == batch[d][i].entry
        <4>1. /\ e \in Events /\ entry \in Rows /\ batch'[d][i].id = e
              /\ batch'[d][i].entry = Aged(entry)
          BY <2>4
        <4>2. /\ row[e].estado = "PENDIENTE" /\ entry.estado = "PENDIENTE"
              /\ row[e].intentos = entry.intentos /\ row[e].due >= life[d]
          BY <2>1 DEF HeldOK
        <4>3. Aged(entry).estado = "PENDIENTE" /\ Aged(entry).intentos = entry.intentos
          BY <4>1, <4>2, RowsMade
        <4>4. /\ row'[e].estado = "PENDIENTE" /\ row'[e].intentos = row[e].intentos
              /\ row'[e].due = Sooner(row[e].due)
          BY <1>2, <4>1, <4>2
        <4>5. pc[d] # "idle"
          BY <2>1, <2>4 DEF WorkOK, Working
        <4>6. row[e].due \in Int
          BY <1>2, <4>1, DeadlineBounds DEF Rows
        <4>7. row'[e].due >= life'[d]
          BY <2>1, <2>2, <4>2, <4>4, <4>5, <4>6, ConstantsAssumption DEF Sooner
        <4> HIDE DEF e, entry
        <4> QED
          BY <4>1, <4>2, <4>3, <4>4, <4>7
      <3> QED
        BY <2>4, <3>1 DEF HeldOK
    <2> QED
      BY <2>7, <2>8
  <1>5. \A d \in Dispatchers, e \in Events : Holds(d, e)' <=> Holds(d, e)
    BY AgedBatch DEF Holds
  <1>6. LeaseIsExclusive'
    BY <1>5 DEF IInv, LeaseIsExclusive
  <1> QED
    BY <1>3, <1>4, <1>6, TickTyped DEF IInv

-----------------------------------------------------------------------------
(* The specification.                                                      *)

LEMMA InitEstablishes == Init => IInv
  <1> SUFFICES ASSUME Init PROVE IInv
    OBVIOUS
  <1>1. << >> \in Seq(Item) /\ Len(<< >>) = 0
    BY EmptySeq
  <1>2. TypeOK
    BY <1>1, RowsMade, ConstantsAssumption DEF Init, TypeOK
  <1>3. IsFiniteSet(Committed)
    <2>1. Committed = {}
      BY RowsMade DEF Init, Committed
    <2> QED
      BY <2>1, FS_EmptySet
  <1>4. \A d \in Dispatchers : WorkOK(d) /\ HeldOK(d)
    BY <1>1 DEF Init, WorkOK, HeldOK, Working
  <1>5. LeaseIsExclusive
    BY <1>1 DEF Init, LeaseIsExclusive, Holds
  <1> QED
    BY <1>2, <1>3, <1>4, <1>5 DEF IInv

LEMMA NextKeeps == IInv /\ [Next]_vars => IInv'
  <1> SUFFICES ASSUME IInv, [Next]_vars PROVE IInv'
    OBVIOUS
  <1>1. CASE Tick
    BY <1>1, TickKeeps
  <1>2. ASSUME NEW e \in Events, PublishNow(e) PROVE IInv'
    BY <1>2, PublishNowKeeps
  <1>3. ASSUME NEW d \in Sweepers, Sweep(d) PROVE IInv'
    BY <1>3, SweepKeeps DEF Dispatchers
  <1>4. ASSUME NEW d \in Dispatchers, Dispatch(d) \/ Crash(d) PROVE IInv'
    BY <1>4, ClaimKeeps, EndKeeps, PublishKeeps, SaveLoadKeeps, SaveFlushKeeps DEF Dispatch
  <1>5. CASE UNCHANGED vars
    <2>1. UNCHANGED << row, accepted, pc, life, ids, lag, batch, outcome, loaded >>
      BY <1>5 DEF vars
    <2> QED
      BY <2>1 DEF IInv, TypeOK, Committed, WorkOK, HeldOK, LeaseIsExclusive, Holds, Current
  <1> QED
    BY <1>1, <1>2, <1>3, <1>4, <1>5 DEF Next

\* The inductive invariant, of every reachable state.
THEOREM Invariance == Spec => []IInv
  BY InitEstablishes, NextKeeps, PTL DEF Spec

\* Every variable keeps its type; in particular no row is scheduled later than
\* the longest backoff or the lease (MAX_BACKOFF_SECONDS, LEASE_SECONDS).
THEOREM TypeCorrect == Spec => []TypeOK
  <1>1. IInv => TypeOK
    BY DEF IInv
  <1> QED
    BY <1>1, Invariance, PTL

\* "A lease keeps concurrent dispatchers from double-sending"
\* (services/outbox_dispatcher.py): however many sweeps and requests run, an
\* event is never in the hands of two live invocations.
THEOREM LeaseIsExclusiveHolds == Spec => []LeaseIsExclusive
  <1>1. IInv => LeaseIsExclusive
    BY DEF IInv
  <1> QED
    BY <1>1, Invariance, PTL

\* Recording the outcome of a send overwrites nobody else's: until its holder
\* saves it, the row is the one that was claimed, and its lease is still ahead.
THEOREM NothingIsOverwrittenHolds == Spec => []NothingIsOverwritten
  <1>1. IInv => NothingIsOverwritten
    BY DEF IInv, HeldOK, NothingIsOverwritten
  <1> QED
    BY <1>1, Invariance, PTL

-----------------------------------------------------------------------------
(* The dispatcher implements the event channel, but for its fairness.      *)

Outbox == [e \in Events |-> row[e].estado]

\* A step that leaves every row in its state and hands nothing over.
LEMMA Stutters ==
  ASSUME IInv, row' \in [Events -> Rows], UNCHANGED accepted,
         \A e \in Events : row'[e].estado = row[e].estado
  PROVE  UNCHANGED Channel!channelVars
  BY DEF Channel!channelVars

LEMMA StepImplements == IInv /\ [Next]_vars => [Channel!ChannelNext]_(Channel!channelVars)
  <1> SUFFICES ASSUME IInv, [Next]_vars
               PROVE  Channel!ChannelNext \/ UNCHANGED Channel!channelVars
    OBVIOUS
  <1>1. TypeOK /\ TypeOK'
    BY NextKeeps DEF IInv
  <1>2. CASE Tick
    <2>1. \A e \in Events : row'[e].estado = row[e].estado
      BY <1>1, <1>2, RowsMade DEF Tick, TypeOK
    <2> QED
      BY <1>1, <1>2, <2>1, Stutters DEF Tick, TypeOK
  <1>3. ASSUME NEW e \in Events, PublishNow(e)
        PROVE  Channel!Enqueue(e)
    <2>1. row[e] = NoRow /\ row' = [row EXCEPT ![e] = Pendiente] /\ UNCHANGED accepted
      BY <1>3 DEF PublishNow, Start
    <2>2. Outbox' = [Outbox EXCEPT ![e] = "PENDIENTE"]
      BY <1>1, <2>1, RowsMade DEF Outbox, TypeOK
    <2>3. Outbox[e] = "AUSENTE"
      BY <2>1, RowsMade DEF Outbox
    <2> QED
      BY <2>1, <2>2, <2>3 DEF Channel!Enqueue, Outbox
  <1>4. ASSUME NEW d \in Sweepers, Sweep(d)
        PROVE  UNCHANGED Channel!channelVars
    BY <1>4 DEF Sweep, Start, Channel!channelVars
  <1>5. ASSUME NEW d \in Dispatchers, Claim(d)
        PROVE  UNCHANGED Channel!channelVars
    <2>1. \A e \in Events : row'[e].estado = row[e].estado
      BY <1>1, <1>5 DEF Claim, TypeOK, Rows
    <2> QED
      BY <1>1, <1>5, <2>1, Stutters DEF Claim, TypeOK
  <1>6. ASSUME NEW d \in Dispatchers, ClaimNothing(d) \/ SaveLoad(d)
        PROVE  UNCHANGED Channel!channelVars
    BY <1>6 DEF ClaimNothing, SaveLoad, Channel!channelVars
  <1>7. ASSUME NEW d \in Dispatchers,
               Published(d) \/ NotPublished(d) \/ (Crash(d) /\ pc[d] = "publish")
        PROVE  Channel!Accept(Current(d)) \/ UNCHANGED Channel!channelVars
    <2>1. pc[d] \in Working /\ UNCHANGED row /\ accepted' \in {accepted, accepted \cup {Current(d)}}
      BY <1>7 DEF Published, NotPublished, Crash, Working
    <2>2. Current(d) \in Events /\ row[Current(d)].estado = "PENDIENTE"
      BY <2>1, WorkingBatch
    <2>3. Outbox' = Outbox /\ Outbox[Current(d)] = "PENDIENTE"
      BY <2>1, <2>2 DEF Outbox
    <2> QED
      BY <2>1, <2>3 DEF Channel!Accept, Channel!channelVars, Outbox
  <1>8. ASSUME NEW d \in Dispatchers, Crash(d), pc[d] # "publish"
        PROVE  UNCHANGED Channel!channelVars
    BY <1>8 DEF Crash, Channel!channelVars
  <1>9. ASSUME NEW d \in Dispatchers, SaveFlush(d)
        PROVE  Channel!MarkDelivered(Current(d)) \/ UNCHANGED Channel!channelVars
    <2>1. /\ pc[d] = "flush" /\ UNCHANGED accepted /\ WorkOK(d) /\ pc[d] \in Working
      BY <1>9 DEF SaveFlush, IInv, Working
    <2>2. Current(d) \in Events /\ row[Current(d)].estado = "PENDIENTE"
      BY <2>1, WorkingBatch
    <2>3. /\ row'[Current(d)].estado = outcome[d].estado
          /\ \A e \in Events \ {Current(d)} : row'[e] = row[e]
      BY <1>9, RecordedRow
    <2>4. CASE outcome[d].estado = "PENDIENTE"
      <3>1. \A e \in Events : row'[e].estado = row[e].estado
        BY <2>2, <2>3, <2>4
      <3> QED
        BY <1>1, <2>1, <3>1, Stutters DEF TypeOK
    <2>5. CASE outcome[d].estado = "ENTREGADO"
      <3>1. Current(d) \in accepted
        BY <2>1, <2>5 DEF WorkOK
      <3>2. Outbox' = [Outbox EXCEPT ![Current(d)] = "ENTREGADO"]
        BY <2>2, <2>3, <2>5 DEF Outbox
      <3>3. Outbox[Current(d)] = "PENDIENTE"
        BY <2>2 DEF Outbox
      <3> QED
        BY <2>1, <3>1, <3>2, <3>3 DEF Channel!MarkDelivered, Outbox
    <2> QED
      BY <2>1, <2>4, <2>5 DEF WorkOK
  <1>10. CASE UNCHANGED vars
    BY <1>10 DEF vars, Channel!channelVars
  <1>11. \A d \in Dispatchers : pc[d] \in Working => Current(d) \in Events
    BY WorkingBatch
  <1>12. ASSUME NEW d \in Dispatchers, Dispatch(d) \/ Crash(d)
         PROVE  Channel!ChannelNext \/ UNCHANGED Channel!channelVars
    <2>1. CASE Published(d) \/ NotPublished(d) \/ (Crash(d) /\ pc[d] = "publish")
      <3>1. Current(d) \in Events
        BY <1>11, <2>1 DEF Published, NotPublished, Working
      <3>2. Channel!Accept(Current(d)) \/ UNCHANGED Channel!channelVars
        BY <1>7, <2>1
      <3> QED
        BY <3>1, <3>2 DEF Channel!ChannelNext
    <2>2. CASE SaveFlush(d)
      <3>1. Current(d) \in Events
        BY <1>11, <2>2 DEF SaveFlush, Working
      <3>2. Channel!MarkDelivered(Current(d)) \/ UNCHANGED Channel!channelVars
        BY <1>9, <2>2
      <3>3. ASSUME Channel!MarkDelivered(Current(d))
            PROVE  \E e \in Events : Channel!MarkDelivered(e)
        BY <3>1, <3>3 DEF Channel!MarkDelivered
      <3> QED
        BY <3>2, <3>3 DEF Channel!ChannelNext
    <2> QED
      BY <1>5, <1>6, <1>8, <1>12, <2>1, <2>2 DEF Dispatch
  <1> QED
    BY <1>2, <1>3, <1>4, <1>10, <1>12 DEF Next, Channel!ChannelNext

\* FR-013, SC-006, the safety of the channel the services count on: a row says
\* ENTREGADO only after QStash took its event, and for good, whatever fails or
\* is killed on the way. (That every committed event is delivered is liveness.)
THEOREM ImplementsChannelSafety == Spec => Channel!ChannelSafety
  <1>1. Init => Channel!ChannelInit
    BY RowsMade DEF Init, Channel!ChannelInit
  <1> QED
    BY <1>1, StepImplements, Invariance, PTL DEF Spec, Channel!ChannelSafety
===========================================================================
