------------------------ MODULE ModemShutdownProofs ------------------------
(***************************************************************************)
(* Proofs about the count of modem shutdowns for every limit, period and   *)
(* length of the run.  T0 below is the time of the latest take (or of the  *)
(* boot).  The argument: what is in the semaphore, oldest first, cannot be *)
(* older than one period for every take it has survived (IRecent), and a   *)
(* shutdown no longer in it is older by a period for every place further   *)
(* back (IOld).                                                            *)
(***************************************************************************)
EXTENDS ModemShutdown, TLAPS

T0 == takeAt - Period

Periods(a) == a * Period

\* The j-th latest shutdown is one of those counted: how old it may be.
IRecent == \A j \in 1 .. sem : last[j] >= T0 - Periods(MaxDaily - 1 - sem + j)

\* The i-th latest of those not counted any more: how old it must be.
IOld == \A i \in 1 .. MaxDaily + 1 :
          sem + i <= 2 * MaxDaily => last[sem + i] <= T0 - Periods(i - 1)

\* The shutdowns are recorded latest first.
IOrder == \A i, j \in 1 .. 2 * MaxDaily : i <= j => last[j] <= last[i]

ICount == /\ app = IF sem = MaxDaily THEN "panicked" ELSE "running"
          /\ T0 <= now
          /\ IOrder
          /\ IRecent
          /\ app = "running" => IOld

LEMMA StepCases ==
  ASSUME [Next]_vars
  PROVE  \/ on_modem_shutdown \/ shutdown_decrementer_worker \/ Tick \/ Reset
         \/ UNCHANGED vars
BY DEF Next

\* Multiples of the period, kept folded in the proofs below.
LEMMA Multiples ==
  /\ \A a \in Int : /\ Periods(a) \in Int
                    /\ Periods(a + 1) = Periods(a) + Period
                    /\ a >= 0 => Periods(a) >= 0
                    /\ a <= MaxDaily => Periods(a) <= Day
  /\ Periods(0) = 0
  /\ Periods(MaxDaily) = Day
<1> USE MaxDailyAssumption, PeriodAssumption DEF Periods, Day
<1>1. ASSUME NEW a \in Int, a <= MaxDaily PROVE Periods(a) <= Day
  <2>1. MaxDaily * Period - a * Period = (MaxDaily - a) * Period
    BY <1>1
  <2>2. (MaxDaily - a) * Period >= 0
    BY <1>1
  <2> QED BY <1>1, <2>1, <2>2
<1> QED BY <1>1

LEMMA DayIsInt == Day \in Int /\ Day >= Period /\ Periods(MaxDaily - 1) = Day - Period
<1>1. MaxDaily - 1 \in Int /\ MaxDaily \in Int /\ MaxDaily - 1 >= 0
      /\ MaxDaily = (MaxDaily - 1) + 1
  BY MaxDailyAssumption
<1>2. Periods(MaxDaily) = Periods(MaxDaily - 1) + Period
  BY <1>1, Multiples
<1> QED BY <1>1, <1>2, Multiples, PeriodAssumption

\* Types: the semaphore within its limit, the thread's next take at most a period
\* away, every recorded time between a day before boot and now.
THEOREM TypeCorrect == Spec => []TypeOK
<1> USE MaxDailyAssumption, PeriodAssumption, MaxTimeAssumption, DayIsInt
<1>1. Init => TypeOK
  BY DEF Init, TypeOK, History
<1>2. TypeOK /\ [Next]_vars => TypeOK'
  <2> SUFFICES ASSUME TypeOK, [Next]_vars PROVE TypeOK'
    OBVIOUS
  <2> USE DEF TypeOK
  <2>1. CASE on_modem_shutdown
    <3>1. last' \in [History -> -Day .. now]
      BY <2>1 DEF on_modem_shutdown, Recorded, History
    <3> QED
      BY <2>1, <3>1 DEF on_modem_shutdown, Given
  <2>2. CASE shutdown_decrementer_worker
    BY <2>2 DEF shutdown_decrementer_worker, Taken
  <2>3. CASE Tick
    BY <2>3 DEF Tick
  <2>4. CASE Reset
    BY <2>4 DEF Reset
  <2>5. CASE UNCHANGED vars
    BY <2>5 DEF vars
  <2> QED
    BY <2>1, <2>2, <2>3, <2>4, <2>5, StepCases
<1> QED
  BY <1>1, <1>2, PTL DEF Spec

LEMMA CountInit == Init => ICount
<1> SUFFICES ASSUME Init PROVE ICount
  OBVIOUS
<1> USE MaxDailyAssumption, PeriodAssumption, DayIsInt
<1>1. T0 = 0 /\ now = 0 /\ sem = 0 /\ app = "running"
  BY DEF Init, T0
<1>2. IOrder /\ IRecent
  BY <1>1 DEF Init, IOrder, IRecent, History
<1>3. ASSUME NEW i \in 1 .. MaxDaily + 1, sem + i <= 2 * MaxDaily
      PROVE  last[sem + i] <= T0 - Periods(i - 1)
  <2>1. last[sem + i] = -Day
    BY <1>1, <1>3 DEF Init, History
  <2>2. Periods(i - 1) <= Day
    BY <1>3, Multiples
  <2> QED BY <1>1, <1>3, <2>1, <2>2, Multiples
<1> QED BY <1>1, <1>2, <1>3 DEF ICount, IOld

\* What the invariant says in plain numbers, for the steps below.
LEMMA Numbers ==
  ASSUME TypeOK
  PROVE  /\ now \in Int /\ sem \in 0 .. MaxDaily /\ takeAt \in Int /\ T0 \in Int
         /\ now <= T0 + Period
         /\ \A i \in 1 .. 2 * MaxDaily : last[i] \in Int /\ last[i] <= now
         /\ MaxDaily \in Nat /\ MaxDaily >= 1 /\ Period \in Nat /\ Period >= 1
BY MaxDailyAssumption, PeriodAssumption, MaxTimeAssumption, DayIsInt DEF TypeOK, T0, History

\* A shutdown: every place moves one further back, and one more is counted.
LEMMA CountShutdown == TypeOK /\ ICount /\ on_modem_shutdown => ICount'
<1> SUFFICES ASSUME TypeOK, ICount, on_modem_shutdown PROVE ICount'
  OBVIOUS
<1> USE Numbers
<1>1. /\ sem < MaxDaily /\ sem' = sem + 1 /\ now' = now /\ T0' = T0
      /\ app' = IF sem' = MaxDaily THEN "panicked" ELSE "running"
      /\ app = "running" /\ T0 <= now
  BY DEF on_modem_shutdown, ICount, Given, T0, TypeOK
<1>2. /\ last'[1] = now
      /\ \A i \in 2 .. 2 * MaxDaily : last'[i] = last[i - 1]
  BY DEF on_modem_shutdown, Recorded, History
<1>3. IOrder'
  <2> SUFFICES ASSUME NEW i \in 1 .. 2 * MaxDaily, NEW j \in 1 .. 2 * MaxDaily, i <= j
               PROVE  last'[j] <= last'[i]
    BY DEF IOrder
  <2>1. CASE i = 1
    BY <1>2, <2>1
  <2>2. CASE i # 1
    BY <1>2, <2>2 DEF ICount, IOrder
  <2> QED BY <2>1, <2>2
<1>4. IRecent'
  <2> SUFFICES ASSUME NEW j \in 1 .. sem + 1
               PROVE  last'[j] >= T0 - Periods(MaxDaily - 1 - (sem + 1) + j)
    BY <1>1 DEF IRecent
  <2>1. CASE j = 1
    <3>1. Periods(MaxDaily - 1 - (sem + 1) + j) >= 0
      BY <1>1, <2>1, Multiples
    <3> QED
      BY <1>1, <1>2, <2>1, <3>1, Multiples
  <2>2. CASE j # 1
    <3>1. last[j - 1] >= T0 - Periods(MaxDaily - 1 - sem + (j - 1))
      BY <2>2 DEF ICount, IRecent
    <3>2. MaxDaily - 1 - sem + (j - 1) = MaxDaily - 1 - (sem + 1) + j
      BY <1>1
    <3> QED
      BY <1>1, <1>2, <2>2, <3>1, <3>2
  <2> QED BY <2>1, <2>2
<1>5. IOld'
  <2> SUFFICES ASSUME NEW i \in 1 .. MaxDaily + 1, sem + 1 + i <= 2 * MaxDaily
               PROVE  last'[sem + 1 + i] <= T0 - Periods(i - 1)
    BY <1>1 DEF IOld
  <2>1. last[sem + i] <= T0 - Periods(i - 1)
    BY <1>1 DEF ICount, IOld
  <2> QED BY <1>1, <1>2, <2>1
<1> QED BY <1>1, <1>3, <1>4, <1>5 DEF ICount

\* A take: T0 moves on by a period, and one less is counted.
LEMMA CountTake == TypeOK /\ ICount /\ shutdown_decrementer_worker => ICount'
<1> SUFFICES ASSUME TypeOK, ICount, shutdown_decrementer_worker PROVE ICount'
  OBVIOUS
<1> USE Numbers
<1>1. /\ sem < MaxDaily /\ sem' = Taken(sem) /\ now' = now /\ last' = last
      /\ T0' = T0 + Period /\ now = T0 + Period
      /\ app' = "running" /\ app = "running"
  BY DEF shutdown_decrementer_worker, ICount, T0, TypeOK
<1>2. sem' \in 0 .. MaxDaily /\ sem' < MaxDaily
  BY <1>1 DEF Taken
<1>3. IOrder'
  BY <1>1 DEF IOrder, ICount
<1>4. IRecent'
  <2> SUFFICES ASSUME NEW j \in 1 .. sem'
               PROVE  last'[j] >= T0' - Periods(MaxDaily - 1 - sem' + j)
    BY DEF IRecent
  <2>1. sem' = sem - 1 /\ j \in 1 .. sem
    BY <1>1 DEF Taken
  <2>2. last[j] >= T0 - Periods(MaxDaily - 1 - sem + j)
    BY <2>1 DEF ICount, IRecent
  <2>3. Periods(MaxDaily - 1 - sem' + j) = Periods(MaxDaily - 1 - sem + j) + Period
    <3>1. MaxDaily - 1 - sem' + j = (MaxDaily - 1 - sem + j) + 1
      BY <2>1
    <3> QED BY <3>1, <2>1, Multiples
  <2>4. Periods(MaxDaily - 1 - sem + j) \in Int
    BY Multiples
  <2> QED BY <1>1, <2>1, <2>2, <2>3, <2>4
<1>5. IOld'
  <2> SUFFICES ASSUME NEW i \in 1 .. MaxDaily + 1, sem' + i <= 2 * MaxDaily
               PROVE  last'[sem' + i] <= T0' - Periods(i - 1)
    BY DEF IOld
  <2>1. CASE i = 1
    <3>1. Periods(i - 1) = 0 /\ last[sem' + i] <= now
      BY <1>2, <2>1, Multiples
    <3> QED BY <1>1, <3>1
  <2>2. CASE i # 1
    <3>1. Periods(i - 1) = Periods(i - 2) + Period
      BY <2>2, Multiples
    <3>2. last[sem + (i - 1)] <= T0 - Periods(i - 2)
      BY <1>1, <2>2 DEF ICount, IOld, Taken
    <3>3. last[sem' + i] <= last[sem + (i - 1)]
      <4>1. CASE sem = 0
        BY <1>1, <2>2, <4>1 DEF ICount, IOrder, Taken
      <4>2. CASE sem # 0
        BY <1>1, <2>2, <4>2 DEF Taken
      <4> QED BY <4>1, <4>2
    <3>4. Periods(i - 2) \in Int /\ last[sem' + i] \in Int /\ last[sem + (i - 1)] \in Int
      <4>1. sem + (i - 1) \in 1 .. 2 * MaxDaily /\ sem' + i \in 1 .. 2 * MaxDaily
        BY <1>1, <1>2, <2>2 DEF Taken
      <4>2. i - 2 \in Int
        OBVIOUS
      <4> QED BY <4>1, <4>2, Multiples
    <3> QED BY <1>1, <3>1, <3>2, <3>3, <3>4
  <2> QED BY <2>1, <2>2
<1> QED BY <1>1, <1>2, <1>3, <1>4, <1>5 DEF ICount

\* The inductive invariant.
LEMMA CountInvariant == Spec => []ICount
<1>1. TypeOK /\ ICount /\ [Next]_vars => ICount'
  <2> SUFFICES ASSUME TypeOK, ICount, [Next]_vars PROVE ICount'
    OBVIOUS
  <2>1. CASE Tick
    BY <2>1, Numbers DEF Tick, ICount, T0, IOrder, IRecent, IOld
  <2>2. CASE Reset
    <3>1. /\ app' = "running" /\ sem' = 0 /\ now' = now /\ T0' = now
          /\ \A i \in 1 .. 2 * MaxDaily : last'[i] = now - Day
      BY <2>2, Numbers DEF Reset, T0, History
    <3>2. IOrder' /\ IRecent'
      BY <3>1, Numbers, DayIsInt DEF IOrder, IRecent
    <3>3. ASSUME NEW i \in 1 .. MaxDaily + 1, sem' + i <= 2 * MaxDaily
          PROVE  last'[sem' + i] <= T0' - Periods(i - 1)
      <4>1. Periods(i - 1) <= Day
        BY Numbers, Multiples
      <4> QED BY <3>1, <3>3, <4>1, Numbers, DayIsInt, Multiples
    <3> QED BY <3>1, <3>2, <3>3, Numbers DEF ICount, IOld
  <2>3. CASE UNCHANGED vars
    BY <2>3 DEF vars, ICount, T0, IOrder, IRecent, IOld
  <2> QED
    BY <2>1, <2>2, <2>3, CountShutdown, CountTake, StepCases
<1> QED BY <1>1, CountInit, TypeCorrect, PTL DEF Spec

\* The panic and its message (modem.c:65): when the application is reset there
\* were MaxDaily shutdowns in the last day.
THEOREM PanicIsJustified == Spec => []PanicAfterMaxDaily
<1>1. TypeOK /\ ICount => PanicAfterMaxDaily
  <2> SUFFICES ASSUME TypeOK, ICount, app = "panicked"
               PROVE  last[MaxDaily] >= now - Day
    BY DEF PanicAfterMaxDaily
  <2> USE Numbers
  <2>1. sem = MaxDaily
    BY DEF ICount
  <2>2. last[MaxDaily] >= T0 - Periods(MaxDaily - 1 - sem + MaxDaily)
    BY <2>1 DEF ICount, IRecent
  <2>3. Periods(MaxDaily - 1 - sem + MaxDaily) = Day - Period
    <3>1. MaxDaily - 1 - sem + MaxDaily = MaxDaily - 1
      BY <2>1
    <3> QED BY <3>1, DayIsInt
  <2> QED BY <2>2, <2>3, DayIsInt
<1> QED BY <1>1, TypeCorrect, CountInvariant, PTL

\* Without a panic there were fewer than 2 * MaxDaily shutdowns in the last day.
THEOREM NoPanicIsBounded == Spec => []NoPanicBound
<1>1. TypeOK /\ ICount => NoPanicBound
  <2> SUFFICES ASSUME TypeOK, ICount, app = "running"
               PROVE  last[2 * MaxDaily] <= now - Day
    BY DEF NoPanicBound
  <2> USE Numbers
  <2>1. sem < MaxDaily /\ T0 <= now
    BY DEF ICount
  <2>2. last[sem + (MaxDaily + 1)] <= T0 - Periods(MaxDaily)
    <3>1. MaxDaily + 1 \in 1 .. MaxDaily + 1 /\ sem + (MaxDaily + 1) <= 2 * MaxDaily
          /\ MaxDaily + 1 - 1 = MaxDaily
      BY <2>1
    <3> QED BY <3>1 DEF ICount, IOld
  <2>3. last[2 * MaxDaily] <= last[sem + (MaxDaily + 1)]
    BY <2>1 DEF ICount, IOrder
  <2> QED BY <2>1, <2>2, <2>3, Multiples, DayIsInt
<1> QED BY <1>1, TypeCorrect, CountInvariant, PTL
=============================================================================
