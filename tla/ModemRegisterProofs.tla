------------------------ MODULE ModemRegisterProofs -------------------------
(***************************************************************************)
(* Proofs that modem_network_register returns 0 only to a caller whose     *)
(* modem it has seen registered, and that its loops try the networks found *)
(* in the order of their signal, for any networks, table and faults.       *)
(***************************************************************************)
EXTENDS ModemRegister, FiniteSetTheorems, WellFoundedInduction, TLAPS

\* The network is asked where the modem is only after it was seen registered.
IZero ==
  /\ ZeroMeansRegistered
  /\ pc = "monitor" => seen
  /\ attempt \in {"last", "config", "auto", "search", "try"}

USE DEF callVars, tableVars, modemVars, loopVars, Go, Return

\* Wherever the loops go on to, a call that ends there ends with an error.
LEMMA TryFromEnds ==
  ASSUME NEW ops, NEW k, TryFrom(ops, k)
  PROVE  \/ pc' = "done" /\ ret' = -1 /\ attempt' = attempt
         \/ pc' = "select" /\ attempt' = "try"
BY DEF TryFrom

LEMMA SearchFromEnds ==
  ASSUME NEW ops, NEW k, SearchFrom(ops, k)
  PROVE  \/ pc' = "done" /\ ret' = -1 /\ attempt' = attempt
         \/ pc' = "select" /\ attempt' \in {"search", "try"}
<1>1. CASE k \in DOMAIN ops
  BY <1>1 DEF SearchFrom
<1>2. CASE k \notin DOMAIN ops
  <2>1. TryFrom(operators', 1)
    BY <1>2 DEF SearchFrom
  <2> QED
    BY <2>1, TryFromEnds
<1> QED
  BY <1>1, <1>2

LEMMA NextAttemptEnds ==
  ASSUME IZero, NextAttempt
  PROVE  \/ pc' = "done" /\ ret' = -1 /\ attempt' = attempt
         \/ pc' \in {"select", "find"} /\ attempt' \in {"config", "auto", "search", "try"}
<1>1. CASE attempt \in {"last", "config"}
  BY <1>1 DEF NextAttempt
<1>2. CASE attempt = "auto" /\ ~network_searched
  BY <1>2 DEF NextAttempt
<1>3. CASE attempt = "auto" /\ network_searched
  <2>1. TryFrom(operators, 1)
    BY <1>3 DEF NextAttempt
  <2> QED
    BY <2>1, TryFromEnds
<1>4. CASE attempt = "search"
  <2>1. SearchFrom(operators, index + 1)
    BY <1>4 DEF NextAttempt
  <2> QED
    BY <2>1, SearchFromEnds
<1>5. CASE attempt = "try"
  <2>1. TryFrom(operators, index + 1)
    BY <1>5 DEF NextAttempt
  <2> QED
    BY <2>1, TryFromEnds
<1> QED
  BY <1>1, <1>2, <1>3, <1>4, <1>5 DEF IZero

LEMMA BeginStep ==
  ASSUME IZero, Begin \/ CommandFault
  PROVE  IZero'
<1> USE DEF IZero, ZeroMeansRegistered
<1>1. CASE CommandDone
  BY <1>1 DEF CommandDone
<1>2. CASE SystemMode
  BY <1>2 DEF SystemMode
<1>3. CASE SystemModeOff
  BY <1>3 DEF SystemModeOff
<1>4. CASE SetSystemMode
  BY <1>4 DEF SetSystemMode
<1>5. CASE AlreadyRegistered
  BY <1>5 DEF AlreadyRegistered
<1>6. CASE SimFailed
  BY <1>6 DEF SimFailed
<1>7. CASE NotRegistered
  BY <1>7 DEF NotRegistered
<1>8. CASE TurnOn
  BY <1>8 DEF TurnOn
<1>9. CASE CommandFails
  BY <1>9 DEF CommandFails
<1>10. CASE CommandRefused
  BY <1>10 DEF CommandRefused
<1>11. CASE SystemModeGarbled
  BY <1>11 DEF SystemModeGarbled
<1> QED
  BY <1>1, <1>2, <1>3, <1>4, <1>5, <1>6, <1>7, <1>8, <1>9, <1>10, <1>11 DEF Begin, CommandFault

LEMMA AttemptStep ==
  ASSUME IZero, Attempt
  PROVE  IZero'
<1>1. CASE Select
  BY <1>1 DEF Select, IZero, ZeroMeansRegistered
<1>2. CASE SelectFails
  BY <1>2, NextAttemptEnds DEF SelectFails, IZero, ZeroMeansRegistered
<1>3. CASE WaitRegistered
  <2>1. seen' = TRUE
    BY <1>3 DEF WaitRegistered, StatRegistered
  <2> QED
    BY <1>3, <2>1 DEF WaitRegistered, IZero, ZeroMeansRegistered
<1>4. CASE WaitFails
  BY <1>4, NextAttemptEnds DEF WaitFails, IZero, ZeroMeansRegistered
<1>5. CASE Monitored
  BY <1>5 DEF Monitored, IZero, ZeroMeansRegistered
<1>6. CASE TryMonitored
  BY <1>6 DEF TryMonitored, IZero, ZeroMeansRegistered
<1>7. CASE Find
  <2>1. \E ops : SearchFrom(ops, 1)
    BY <1>7 DEF Find
  <2>2. UNCHANGED seen
    BY <1>7 DEF Find
  <2> QED
    BY <2>1, <2>2, SearchFromEnds DEF IZero, ZeroMeansRegistered
<1>8. CASE FindFails
  <2>1. TryFrom(operators, 1) /\ UNCHANGED seen
    BY <1>8 DEF FindFails
  <2> QED
    BY <2>1, TryFromEnds DEF IZero, ZeroMeansRegistered
<1>9. CASE SearchMonitored
  <2>1. \E ops : SearchFrom(ops, index + 1)
    BY <1>9 DEF SearchMonitored
  <2>2. UNCHANGED seen
    BY <1>9 DEF SearchMonitored
  <2> QED
    BY <2>1, <2>2, SearchFromEnds DEF IZero, ZeroMeansRegistered
<1> QED
  BY <1>1, <1>2, <1>3, <1>4, <1>5, <1>6, <1>7, <1>8, <1>9 DEF Attempt

LEMMA OtherStep ==
  ASSUME IZero, Done \/ Environment \/ Call("upload") \/ Call("poll") \/ UNCHANGED vars
  PROVE  IZero'
<1> USE DEF IZero, ZeroMeansRegistered
<1>1. CASE Done
  BY <1>1 DEF Done
<1>2. CASE Environment
  BY <1>2 DEF Environment, ModemRegisters, CoverageChanges, CoverageReturns, SimFails
<1>3. CASE Call("upload") \/ Call("poll")
  BY <1>3 DEF Call
<1>4. CASE UNCHANGED vars
  BY <1>4 DEF vars
<1> QED
  BY <1>1, <1>2, <1>3, <1>4

-----------------------------------------------------------------------------
\* setup() asks for the network's time at 0 (main.c:440), and is right to: over any
\* order of failures, this call has seen the modem registered.
THEOREM ZeroIsRegistered == Spec => []ZeroMeansRegistered
<1>1. Init => IZero
  BY DEF Init, IZero, ZeroMeansRegistered
<1>2. IZero /\ [Next]_vars => IZero'
  BY BeginStep, AttemptStep, OtherStep DEF Next
<1>3. IZero => ZeroMeansRegistered
  BY DEF IZero
<1> QED
  BY <1>1, <1>2, <1>3, PTL DEF Spec
-----------------------------------------------------------------------------
(* The table of operators and the loops over it *)

Tables == BoundedSeq(Operators, MAX_OPERATORS)
Known(o) == o.rsrq # Unknown
Sorted(ops) == \A j, k \in DOMAIN ops : j < k => ~Stronger(ops[k], ops[j])

LEMMA LeastNumber ==
  ASSUME NEW S \in SUBSET Nat, S # {}
  PROVE  \E m \in S : \A n \in S : m <= n
<1>1. PICK m \in S : \A n \in S : <<n, m>> \notin OpToRel(<, Nat)
  BY NatLessThanWellFounded, WFMin
<1>2. \A n \in S : ~(n < m)
  BY <1>1 DEF OpToRel
<1> QED
  BY <1>2

LEMMA TableIsSeq ==
  ASSUME NEW ops
  PROVE  /\ ops \in Tables <=> \E m \in 0 .. MAX_OPERATORS : ops \in [1 .. m -> Operators]
         /\ \A m \in Nat : ops \in [1 .. m -> Operators] =>
              Len(ops) = m /\ DOMAIN ops = 1 .. m /\ ops \in Seq(Operators)
BY DEF Tables, BoundedSeq, SeqOf

\* What there is to know of a table.
LEMMA TableFacts ==
  ASSUME NEW ops \in Tables
  PROVE  /\ Len(ops) \in 0 .. MAX_OPERATORS /\ DOMAIN ops = 1 .. Len(ops)
         /\ ops \in [1 .. Len(ops) -> Operators]
         /\ \A k \in 1 .. Len(ops) : ops[k] \in Operators
         /\ \A k \in 1 .. Len(ops) : ops[k].mccmnc \in Networks /\ ops[k].rsrq \in Nat
<1>1. PICK m \in 0 .. MAX_OPERATORS : ops \in [1 .. m -> Operators]
  BY TableIsSeq
<1>2. m \in Nat
  BY <1>1, NetworksAssumption
<1>3. Len(ops) = m /\ DOMAIN ops = 1 .. m
  BY <1>1, <1>2, TableIsSeq
<1>4. \A k \in 1 .. m : ops[k] \in Operators
  BY <1>1
<1>5. \A o \in Operators : o.mccmnc \in Networks /\ o.rsrq \in Nat
  <2>1. Signals \union {Unknown} \subseteq Nat
    <3>1. 0 .. 254 \subseteq Nat
      OBVIOUS
    <3> QED
      BY <3>1, SignalsAssumption DEF Unknown
  <2> QED
    BY <2>1 DEF Operators
<1> QED
  BY <1>1, <1>3, <1>4, <1>5

\* Sorting leaves a table, and its entries in the order of their signal.
LEMMA SortedTable ==
  ASSUME NEW ops \in Tables, NEW s \in Sortings(ops)
  PROVE  s \in Tables /\ Sorted(s)
<1> DEFINE S == Range(ops)
           D == 1 .. Cardinality(S)
<1>1. s \in SetToSeqs(S) /\ Sorted(s)
  BY DEF Sortings, Sorted
<1>2. s \in [D -> S]
  BY <1>1 DEF SetToSeqs
<1>3. /\ Len(ops) \in 0 .. MAX_OPERATORS /\ ops \in [1 .. Len(ops) -> Operators]
  BY TableFacts
<1>4. ops \in Surjection(1 .. Len(ops), S)
  BY <1>3 DEF Surjection, Range
<1>5. IsFiniteSet(1 .. Len(ops)) /\ Cardinality(1 .. Len(ops)) = Len(ops)
  <2> DEFINE n == Len(ops)
  <2>1. n \in Nat
    BY <1>3, NetworksAssumption
  <2> HIDE DEF n
  <2>2. IsFiniteSet(1 .. n) /\ Cardinality(1 .. n) = n
    BY <2>1, FS_Interval
  <2> QED
    BY <2>2 DEF n
<1>6. IsFiniteSet(S) /\ Cardinality(S) <= Len(ops)
  BY <1>4, <1>5, FS_Surjection
<1>7. Cardinality(S) \in Nat
  BY <1>6, FS_CardinalityType
<1>8. Cardinality(S) \in 0 .. MAX_OPERATORS
  BY <1>3, <1>6, <1>7, NetworksAssumption
<1>9. S \subseteq Operators
  BY <1>3 DEF Range
<1>10. s \in [D -> Operators]
  BY <1>2, <1>9
<1> QED
  BY <1>1, <1>8, <1>10, TableIsSeq

\* The loop goes on at the first entry from the k-th of known signal, or ends for want of one.
TryResult(ops, k) ==
  \/ /\ pc' = "done" /\ ret' = -1 /\ UNCHANGED <<attempt, index>>
     /\ \A j \in DOMAIN ops : j >= k => ~Known(ops[j])
  \/ /\ pc' = "select" /\ attempt' = "try" /\ UNCHANGED ret
     /\ index' \in DOMAIN ops /\ index' >= k /\ Known(ops[index'])
     /\ \A j \in DOMAIN ops : k <= j /\ j < index' => ~Known(ops[j])

LEMMA TryFromResult ==
  ASSUME NEW ops \in Tables, NEW k \in Nat \ {0}, TryFrom(ops, k)
  PROVE  TryResult(ops, k)
<1> DEFINE known == {j \in k .. Len(ops) : ops[j].rsrq # Unknown}
<1>1. Len(ops) \in Nat /\ DOMAIN ops = 1 .. Len(ops)
  BY TableFacts, NetworksAssumption
<1>2. CASE known = {}
  <2>1. \A j \in DOMAIN ops : j >= k => ~Known(ops[j])
    BY <1>1, <1>2 DEF Known
  <2> QED
    BY <1>2, <2>1 DEF TryFrom, TryResult
<1>3. CASE known # {}
  <2>1. known \in SUBSET Nat
    BY <1>1
  <2>2. PICK m \in known : \A n \in known : m <= n
    BY <1>3, <2>1, LeastNumber
  <2>3. Min(known) \in known /\ \A n \in known : Min(known) <= n
    BY <2>2 DEF Min
  <2>4. pc' = "select" /\ attempt' = "try" /\ UNCHANGED ret /\ index' = Min(known)
    BY <1>3 DEF TryFrom
  <2>5. PICK i \in known : index' = i /\ \A n \in known : i <= n
    BY <2>3, <2>4
  <2>6. /\ i \in DOMAIN ops /\ i >= k /\ Known(ops[i])
        /\ \A j \in DOMAIN ops : k <= j /\ j < i => ~Known(ops[j])
    <3>1. i \in k .. Len(ops) /\ Known(ops[i])
      BY <2>5 DEF Known
    <3>2. ASSUME NEW j \in DOMAIN ops, k <= j, j < i, Known(ops[j]) PROVE FALSE
      <4>1. j \in known
        BY <1>1, <3>2 DEF Known
      <4>2. i <= j
        BY <2>5, <4>1
      <4> QED
        BY <1>1, <3>1, <3>2, <4>2
    <3> QED
      BY <1>1, <3>1, <3>2
  <2> HIDE DEF known
  <2> QED
    BY <2>4, <2>5, <2>6 DEF TryResult
<1> QED
  BY <1>2, <1>3

LEMMA SearchFromResult ==
  ASSUME NEW ops \in Tables, NEW k \in Nat \ {0}, SearchFrom(ops, k)
  PROVE  \/ /\ pc' = "select" /\ attempt' = "search" /\ index' = k /\ k \in DOMAIN ops
            /\ operators' = ops /\ UNCHANGED <<network_searched, ret>>
         \/ /\ network_searched' = TRUE
            /\ operators' \in Tables /\ Sorted(operators')
            /\ TryResult(operators', 1)
<1>1. CASE k \in DOMAIN ops
  BY <1>1 DEF SearchFrom
<1>2. CASE k \notin DOMAIN ops
  <2>1. network_searched' = TRUE /\ operators' \in Sortings(ops) /\ TryFrom(operators', 1)
    BY <1>2 DEF SearchFrom
  <2>2. operators' \in Tables /\ Sorted(operators')
    BY <2>1, SortedTable
  <2>3. 1 \in Nat \ {0}
    OBVIOUS
  <2>4. TryResult(operators', 1)
    BY <2>1, <2>2, <2>3, TryFromResult, Zenon
  <2> QED
    BY <2>1, <2>2, <2>4
<1> QED
  BY <1>1, <1>2
-----------------------------------------------------------------------------
(* The order of the attempts *)

Trying == pc \in {"select", "wait", "monitor"}

\* Which attempt is under way where, and what index then means.
IAttempt ==
  /\ pc \in {"idle", "at", "mode", "off", "setMode", "cereg", "cgdcont", "on",
             "select", "wait", "monitor", "find", "done"}
  /\ attempt \in {"last", "config", "auto", "search", "try"}
  /\ pc \in {"at", "mode", "off", "setMode", "cereg", "cgdcont", "on"} => attempt = "last"
  /\ pc = "find" => attempt = "auto" /\ ~network_searched
  /\ pc = "monitor" => attempt # "last"
  /\ index \in 1 .. MAX_OPERATORS + 1
  /\ attempt \in {"search", "try"} /\ Trying => index \in DOMAIN operators

\* The table is filled by a search, and sorted when that is done.
ITable ==
  /\ operators \in Tables
  /\ network_searched \in BOOLEAN
  /\ network_searched => Sorted(operators)
  /\ ~network_searched => operators = <<>> \/ (attempt = "search" /\ Trying)
  /\ attempt = "search" /\ Trying => ~network_searched
  /\ attempt = "try" => network_searched

\* Before the operator being tried all others of known signal have been, and in the
\* end all.
ITried ==
  attempt = "try" =>
    /\ pc \in {"select", "wait", "monitor", "done", "idle"}
    /\ Trying => /\ Known(operators[index])
                 /\ \A j \in DOMAIN operators :
                      j < index /\ Known(operators[j]) => operators[j].mccmnc \in tried
    /\ pc \in {"wait", "monitor"} => operators[index].mccmnc \in tried
    /\ pc = "done" /\ ret = -1 =>
         \A j \in DOMAIN operators : Known(operators[j]) => operators[j].mccmnc \in tried

ILoops == IAttempt /\ ITable /\ ITried

LEMMA EmptyTable == <<>> \in Tables /\ Sorted(<<>>) /\ DOMAIN <<>> = {}
<1>1. <<>> \in [1 .. 0 -> Operators] /\ DOMAIN <<>> = {}
  OBVIOUS
<1>2. 0 \in 0 .. MAX_OPERATORS
  BY NetworksAssumption
<1> QED
  BY <1>1, <1>2, TableIsSeq DEF Sorted

\* A loop over a sorted table that has tried all before its k-th entry goes on rightly.
LEMMA LoopGoesOn ==
  ASSUME IAttempt, operators' \in Tables, network_searched' = TRUE, Sorted(operators'),
         NEW k \in Nat \ {0}, TryResult(operators', k),
         \A j \in DOMAIN operators' :
           j < k /\ Known(operators'[j]) => operators'[j].mccmnc \in tried'
  PROVE  ILoops'
<1> DEFINE ops == operators'
<1>1. DOMAIN ops = 1 .. Len(ops) /\ Len(ops) \in 0 .. MAX_OPERATORS
  BY TableFacts, Zenon
<1>2. CASE /\ pc' = "done" /\ ret' = -1 /\ UNCHANGED <<attempt, index>>
           /\ \A j \in DOMAIN ops : j >= k => ~Known(ops[j])
  <2>1. \A j \in DOMAIN ops : Known(ops[j]) => ops[j].mccmnc \in tried'
    BY <1>1, <1>2
  <2> QED
    BY <1>2, <2>1 DEF ILoops, IAttempt, ITable, ITried, Trying
<1>3. CASE /\ pc' = "select" /\ attempt' = "try" /\ UNCHANGED ret
           /\ index' \in DOMAIN ops /\ index' >= k /\ Known(ops[index'])
           /\ \A j \in DOMAIN ops : k <= j /\ j < index' => ~Known(ops[j])
  <2>1. PICK i \in DOMAIN ops : index' = i
    BY <1>3
  <2>2. i \in 1 .. MAX_OPERATORS + 1
    BY <1>1, NetworksAssumption
  <2>3. \A j \in DOMAIN ops : j < i /\ Known(ops[j]) => ops[j].mccmnc \in tried'
    BY <1>1, <1>3, <2>1
  <2>4. IAttempt'
    BY <1>3, <2>1, <2>2 DEF IAttempt, Trying
  <2>5. ITable'
    BY <1>3 DEF ITable
  <2>6. ITried'
    BY <1>3, <2>1, <2>3 DEF ITried, Trying
  <2> QED
    BY <2>4, <2>5, <2>6 DEF ILoops
<1> QED
  BY <1>2, <1>3 DEF TryResult

\* So does the search loop, from any entry of a table not yet searched to its end.
LEMMA SearchGoesOn ==
  ASSUME ILoops, ~network_searched, NEW ops \in Tables, NEW k \in Nat \ {0},
         SearchFrom(ops, k)
  PROVE  ILoops'
<1>1. CASE /\ pc' = "select" /\ attempt' = "search" /\ index' = k /\ k \in DOMAIN ops
           /\ operators' = ops /\ UNCHANGED <<network_searched, ret>>
  <2>1. k \in 1 .. MAX_OPERATORS + 1
    BY <1>1, TableFacts, NetworksAssumption
  <2>2. IAttempt'
    BY <1>1, <2>1 DEF ILoops, IAttempt, Trying
  <2>3. ITable'
    BY <1>1 DEF ILoops, ITable, Trying
  <2>4. ITried'
    BY <1>1 DEF ITried
  <2> QED
    BY <2>2, <2>3, <2>4 DEF ILoops
<1>2. CASE /\ network_searched' = TRUE
           /\ operators' \in Tables /\ Sorted(operators')
           /\ TryResult(operators', 1)
  <2>1. \A j \in DOMAIN operators' : ~(j < 1)
    <3>1. \A t \in Tables : \A j \in DOMAIN t : ~(j < 1)
      BY TableFacts
    <3> QED
      BY <1>2, <3>1
  <2>2. \A j \in DOMAIN operators' :
          j < 1 /\ Known(operators'[j]) => operators'[j].mccmnc \in tried'
    BY <2>1
  <2>3. IAttempt /\ 1 \in Nat \ {0}
    BY DEF ILoops
  <2> QED
    BY <1>2, <2>2, <2>3, LoopGoesOn
<1> QED
  BY <1>1, <1>2, SearchFromResult

\* The commands before the first attempt touch neither the loops nor the table.
LEMMA LoopsNotBegun ==
  ASSUME ILoops, UNCHANGED <<tableVars, loopVars>>, attempt = "last",
         pc' \in {"mode", "off", "setMode", "cereg", "cgdcont", "on", "select", "wait",
                  "done", "idle"}
  PROVE  ILoops'
<1>1. operators' = operators /\ network_searched' = network_searched
      /\ attempt' = "last" /\ index' = index
  BY Zenon
<1>2. IAttempt'
  BY <1>1 DEF ILoops, IAttempt
<1>3. ITable'
  BY <1>1 DEF ILoops, ITable
<1>4. ITried'
  BY <1>1 DEF ITried
<1> QED
  BY <1>2, <1>3, <1>4 DEF ILoops

\* After an attempt at an operator, which has then been tried, the next is the right one.
LEMMA NextAttemptRight ==
  ASSUME ILoops, NextAttempt, pc \in {"select", "wait"}, tried \subseteq tried',
         attempt = "try" => operators[index].mccmnc \in tried'
  PROVE  ILoops'
<1> USE DEF ILoops
<1>0. index \in 1 .. MAX_OPERATORS + 1 /\ 1 \in Nat \ {0} /\ index + 1 \in Nat \ {0}
  <2>1. index \in 1 .. MAX_OPERATORS + 1
    BY DEF IAttempt
  <2> QED
    BY <2>1, NetworksAssumption
<1>1. CASE attempt \in {"last", "config"}
  <2>1. /\ attempt' \in {"config", "auto"} /\ pc' = "select"
        /\ operators' = operators /\ network_searched' = network_searched /\ index' = index
    BY <1>1 DEF NextAttempt
  <2>2. IAttempt'
    BY <2>1 DEF IAttempt, Trying
  <2>3. ITable'
    BY <1>1, <2>1 DEF ITable, Trying
  <2>4. ITried'
    BY <2>1 DEF ITried
  <2> QED
    BY <2>2, <2>3, <2>4
<1>2. CASE attempt = "auto" /\ ~network_searched
  <2>1. /\ attempt' = "auto" /\ pc' = "find"
        /\ operators' = operators /\ network_searched' = network_searched /\ index' = index
    BY <1>2 DEF NextAttempt
  <2>2. IAttempt'
    BY <1>2, <2>1 DEF IAttempt, Trying
  <2>3. ITable'
    BY <1>2, <2>1 DEF ITable, Trying
  <2>4. ITried'
    BY <2>1 DEF ITried
  <2> QED
    BY <2>2, <2>3, <2>4
<1>3. CASE attempt = "auto" /\ network_searched
  <2>1. TryFrom(operators, 1) /\ operators' = operators /\ network_searched' = network_searched
    BY <1>3 DEF NextAttempt
  <2>2. operators \in Tables /\ Sorted(operators) /\ network_searched' = TRUE
    BY <1>3, <2>1 DEF ITable
  <2>3. TryResult(operators, 1)
    BY <1>0, <2>1, <2>2, TryFromResult
  <2>4. \A j \in DOMAIN operators : ~(j < 1)
    BY <2>2, TableFacts
  <2>5. \A j \in DOMAIN operators : j < 1 /\ Known(operators[j]) => operators[j].mccmnc \in tried'
    BY <2>4
  <2> QED
    BY <1>0, <2>1, <2>2, <2>3, <2>5, LoopGoesOn
<1>4. CASE attempt = "search"
  <2>1. SearchFrom(operators, index + 1) /\ operators \in Tables
    BY <1>4 DEF NextAttempt, ITable
  <2>2. ~network_searched
    BY <1>4 DEF ITable, Trying
  <2> QED
    BY <1>0, <2>1, <2>2, SearchGoesOn
<1>5. CASE attempt = "try"
  <2>1. TryFrom(operators, index + 1) /\ operators' = operators
        /\ network_searched' = network_searched
    BY <1>5 DEF NextAttempt
  <2>2. operators \in Tables /\ Sorted(operators) /\ network_searched' = TRUE
    BY <1>5, <2>1 DEF ITable
  <2>3. TryResult(operators, index + 1)
    BY <1>0, <2>1, <2>2, TryFromResult
  <2>4. ASSUME NEW j \in DOMAIN operators, j < index + 1, Known(operators[j])
        PROVE  operators[j].mccmnc \in tried'
    <3>1. j \in Nat
      BY <2>2, TableFacts
    <3>2. CASE j = index
      BY <1>5, <3>2
    <3>3. CASE j < index
      <4>1. operators[j].mccmnc \in tried
        BY <1>5, <2>4, <3>3 DEF ITried, Trying
      <4> QED
        BY <4>1
    <3> QED
      BY <1>0, <2>4, <3>1, <3>2, <3>3
  <2> QED
    BY <1>0, <2>1, <2>2, <2>3, <2>4, LoopGoesOn
<1> QED
  BY <1>1, <1>2, <1>3, <1>4, <1>5 DEF IAttempt

\* Networks, as far as the attempts and the table need them, and the modem.
IModem ==
  /\ caller \in {"setup", "upload", "poll"}
  /\ ret \in -1 .. 1
  /\ mccmnc \in Networks
  /\ modeSet \in BOOLEAN /\ radio \in BOOLEAN /\ simOk \in BOOLEAN /\ seen \in BOOLEAN
  /\ cops \in Networks \union {AnyNetwork}
  /\ serving \in IF radio /\ simOk THEN coverage \union {NoNetwork} ELSE {NoNetwork}
  /\ coverage \in SUBSET Networks
  /\ faults \in 0 .. MaxFaults
  /\ tried \subseteq Networks

LEMMA LoopsBegin ==
  ASSUME ILoops, Begin \/ CommandFault
  PROVE  ILoops'
<1>1. pc \in {"at", "mode", "off", "setMode", "cereg", "cgdcont", "on"} => attempt = "last"
  BY DEF ILoops, IAttempt
<1>2. CASE CommandDone
  BY <1>1, <1>2, LoopsNotBegun DEF CommandDone
<1>3. CASE SystemMode
  BY <1>1, <1>3, LoopsNotBegun DEF SystemMode
<1>4. CASE SystemModeOff
  BY <1>1, <1>4, LoopsNotBegun DEF SystemModeOff
<1>5. CASE SetSystemMode
  BY <1>1, <1>5, LoopsNotBegun DEF SetSystemMode
<1>6. CASE AlreadyRegistered
  BY <1>1, <1>6, LoopsNotBegun DEF AlreadyRegistered
<1>7. CASE SimFailed
  BY <1>1, <1>7, LoopsNotBegun DEF SimFailed
<1>8. CASE NotRegistered
  BY <1>1, <1>8, LoopsNotBegun DEF NotRegistered
<1>9. CASE TurnOn
  BY <1>1, <1>9, LoopsNotBegun DEF TurnOn
<1>10. CASE CommandFails
  BY <1>1, <1>10, LoopsNotBegun DEF CommandFails
<1>11. CASE CommandRefused
  BY <1>1, <1>11, LoopsNotBegun DEF CommandRefused
<1>12. CASE SystemModeGarbled
  BY <1>1, <1>12, LoopsNotBegun DEF SystemModeGarbled
<1> QED
  BY <1>2, <1>3, <1>4, <1>5, <1>6, <1>7, <1>8, <1>9, <1>10, <1>11, <1>12
  DEF Begin, CommandFault

\* A step within the attempt at an operator, or the end of the call in it.
LEMMA LoopsStay ==
  ASSUME ILoops, UNCHANGED <<tableVars, attempt, index>>, tried \subseteq tried',
         \/ pc = "select" /\ pc' = "wait"
         \/ pc = "wait" /\ pc' = "monitor" /\ attempt # "last"
         \/ pc = "wait" /\ pc' = "done" /\ attempt = "last"
         \/ pc = "monitor" /\ pc' = "done" /\ attempt \in {"config", "auto"}
         \/ pc = "monitor" /\ pc' = "done" /\ attempt = "try" /\ ret' = 0,
         pc' = "wait" /\ attempt = "try" => operators[index].mccmnc \in tried'
  PROVE  ILoops'
<1> USE DEF ILoops
<1>1. operators' = operators /\ network_searched' = network_searched
      /\ attempt' = attempt /\ index' = index
  BY Zenon
<1>2. IAttempt'
  BY <1>1 DEF IAttempt, Trying
<1>3. ITable'
  BY <1>1 DEF ITable, Trying
<1>4. ITried'
  <2> SUFFICES ASSUME attempt = "try"
               PROVE  ITried'
    BY <1>1 DEF ITried
  <2>1. /\ Known(operators[index])
        /\ \A j \in DOMAIN operators :
             j < index /\ Known(operators[j]) => operators[j].mccmnc \in tried'
    BY DEF ITried, Trying
  <2>2. pc' \in {"wait", "monitor"} => operators[index].mccmnc \in tried'
    BY DEF ITried
  <2>3. pc' \in {"wait", "monitor", "done"} /\ (pc' = "done" => ret' = 0)
    OBVIOUS
  <2> QED
    BY <1>1, <2>1, <2>2, <2>3 DEF ITried
<1> QED
  BY <1>2, <1>3, <1>4

\* What the loop over the operators has come to.
LEMMA TriesTarget ==
  ASSUME tried' = Tries
  PROVE  /\ tried \subseteq tried'
         /\ attempt = "try" => operators[index].mccmnc \in tried'
<1>1. attempt = "try" => Target = operators[index].mccmnc
  BY DEF Target
<1> QED
  BY <1>1 DEF Tries

LEMMA LoopsAttempt ==
  ASSUME ILoops, IModem, Attempt
  PROVE  ILoops'
<1>1. CASE Select
  BY <1>1, TriesTarget, LoopsStay DEF Select
<1>2. CASE SelectFails
  <2>1. pc = "select" /\ tried' = Tries /\ NextAttempt
    BY <1>2 DEF SelectFails
  <2> QED
    BY <2>1, TriesTarget, NextAttemptRight
<1>3. CASE WaitRegistered
  <2>1. UNCHANGED <<tableVars, attempt, index>> /\ tried' = tried
        /\ pc = "wait" /\ pc' = (IF attempt = "last" THEN "done" ELSE "monitor")
    BY <1>3 DEF WaitRegistered
  <2> QED
    BY <2>1, LoopsStay
<1>4. CASE WaitFails
  <2>1. pc = "wait" /\ tried' = tried /\ NextAttempt
    BY <1>4 DEF WaitFails
  <2>2. attempt = "try" => operators[index].mccmnc \in tried'
    BY <2>1 DEF ILoops, ITried
  <2> QED
    BY <2>1, <2>2, NextAttemptRight
<1>5. CASE Monitored
  <2>1. /\ UNCHANGED <<tableVars, attempt, index>> /\ tried' = tried
        /\ pc = "monitor" /\ pc' = "done" /\ attempt \in {"config", "auto"}
    BY <1>5 DEF Monitored
  <2> QED
    BY <2>1, LoopsStay
<1>6. CASE TryMonitored
  <2>1. /\ UNCHANGED <<tableVars, attempt, index>> /\ tried' = tried
        /\ pc = "monitor" /\ pc' = "done" /\ attempt = "try" /\ ret' = 0
    BY <1>6 DEF TryMonitored
  <2> QED
    BY <2>1, LoopsStay
<1>7. CASE Find
  <2>1. pc = "find" /\ ~network_searched
    BY <1>7 DEF Find, ILoops, IAttempt
  <2>2. PICK S \in SUBSET Networks : \E found \in SetToSeqs(S) :
          /\ Fits(Len(found))
          /\ SearchFrom([k \in DOMAIN found |-> [mccmnc |-> found[k], rsrq |-> Unknown]], 1)
    BY <1>7 DEF Find
  <2>3. PICK found \in SetToSeqs(S) :
          /\ Fits(Len(found))
          /\ SearchFrom([k \in DOMAIN found |-> [mccmnc |-> found[k], rsrq |-> Unknown]], 1)
    BY <2>2
  <2> DEFINE ops == [k \in DOMAIN found |-> [mccmnc |-> found[k], rsrq |-> Unknown]]
  <2>4. ops \in Tables
    <3>1. found \in [1 .. Cardinality(S) -> S]
      BY DEF SetToSeqs
    <3>2. IsFiniteSet(S)
      BY NetworksAssumption, FS_Subset
    <3>3. PICK m \in Nat : Cardinality(S) = m
      BY <3>2, FS_CardinalityType
    <3>4. DOMAIN found = 1 .. m /\ Len(found) = m
      BY <3>1, <3>3
    <3>5. m \in 0 .. MAX_OPERATORS
      BY <2>3, <3>3, <3>4, NetworksAssumption DEF Fits
    <3>6. \A k \in 1 .. m : [mccmnc |-> found[k], rsrq |-> Unknown] \in Operators
      BY <3>1, <3>3 DEF Operators
    <3>7. ops \in [1 .. m -> Operators]
      BY <3>4, <3>6
    <3> QED
      BY <3>5, <3>7, TableIsSeq
  <2>5. SearchFrom(ops, 1) /\ 1 \in Nat \ {0}
    BY <2>3
  <2> HIDE DEF ops
  <2> QED
    BY <2>1, <2>4, <2>5, SearchGoesOn
<1>8. CASE FindFails
  <2>1. /\ network_searched' = TRUE /\ operators' = operators
        /\ TryFrom(operators, 1) /\ pc = "find"
    BY <1>8 DEF FindFails
  <2>2. operators = <<>>
    BY <2>1 DEF ILoops, IAttempt, ITable
  <2>3. operators \in Tables /\ Sorted(operators) /\ DOMAIN operators = {}
    BY <2>2, EmptyTable
  <2>4. 1 \in Nat \ {0}
    OBVIOUS
  <2>5. TryResult(operators, 1)
    BY <2>1, <2>3, <2>4, TryFromResult
  <2>6. IAttempt
    BY DEF ILoops
  <2>7. \A j \in DOMAIN operators : j < 1 /\ Known(operators[j]) => operators[j].mccmnc \in tried'
    BY <2>3
  <2> QED
    BY <2>1, <2>3, <2>4, <2>5, <2>6, <2>7, LoopGoesOn
<1>9. CASE SearchMonitored
  <2>1. pc = "monitor" /\ attempt = "search"
    BY <1>9 DEF SearchMonitored
  <2>2. /\ ~network_searched /\ operators \in Tables /\ index \in DOMAIN operators
        /\ index + 1 \in Nat \ {0}
    <3>1. ~network_searched /\ operators \in Tables /\ index \in DOMAIN operators
      BY <2>1 DEF ILoops, IAttempt, ITable, Trying
    <3> QED
      BY <3>1, TableFacts
  <2>3. PICK q \in Signals \union {Unknown} :
          SearchFrom([operators EXCEPT ![index].rsrq = q], index + 1)
    BY <1>9 DEF SearchMonitored
  <2>4. [operators EXCEPT ![index].rsrq = q] \in Tables
    <3>1. PICK m \in 0 .. MAX_OPERATORS : operators \in [1 .. m -> Operators]
      BY <2>2, TableIsSeq
    <3>2. index \in 1 .. m /\ operators[index] \in Operators
      BY <2>2, <3>1
    <3>3. [operators[index] EXCEPT !.rsrq = q] \in Operators
      BY <3>2 DEF Operators
    <3>4. [operators EXCEPT ![index].rsrq = q] \in [1 .. m -> Operators]
      BY <3>1, <3>3
    <3> QED
      BY <3>4, TableIsSeq
  <2> QED
    BY <2>2, <2>3, <2>4, SearchGoesOn
<1> QED
  BY <1>1, <1>2, <1>3, <1>4, <1>5, <1>6, <1>7, <1>8, <1>9 DEF Attempt

LEMMA LoopsOther ==
  ASSUME ILoops, Done \/ Environment \/ Call("upload") \/ Call("poll") \/ UNCHANGED vars
  PROVE  ILoops'
<1>1. CASE Done
  <2>1. pc = "done" /\ pc' = "idle" /\ UNCHANGED <<tableVars, loopVars, ret>>
    BY <1>1 DEF Done
  <2> QED
    BY <2>1 DEF ILoops, IAttempt, ITable, ITried, Trying
<1>2. CASE Environment \/ UNCHANGED vars
  <2>1. UNCHANGED <<pc, tableVars, loopVars, ret>>
    BY <1>2 DEF Environment, ModemRegisters, CoverageChanges, CoverageReturns, SimFails, vars
  <2> QED
    BY <2>1 DEF ILoops, IAttempt, ITable, ITried, Trying
<1>3. CASE Call("upload") \/ Call("poll")
  <2>1. /\ pc = "idle" /\ pc' = "at" /\ attempt' = "last" /\ index' = 1
        /\ UNCHANGED tableVars
    BY <1>3 DEF Call
  <2>2. 1 \in 1 .. MAX_OPERATORS + 1
    BY NetworksAssumption
  <2> QED
    BY <2>1, <2>2 DEF ILoops, IAttempt, ITable, ITried, Trying
<1> QED
  BY <1>1, <1>2, <1>3

\* The network an attempt is for.
LEMMA TargetIsNetwork ==
  ASSUME ILoops, IModem, Trying
  PROVE  /\ Target \in Networks \union {AnyNetwork}
         /\ Tries \subseteq Networks
<1>1. CASE attempt \in {"search", "try"}
  <2>1. operators \in Tables /\ index \in DOMAIN operators
    BY <1>1 DEF ILoops, IAttempt, ITable
  <2>2. operators[index].mccmnc \in Networks
    BY <2>1, TableFacts
  <2>3. Target = operators[index].mccmnc
    BY <1>1 DEF Target
  <2> QED
    BY <2>2, <2>3 DEF Tries, IModem
<1>2. CASE attempt \in {"last", "config", "auto"}
  BY <1>2, NetworksAssumption DEF Target, Tries, IModem
<1> QED
  BY <1>1, <1>2 DEF ILoops, IAttempt

\* The modem may be on a network only where there is coverage.
LEMMA ServingCovered ==
  ASSUME IModem
  PROVE  Registered => serving \in coverage /\ serving \in Networks /\ radio /\ simOk
BY DEF IModem, Registered

LEMMA FaultsBounded ==
  ASSUME IModem, Fault \/ NoFault
  PROVE  faults' \in 0 .. MaxFaults
<1>1. MaxFaults \in Nat /\ faults \in 0 .. MaxFaults
  BY SignalsAssumption DEF IModem
<1> QED
  BY <1>1 DEF Fault, NoFault

LEMMA ModemBegin ==
  ASSUME IModem, Begin \/ CommandFault
  PROVE  IModem'
<1> USE DEF IModem
<1>1. CASE CommandDone
  BY <1>1, FaultsBounded DEF CommandDone
<1>2. CASE SystemMode
  BY <1>2, FaultsBounded DEF SystemMode
<1>3. CASE SystemModeOff
  BY <1>3, FaultsBounded DEF SystemModeOff, RadioOff
<1>4. CASE SetSystemMode
  BY <1>4, FaultsBounded DEF SetSystemMode
<1>5. CASE AlreadyRegistered
  BY <1>5, FaultsBounded DEF AlreadyRegistered
<1>6. CASE SimFailed
  BY <1>6, FaultsBounded DEF SimFailed
<1>7. CASE NotRegistered
  BY <1>7, FaultsBounded DEF NotRegistered
<1>8. CASE TurnOn
  BY <1>8, FaultsBounded DEF TurnOn, RadioOn
<1>9. CASE CommandFails
  BY <1>9, FaultsBounded DEF CommandFails
<1>10. CASE CommandRefused
  BY <1>10, FaultsBounded DEF CommandRefused
<1>11. CASE SystemModeGarbled
  BY <1>11, FaultsBounded DEF SystemModeGarbled
<1> QED
  BY <1>1, <1>2, <1>3, <1>4, <1>5, <1>6, <1>7, <1>8, <1>9, <1>10, <1>11 DEF Begin, CommandFault

\* The loops set ret to -1 or leave it.
LEMMA LoopsReturn ==
  /\ \A ops : \A k : TryFrom(ops, k) => ret' \in {ret, -1}
  /\ \A ops : \A k : SearchFrom(ops, k) => ret' \in {ret, -1}
<1>1. ASSUME NEW ops, NEW k, TryFrom(ops, k) PROVE ret' \in {ret, -1}
  BY <1>1 DEF TryFrom
<1>2. ASSUME NEW ops, NEW k, SearchFrom(ops, k) PROVE ret' \in {ret, -1}
  <2>1. CASE k \in DOMAIN ops
    BY <1>2, <2>1 DEF SearchFrom
  <2>2. CASE k \notin DOMAIN ops
    <3>1. TryFrom(operators', 1)
      BY <1>2, <2>2 DEF SearchFrom
    <3> QED
      BY <1>1, <3>1
  <2> QED
    BY <2>1, <2>2
<1> QED
  BY <1>1, <1>2

LEMMA NextAttemptReturns ==
  ASSUME ILoops, NextAttempt
  PROVE  ret' \in {ret, -1}
<1>1. CASE attempt \in {"last", "config"}
  BY <1>1 DEF NextAttempt
<1>2. CASE attempt = "auto" /\ ~network_searched
  BY <1>2 DEF NextAttempt
<1>3. CASE attempt = "auto" /\ network_searched
  BY <1>3, LoopsReturn DEF NextAttempt
<1>4. CASE attempt = "search"
  BY <1>4, LoopsReturn DEF NextAttempt
<1>5. CASE attempt = "try"
  BY <1>5, LoopsReturn DEF NextAttempt
<1> QED
  BY <1>1, <1>2, <1>3, <1>4, <1>5 DEF ILoops, IAttempt

\* A step that the modem takes no part in.
LEMMA ModemStays ==
  ASSUME IModem, UNCHANGED <<caller, modemVars, coverage>>, seen' \in BOOLEAN,
         ret' \in -1 .. 1, mccmnc' \in Networks, tried' \subseteq Networks, Fault \/ NoFault
  PROVE  IModem'
BY FaultsBounded DEF IModem

LEMMA ModemAttempt ==
  ASSUME ILoops, IModem, Attempt
  PROVE  IModem'
<1>0. /\ ret \in -1 .. 1 /\ -1 \in -1 .. 1 /\ 0 \in -1 .. 1 /\ 1 \in -1 .. 1
      /\ mccmnc \in Networks /\ ConfigNetwork \in Networks /\ tried \subseteq Networks
      /\ seen \in BOOLEAN
  BY NetworksAssumption DEF IModem
<1>1. CASE Select
  <2>1. Trying
    BY <1>1 DEF Select, Trying
  <2>2. cops' \in Networks \union {AnyNetwork} /\ tried' \subseteq Networks
    BY <1>1, <2>1, TargetIsNetwork DEF Select
  <2>3. serving' \in {serving, NoNetwork} /\ UNCHANGED <<radio, simOk, coverage>>
    BY <1>1 DEF Select
  <2>4. serving' \in IF radio' /\ simOk' THEN coverage' \union {NoNetwork} ELSE {NoNetwork}
    BY <2>3 DEF IModem
  <2> QED
    BY <1>1, <2>2, <2>4, FaultsBounded DEF Select, IModem
<1>2. CASE SelectFails
  <2>1. Trying /\ NextAttempt /\ tried' = Tries /\ (Fault \/ NoFault)
    BY <1>2 DEF SelectFails, Trying
  <2>2. ret' \in -1 .. 1 /\ tried' \subseteq Networks
    BY <1>0, <2>1, NextAttemptReturns, TargetIsNetwork
  <2> QED
    BY <1>0, <1>2, <2>1, <2>2, ModemStays DEF SelectFails
<1>3. CASE WaitRegistered
  <2>1. ret' \in -1 .. 1 /\ seen' \in BOOLEAN
    BY <1>0, <1>3 DEF WaitRegistered
  <2> QED
    BY <1>0, <1>3, <2>1, ModemStays DEF WaitRegistered
<1>4. CASE WaitFails
  <2>1. NextAttempt /\ (Fault \/ NoFault)
    BY <1>4 DEF WaitFails
  <2>2. ret' \in -1 .. 1
    BY <1>0, <2>1, NextAttemptReturns
  <2> QED
    BY <1>0, <1>4, <2>1, <2>2, ModemStays DEF WaitFails
<1>5. CASE Monitored
  <2>1. mccmnc' \in Networks /\ ret' \in -1 .. 1 /\ (Fault \/ NoFault)
    BY <1>0, <1>5, ServingCovered DEF Monitored
  <2> QED
    BY <1>0, <1>5, <2>1, ModemStays DEF Monitored
<1>6. CASE TryMonitored
  <2>1. mccmnc' \in Networks /\ ret' \in -1 .. 1 /\ (Fault \/ NoFault)
    BY <1>0, <1>6, ServingCovered DEF TryMonitored
  <2> QED
    BY <1>0, <1>6, <2>1, ModemStays DEF TryMonitored
<1>7. CASE Find
  <2>1. ret' \in -1 .. 1
    BY <1>0, <1>7, LoopsReturn DEF Find
  <2> QED
    BY <1>0, <1>7, <2>1, ModemStays DEF Find
<1>8. CASE FindFails
  <2>1. ret' \in -1 .. 1
    BY <1>0, <1>8, LoopsReturn DEF FindFails
  <2> QED
    BY <1>0, <1>8, <2>1, ModemStays DEF FindFails
<1>9. CASE SearchMonitored
  <2>1. ret' \in -1 .. 1
    BY <1>0, <1>9, LoopsReturn DEF SearchMonitored
  <2> QED
    BY <1>0, <1>9, <2>1, ModemStays DEF SearchMonitored
<1> QED
  BY <1>1, <1>2, <1>3, <1>4, <1>5, <1>6, <1>7, <1>8, <1>9 DEF Attempt

LEMMA ModemOther ==
  ASSUME IModem, Done \/ Environment \/ Call("upload") \/ Call("poll") \/ UNCHANGED vars
  PROVE  IModem'
<1> USE DEF IModem
<1>1. CASE Done
  BY <1>1, FaultsBounded DEF Done, Kept, modem_network_deregister, DeregisterFails, RadioOff
<1>2. CASE ModemRegisters
  BY <1>2, FaultsBounded DEF ModemRegisters
<1>3. CASE CoverageChanges
  BY <1>3, FaultsBounded DEF CoverageChanges
<1>4. CASE CoverageReturns
  BY <1>4, FaultsBounded DEF CoverageReturns
<1>5. CASE SimFails
  BY <1>5, FaultsBounded DEF SimFails
<1>6. CASE Call("upload") \/ Call("poll")
  <2>1. PICK c \in {"upload", "poll"} : Call(c)
    BY <1>6
  <2>2. faults' \in 0 .. MaxFaults
    BY <2>1, FaultsBounded DEF Call
  <2>3. 0 \in -1 .. 1
    OBVIOUS
  <2> QED
    BY <2>1, <2>2, <2>3 DEF Call
<1>7. CASE UNCHANGED vars
  BY <1>7 DEF vars
<1> QED
  BY <1>1, <1>2, <1>3, <1>4, <1>5, <1>6, <1>7 DEF Environment

-----------------------------------------------------------------------------
LEMMA LoopsInitially == Init => ILoops /\ IModem
<1> SUFFICES ASSUME Init PROVE ILoops /\ IModem
  OBVIOUS
<1>1. 1 \in 1 .. MAX_OPERATORS + 1 /\ 0 \in -1 .. 1 /\ 0 \in 0 .. MaxFaults
  BY NetworksAssumption, SignalsAssumption
<1>2. operators \in Tables
  BY EmptyTable DEF Init
<1>3. ILoops
  BY <1>1, <1>2 DEF Init, ILoops, IAttempt, ITable, ITried, Trying
<1>4. IModem
  BY <1>1, NetworksAssumption DEF Init, IModem
<1> QED
  BY <1>3, <1>4

LEMMA LoopsKept == ILoops /\ IModem /\ [Next]_vars => ILoops' /\ IModem'
BY LoopsBegin, LoopsAttempt, LoopsOther, ModemBegin, ModemAttempt, ModemOther DEF Next

LEMMA Looping == Spec => [](ILoops /\ IModem)
BY LoopsInitially, LoopsKept, PTL DEF Spec

\* The operators are tried in the order of their signal, and none that was heard is left
\* out before the call gives up (modem.c:401-416), whatever the search has found, however
\* the selections and the waits end and wherever coverage goes meanwhile.
THEOREM StrongestTriedFirst == Spec => []StrongestFirst
<1>1. ASSUME ILoops PROVE StrongestFirst
  <2> DEFINE left == {o \in Range(operators) : o.rsrq # Unknown /\ o.mccmnc \notin tried}
  <2> SUFFICES ASSUME attempt = "try"
               PROVE  /\ pc = "select" => \A o \in left : Level(o) <= Level(operators[index])
                      /\ pc = "done" => (ret = -1 => left = {})
    BY DEF StrongestFirst
  <2>1. operators \in Tables /\ Sorted(operators)
    BY <1>1 DEF ILoops, ITable
  <2>2. DOMAIN operators \subseteq Nat /\ \A k \in DOMAIN operators : operators[k].rsrq \in Nat
    BY <2>1, TableFacts
  <2>3. ASSUME pc = "select", NEW o \in left PROVE Level(o) <= Level(operators[index])
    <3>1. PICK j \in DOMAIN operators : o = operators[j]
      BY <2>3 DEF Range
    <3>2. Known(operators[j]) /\ operators[j].mccmnc \notin tried
      BY <2>3, <3>1 DEF Known
    <3>3. /\ index \in DOMAIN operators
          /\ \A i \in DOMAIN operators :
               i < index /\ Known(operators[i]) => operators[i].mccmnc \in tried
      BY <1>1, <2>3 DEF ILoops, IAttempt, ITried, Trying
    <3>4. ~(j < index)
      BY <3>2, <3>3
    <3>5. CASE j = index
      BY <2>2, <3>1, <3>3, <3>5 DEF Level
    <3>6. CASE index < j
      <4>1. ~Stronger(operators[j], operators[index])
        BY <2>1, <3>3, <3>6 DEF Sorted
      <4> QED
        BY <2>2, <3>1, <3>3, <4>1 DEF Level, Stronger
    <3> QED
      BY <2>2, <3>3, <3>4, <3>5, <3>6
  <2>4. ASSUME pc = "done", ret = -1 PROVE left = {}
    <3>1. \A j \in DOMAIN operators : Known(operators[j]) => operators[j].mccmnc \in tried
      BY <1>1, <2>4 DEF ILoops, ITried
    <3> QED
      BY <3>1 DEF Known, Range
  <2> HIDE DEF left
  <2> QED
    BY <2>3, <2>4
<1> QED
  BY <1>1, Looping, PTL

\* The table never grows past MAX_OPERATORS nor is read past its end, status_g.mccmnc is
\* always a network to ask for, and the modem is on none that it does not hear.
THEOREM TypeCorrect == Spec => []TypeOK
<1>1. ASSUME ILoops, IModem PROVE TypeOK
  <2>1. operators \in BoundedSeq(Operators, MAX_OPERATORS)
    BY <1>1 DEF ILoops, ITable, Tables
  <2> QED
    BY <1>1, <2>1 DEF ILoops, IAttempt, ITable, IModem, TypeOK
<1> QED
  BY <1>1, Looping, PTL
=============================================================================
