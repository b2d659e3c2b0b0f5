------------------------ MODULE NetworkTriggerProofs ------------------------
(***************************************************************************)
(* Proofs, for every width of the count and any number of resets: types,   *)
(* and that the network trigger makes no photo nobody asked for.           *)
(***************************************************************************)
EXTENDS NetworkTrigger, TLAPS

USE DEF Go, GiveUp, siteVars, epVars, historyVars

LEMMA StepCases ==
  ASSUME [Next]_vars
  PROVE  \/ Request \/ SiteMoves
         \/ Poll \/ Register \/ Resolve \/ Connect \/ Answer \/ BadAnswer
         \/ CheckBaseline \/ CheckNew \/ CheckNothing
         \/ GiveUp("register") \/ ResolveFails \/ GiveUp("connect")
         \/ Reboot \/ UNCHANGED vars
BY Zenon DEF Next, PollStep, Fault

\* A count that stays non-negative as int32_t is the count that was read.
LEMMA SignedKeeps ==
  ASSUME NEW n \in 0 .. MaxCount
  PROVE  /\ Signed(n) \in -Half .. Half - 1
         /\ Signed(n) >= 0 => Signed(n) = n
         /\ Signed(n) < 0 => n >= Half
BY HalfAssumption, CountAssumption DEF Signed

\* Every variable of the poll keeps its type, the converted count that of an int32_t.
THEOREM TypeCorrect == Spec => []TypeOK
<1>1. Init => TypeOK
  <2> SUFFICES ASSUME Init PROVE TypeOK
    OBVIOUS
  <2>1. -1 \in -1 .. MaxCount /\ 0 \in 0 .. MaxCount /\ -1 \in -Half .. Half - 1
    BY HalfAssumption, CountAssumption
  <2>2. status \in BOOLEAN
    BY DEF Init
  <2> QED
    BY <2>1, <2>2, RebootAssumption DEF Init, TypeOK
<1>2. TypeOK /\ [Next]_vars => TypeOK'
  <2> SUFFICES ASSUME TypeOK, [Next]_vars PROVE TypeOK'
    OBVIOUS
  <2> USE HalfAssumption, CountAssumption, RebootAssumption DEF TypeOK
  <2>1. CASE Request \/ SiteMoves
    BY <2>1 DEF Request, SiteMoves
  <2>2. CASE Poll \/ GiveUp("register") \/ GiveUp("connect")
    BY <2>2 DEF Poll
  <2>3. CASE Register
    BY <2>3 DEF Register
  <2>4. CASE Resolve \/ ResolveFails
    BY <2>4 DEF Resolve, ResolveFails
  <2>5. CASE Connect
    BY <2>5 DEF Connect
  <2>6. CASE Answer
    BY <2>6 DEF Answer
  <2>7. CASE BadAnswer
    <3>1. status' \in BOOLEAN
      BY <2>7, Zenon DEF BadAnswer
    <3>2. /\ UNCHANGED <<siteCount, siteAddr, addr, body, network_capture_count, reboots,
                        baseline, captures, answered>>
          /\ pc' = "check"
      BY <2>7 DEF BadAnswer
    <3> QED
      BY <3>1, <3>2
  <2>8. CASE CheckBaseline \/ CheckNew
    <3>1. body \in 0 .. MaxCount
      BY <2>8 DEF CheckBaseline, CheckNew, Parsed
    <3>2. network_capture_count' \in -Half .. Half - 1
      BY <2>8, <3>1, SignedKeeps DEF CheckBaseline, CheckNew
    <3>3. pc' = "idle" /\ UNCHANGED <<siteVars, epVars, reboots>>
      BY <2>8 DEF CheckBaseline, CheckNew
    <3>4. baseline' \in -1 .. MaxCount /\ captures' \in Nat /\ answered' \in 0 .. MaxCount
      BY <2>8, <3>1 DEF CheckBaseline, CheckNew
    <3> QED
      BY <3>2, <3>3, <3>4
  <2>9. CASE CheckNothing
    BY <2>9 DEF CheckNothing
  <2>10. CASE Reboot
    <3>1. -1 \in -1 .. MaxCount /\ -1 \in -Half .. Half - 1
      OBVIOUS
    <3>2. status' = FALSE /\ reboots' \in 0 .. MaxReboots
      BY <2>10 DEF Reboot, Boot
    <3> QED
      BY <2>10, <3>1, <3>2 DEF Reboot, Boot
  <2>11. CASE UNCHANGED vars
    BY <2>11 DEF vars
  <2> QED
    BY <2>1, <2>2, <2>3, <2>4, <2>5, <2>6, <2>7, <2>8, <2>9, <2>10, <2>11, StepCases
<1> QED
  BY <1>1, <1>2, PTL DEF Spec

\* The numbers of NetworkTrigger's state, as far as the invariant reads them.
NumbersOK ==
  /\ siteCount \in 0 .. MaxCount
  /\ body \in -1 .. MaxCount
  /\ network_capture_count \in -Half .. Half - 1
  /\ baseline \in -1 .. MaxCount
  /\ captures \in Nat

\* The answer in the buffer is no newer than the site, and the captures made are
\* covered by how far the remembered count has risen since the first poll.  Once a
\* count has wrapped to a negative one, so does every later one.
ICounts ==
  /\ NumbersOK
  /\ body <= siteCount
  /\ baseline = -1 => captures = 0 /\ network_capture_count = -1
  /\ baseline # -1 => captures <= siteCount - baseline
  /\ baseline # -1 /\ network_capture_count >= 0 =>
       captures <= network_capture_count - baseline
  /\ baseline # -1 /\ network_capture_count < 0 =>
       siteCount >= Half /\ (body = -1 \/ body >= Half)

\* No more captures than requests since the first poll after boot (main.c:360-377).
THEOREM NetworkCapturesAreAsked == Spec => []NoCaptureUnasked
<1>1. Init => ICounts
  BY HalfAssumption, CountAssumption DEF Init, ICounts, NumbersOK
<1>2. ICounts /\ [Next]_vars => ICounts'
  <2> SUFFICES ASSUME ICounts, [Next]_vars PROVE ICounts'
    OBVIOUS
  <2> USE HalfAssumption, CountAssumption DEF ICounts, NumbersOK
  <2>1. CASE Request
    BY <2>1 DEF Request
  <2>2. CASE Register \/ Answer
    BY <2>2 DEF Register, Answer
  <2>3. CASE \/ SiteMoves \/ Poll \/ Resolve \/ Connect \/ BadAnswer \/ CheckNothing
             \/ GiveUp("register") \/ ResolveFails \/ GiveUp("connect") \/ UNCHANGED vars
    BY <2>3, Zenon
    DEF SiteMoves, Poll, Resolve, Connect, BadAnswer, CheckNothing, ResolveFails, vars
  <2>4. CASE CheckBaseline
    <3>1. body \in 0 .. MaxCount /\ network_capture_count < 0
      BY <2>4 DEF CheckBaseline, Parsed, IsFirst
    <3> QED
      BY <2>4, <3>1, SignedKeeps DEF CheckBaseline
  <2>5. CASE CheckNew
    <3>1. body \in 0 .. MaxCount /\ network_capture_count >= 0 /\ body > network_capture_count
      BY <2>5 DEF CheckNew, Parsed, IsFirst, IsNew
    <3> QED
      BY <2>5, <3>1, SignedKeeps DEF CheckNew
  <2>6. CASE Reboot
    BY <2>6 DEF Reboot, Boot
  <2> QED
    BY <2>1, <2>2, <2>3, <2>4, <2>5, <2>6, StepCases
<1>3. ICounts => NoCaptureUnasked
  BY DEF ICounts, NumbersOK, NoCaptureUnasked
<1> QED
  BY <1>1, <1>2, <1>3, PTL DEF Spec
=============================================================================
