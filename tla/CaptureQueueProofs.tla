------------------------ MODULE CaptureQueueProofs ------------------------
(***************************************************************************)
(* Proofs about CaptureQueue for every interval, decimation and holdout.   *)
(* The order: types; which states of the wake handler the queue can be in  *)
(* (IQueue); the bound on its retries; the decimation; the refinement of   *)
(* CaptureMailbox, steps only (its fairness is left to TLC); and, with the *)
(* time the worker takes (CaptureTiming), when the watchdog is fed.        *)
(***************************************************************************)
EXTENDS CaptureTiming, TLAPS

\* A step of Next, one name per kind, for the case splits below.
LEMMA StepCases ==
  ASSUME [Next]_vars
  PROVE  \/ InitTimeTrigger \/ InitWakeTrigger \/ InitNetworkTrigger
         \/ time_trigger_handler \/ network_trigger_handler
         \/ wake_trigger_handler \/ WakeGet \/ WakeRetry
         \/ WorkerDone \/ Tick \/ UNCHANGED vars
BY DEF Next, MainNext, TriggerNext

LEMMA TaskTypes ==
  /\ WakeTask \in Tasks
  /\ NetworkTask \in Tasks
  /\ \A c : TimeTask(c) \in Tasks
  /\ NoTask \notin Tasks
<1>1. WakeTask \in Tasks /\ NetworkTask \in Tasks
  BY DEF WakeTask, NetworkTask, Tasks, Triggers
<1>2. \A c : TimeTask(c) \in Tasks
  BY DEF TimeTask, Tasks, Triggers
<1>3. NoTask \notin Tasks
  BY DEF NoTask, Tasks, Triggers
<1> QED BY <1>1, <1>2, <1>3

LEMMA TypesInit == Init => TypeOK
<1> SUFFICES ASSUME Init PROVE TypeOK
  OBVIOUS
<1>1. wakeOn \in BOOLEAN /\ uploadDropped \in BOOLEAN
  BY Zenon DEF Init
<1>2. /\ timeLeft \in 0 .. TimeInterval /\ netLeft \in 0 .. NetInterval
      /\ sinceWake \in 0 .. Holdout
      /\ time_trigger_count \in Nat /\ time_trigger_count = 0
      /\ failedPuts \in Nat /\ sinceUpload \in 0 .. Decimation
  BY IntervalAssumption, DecimationAssumption, HoldoutAssumption DEF Init
<1> QED
  BY <1>1, <1>2, Zenon DEF Init, TypeOK

LEMMA TypesStep == TypeOK /\ [Next]_vars => TypeOK'
<1> SUFFICES ASSUME TypeOK, [Next]_vars PROVE TypeOK'
  OBVIOUS
<1> USE TypeOK, TaskTypes, IntervalAssumption, DecimationAssumption, HoldoutAssumption
    DEF TypeOK, HandlersIdle, MainStep, queueVars, timerVars, historyVars
<1>1. CASE InitTimeTrigger
  BY <1>1 DEF InitTimeTrigger
<1>2. CASE InitWakeTrigger
  BY <1>2 DEF InitWakeTrigger
<1>3. CASE InitNetworkTrigger
  BY <1>3 DEF InitNetworkTrigger
<1>4. CASE time_trigger_handler
  <2>1. uploadDropped' \in BOOLEAN
    BY <1>4, Zenon DEF time_trigger_handler, PutForce, Put, Dropped
  <2> QED
    BY <1>4, <2>1 DEF time_trigger_handler, NextCount, PutForce, Put
<1>5. CASE network_trigger_handler
  <2>1. uploadDropped' \in BOOLEAN
    BY <1>5, Zenon DEF network_trigger_handler, PutForce, Put, Dropped
  <2> QED
    BY <1>5, <2>1 DEF network_trigger_handler, PutForce, Put
<1>6. CASE wake_trigger_handler
  BY <1>6 DEF wake_trigger_handler, WakePutStep, Put
<1>7. CASE WakeGet
  BY <1>7 DEF WakeGet, Dropped, UploadsOnTime
<1>8. CASE WakeRetry
  BY <1>8 DEF WakeRetry, WakePutStep, Put
<1>9. CASE WorkerDone
  BY <1>9 DEF WorkerDone, CaptureCounted
<1>10. CASE Tick
  BY <1>10 DEF Tick, Countdown
<1>11. CASE UNCHANGED vars
  BY <1>11 DEF vars
<1> QED
  BY <1>1, <1>2, <1>3, <1>4, <1>5, <1>6, <1>7, <1>8, <1>9, <1>10, <1>11, StepCases

\* Types (main.c's queue, timers and wake handler): every value stays in its
\* range, time_trigger_count below Decimation and sinceUpload at most Decimation.
THEOREM TypeCorrect == Spec => []TypeOK
BY TypesInit, TypesStep, PTL DEF Spec

-----------------------------------------------------------------------------
(* The queue and the wake handler, the bound on its retries *)

\* A worker that waits has an empty queue in front of it, and a wake handler in
\* progress has found it busy; between a failed put and the get the queue stays
\* full, and what the get took out is a task.
IQueue ==
  /\ worker = NoTask => slot = NoTask /\ wakePc = "idle"
  /\ wakePc = "get" => slot # NoTask
  /\ wakePc = "put" => dummy # NoTask

One(condition) == IF condition THEN 1 ELSE 0

\* What the wake handler may still meet: a full queue now, and each timer due.
IRetries ==
  /\ wakePc = "idle" => failedPuts = 0
  /\ wakePc # "idle" => failedPuts + One(wakePc = "put" /\ slot # NoTask)
                                   + One(TimeDue) + One(NetDue) <= 3

LEMMA QueueInit == Init => IQueue
BY DEF Init, IQueue

LEMMA QueueStep == TypeOK /\ IQueue /\ [Next]_vars => IQueue'
<1> SUFFICES ASSUME TypeOK, IQueue, [Next]_vars PROVE IQueue'
  OBVIOUS
<1> USE TypeOK, IQueue, TaskTypes DEF IQueue, HandlersIdle, MainStep, queueVars
<1>1. CASE InitTimeTrigger \/ InitWakeTrigger \/ InitNetworkTrigger
  BY <1>1 DEF InitTimeTrigger, InitWakeTrigger, InitNetworkTrigger
<1>2. CASE time_trigger_handler
  BY <1>2 DEF time_trigger_handler, PutForce, Put, QueueFull
<1>3. CASE network_trigger_handler
  BY <1>3 DEF network_trigger_handler, PutForce, Put, QueueFull
<1>4. CASE wake_trigger_handler
  BY <1>4 DEF wake_trigger_handler, WakePutStep, Put, QueueFull
<1>5. CASE WakeGet
  BY <1>5 DEF WakeGet
<1>6. CASE WakeRetry
  BY <1>6 DEF WakeRetry, WakePutStep, Put, QueueFull
<1>7. CASE WorkerDone \/ Tick
  BY <1>7 DEF WorkerDone, Tick
<1>8. CASE UNCHANGED vars
  BY <1>8 DEF vars
<1> QED
  BY <1>1, <1>2, <1>3, <1>4, <1>5, <1>6, <1>7, <1>8, StepCases

LEMMA QueueInvariant == Spec => []IQueue
BY QueueInit, QueueStep, TypeCorrect, PTL DEF Spec

\* msgq_put_force in the wake interrupt (main.c:87-111) puts at most four times:
\* after the first, each failure needs one of the two timers to have fired.
THEOREM RetriesAreBounded == Spec => []RetriesBounded
<1>1. Init => IRetries
  BY DEF Init, IRetries
<1>2. TypeOK /\ IQueue /\ IRetries /\ [Next]_vars => IRetries'
  <2> SUFFICES ASSUME TypeOK, IQueue, IRetries, [Next]_vars PROVE IRetries'
    OBVIOUS
  <2> USE TypeOK, IQueue, IRetries, TaskTypes, IntervalAssumption
      DEF TypeOK, IQueue, IRetries, One, HandlersIdle, MainStep, TimeDue, NetDue, TimeArmed,
          NetArmed, queueVars, timerVars, historyVars
  <2>1. CASE InitTimeTrigger \/ InitWakeTrigger \/ InitNetworkTrigger
    BY <2>1 DEF InitTimeTrigger, InitWakeTrigger, InitNetworkTrigger
  <2>2. CASE time_trigger_handler
    BY <2>2 DEF time_trigger_handler, PutForce, Put, QueueFull
  <2>3. CASE network_trigger_handler
    BY <2>3 DEF network_trigger_handler, PutForce, Put, QueueFull
  <2>4. CASE wake_trigger_handler
    BY <2>4 DEF wake_trigger_handler, WakePutStep, Put, QueueFull
  <2>5. CASE WakeGet
    BY <2>5 DEF WakeGet
  <2>6. CASE WakeRetry
    BY <2>6 DEF WakeRetry, WakePutStep, Put, QueueFull
  <2>7. CASE WorkerDone
    BY <2>7 DEF WorkerDone
  <2>8. CASE Tick
    BY <2>8 DEF Tick
  <2>9. CASE UNCHANGED vars
    BY <2>9 DEF vars
  <2> QED
    BY <2>1, <2>2, <2>3, <2>4, <2>5, <2>6, <2>7, <2>8, <2>9, StepCases
<1>3. TypeOK /\ IRetries => RetriesBounded
  BY DEF TypeOK, IRetries, One, RetriesBounded
<1> QED
  BY <1>1, <1>2, <1>3, TypeCorrect, QueueInvariant, PTL DEF Spec

-----------------------------------------------------------------------------
(* Decimation *)

\* A periodic task that is not to upload.
Plain(t) == t # NoTask /\ t.trigger = "TIME_TRIGGER" /\ ~UploadsOnTime(t)

\* Periodic tasks posted since the last one that was to upload.
Posted == IF time_trigger_count = 0 THEN Decimation - 1 ELSE time_trigger_count - 1

\* Captures without upload so far and still to come before the next upload, by
\* where the latest task that uploads is: in the queue, with the worker, behind.
IDecimation ==
  Decimation > 0 /\ uploadDropped = FALSE =>
    /\ UploadsOnTime(slot) => sinceUpload + One(Plain(worker)) <= Decimation - 1
    /\ ~UploadsOnTime(slot) /\ UploadsOnTime(worker) =>
         sinceUpload <= Decimation - 1 /\ One(Plain(slot)) <= Posted
    /\ ~UploadsOnTime(slot) /\ ~UploadsOnTime(worker) =>
         sinceUpload + One(Plain(worker)) + One(Plain(slot)) <= Posted

\* The tasks the handlers post, as the two predicates see them.
LEMMA PostedTasks ==
  /\ \A c : Decimation > 0 /\ c = 0 => UploadsOnTime(TimeTask(c)) /\ ~Plain(TimeTask(c))
  /\ \A c : c # 0 => ~UploadsOnTime(TimeTask(c)) /\ Plain(TimeTask(c))
  /\ ~UploadsOnTime(WakeTask) /\ ~Plain(WakeTask)
  /\ ~UploadsOnTime(NetworkTask) /\ ~Plain(NetworkTask)
  /\ ~UploadsOnTime(NoTask) /\ ~Plain(NoTask)
<1>1. \A c : TimeTask(c) # NoTask /\ TimeTask(c).trigger = "TIME_TRIGGER"
             /\ (TimeTask(c).upload <=> Decimation > 0 /\ c = 0)
  BY TaskTypes DEF TimeTask, NoTask
<1>2. /\ \A c : Decimation > 0 /\ c = 0 => UploadsOnTime(TimeTask(c))
      /\ \A c : c # 0 => ~UploadsOnTime(TimeTask(c))
  BY <1>1, Zenon DEF UploadsOnTime
<1>3. WakeTask.trigger # "TIME_TRIGGER" /\ NetworkTask.trigger # "TIME_TRIGGER"
  BY DEF WakeTask, NetworkTask
<1> QED
  BY <1>1, <1>2, <1>3, Zenon DEF UploadsOnTime, Plain

\* As long as no periodic task that uploads has been dropped, one in every
\* Decimation periodic captures uploads (time_trigger_handler, main.c:117-133).
THEOREM DecimationHolds == Spec => []DecimationUnlessDropped
<1>1. Init => IDecimation
  <2> SUFFICES ASSUME Init, Decimation > 0 PROVE IDecimation
    BY DEF IDecimation
  <2> QED
    BY DecimationAssumption, PostedTasks DEF Init, IDecimation, One, Posted
<1>2. TypeOK /\ IQueue /\ IDecimation /\ [Next]_vars => IDecimation'
  <2> SUFFICES ASSUME TypeOK, IQueue, IDecimation, [Next]_vars,
                      Decimation > 0, uploadDropped' = FALSE
               PROVE  IDecimation'
    BY DEF IDecimation
  <2> USE DecimationAssumption
  <2>1. uploadDropped = FALSE
    BY StepCases, Zenon
    DEF TypeOK, InitTimeTrigger, InitWakeTrigger, InitNetworkTrigger, time_trigger_handler,
        network_trigger_handler, wake_trigger_handler, WakeGet, WakeRetry, WakePutStep,
        WorkerDone, Tick, CaptureCounted, PutForce, Dropped, historyVars, vars
  <2>2. /\ time_trigger_count \in Nat /\ sinceUpload \in Nat /\ Posted \in Nat
        /\ time_trigger_count < Decimation
    BY DEF TypeOK, Posted
  <2>3. CASE UNCHANGED <<time_trigger_count, slot, worker, sinceUpload>>
    BY <2>1, <2>3 DEF IDecimation, Posted, UploadsOnTime, Plain
  <2>4. ASSUME NEW t, QueueFull => slot' = t /\ worker' = worker /\ Dropped(slot),
               ~QueueFull => Put(t)
        PROVE  \/ worker = NoTask /\ worker' = t /\ slot = NoTask /\ slot' = NoTask
               \/ worker # NoTask /\ worker' = worker /\ slot' = t /\ ~UploadsOnTime(slot)
    <3>1. CASE QueueFull
      BY <2>1, <2>4, <3>1, Zenon DEF Dropped, QueueFull
    <3>2. CASE ~QueueFull
      BY <2>4, <3>2, PostedTasks DEF Put, QueueFull, IQueue
    <3> QED BY <3>1, <3>2
  <2>5. CASE time_trigger_handler
    <3> DEFINE t == TimeTask(time_trigger_count)
    <3>1. \/ worker = NoTask /\ worker' = t /\ slot = NoTask /\ slot' = NoTask
          \/ worker # NoTask /\ worker' = worker /\ slot' = t /\ ~UploadsOnTime(slot)
      BY <2>4, <2>5, Zenon DEF time_trigger_handler, PutForce
    <3>2. /\ sinceUpload' = sinceUpload
          /\ time_trigger_count' =
               IF time_trigger_count + 1 < Decimation THEN time_trigger_count + 1 ELSE 0
      BY <2>5 DEF time_trigger_handler, NextCount
    <3>3. CASE time_trigger_count = 0
      <4>1. UploadsOnTime(t) /\ ~Plain(t)
        BY <3>3, PostedTasks
      <4>2. Posted = Decimation - 1 /\ Posted' \in Nat
        BY <3>2, <3>3 DEF Posted
      <4> HIDE DEF t
      <4> QED
        BY <2>1, <2>2, <3>1, <3>2, <4>1, <4>2, PostedTasks
        DEF IDecimation, One, UploadsOnTime, Plain
    <3>4. CASE time_trigger_count # 0
      <4>1. ~UploadsOnTime(t) /\ Plain(t)
        BY <3>4, PostedTasks
      <4>2. Posted' = Posted + 1 /\ Posted < Decimation - 1
        BY <2>2, <3>2, <3>4 DEF Posted
      <4> HIDE DEF t
      <4> QED
        BY <2>1, <2>2, <3>1, <3>2, <4>1, <4>2, PostedTasks
        DEF IDecimation, One, UploadsOnTime, Plain
    <3> QED BY <3>3, <3>4
  <2>6. ASSUME NEW t \in {WakeTask, NetworkTask},
               UNCHANGED <<time_trigger_count, sinceUpload>>,
               \/ worker = NoTask /\ worker' = t /\ slot = NoTask /\ slot' = NoTask
               \/ worker # NoTask /\ worker' = worker /\ slot' = t /\ ~UploadsOnTime(slot)
        PROVE  IDecimation'
    <3>1. ~UploadsOnTime(t) /\ ~Plain(t) /\ Posted' = Posted
      BY <2>6, PostedTasks DEF Posted
    <3> QED
      BY <2>1, <2>2, <2>6, <3>1, PostedTasks DEF IDecimation, One, UploadsOnTime, Plain
  <2>7. CASE network_trigger_handler
    <3>1. CASE Decimation = 0
      BY <3>1
    <3>2. CASE Decimation # 0
      <4>1. PutForce(NetworkTask) /\ UNCHANGED <<time_trigger_count, sinceUpload>>
        BY <2>7, <3>2 DEF network_trigger_handler
      <4> QED BY <2>4, <2>6, <4>1 DEF PutForce
    <3> QED BY <3>1, <3>2
  <2>8. CASE wake_trigger_handler \/ WakeRetry
    <3>1. UNCHANGED <<time_trigger_count, sinceUpload>> /\ WakePutStep
      BY <2>8 DEF wake_trigger_handler, WakeRetry, timerVars
    <3>2. CASE QueueFull
      BY <2>3, <3>1, <3>2 DEF WakePutStep, queueVars
    <3>3. CASE ~QueueFull
      <4>1. Put(WakeTask)
        BY <3>1, <3>3 DEF WakePutStep
      <4> QED BY <2>4, <2>6, <3>1, <3>3, <4>1
    <3> QED BY <3>2, <3>3
  <2>9. CASE WakeGet
    <3>1. /\ UNCHANGED <<time_trigger_count, worker, sinceUpload>> /\ slot' = NoTask
          /\ ~UploadsOnTime(slot)
      BY <2>9, <2>1, Zenon DEF WakeGet, Dropped
    <3> QED
      BY <2>1, <2>2, <3>1, PostedTasks DEF IDecimation, One, Posted, UploadsOnTime, Plain
  <2>10. CASE WorkerDone
    <3>1. /\ worker # NoTask /\ worker' = slot /\ slot' = NoTask
          /\ time_trigger_count' = time_trigger_count
          /\ CaptureCounted(worker)
      BY <2>10 DEF WorkerDone
    <3>2. /\ UploadsOnTime(worker) => sinceUpload' = 0
          /\ Plain(worker) => sinceUpload' \in {sinceUpload, sinceUpload + 1}
          /\ ~UploadsOnTime(worker) /\ ~Plain(worker) => sinceUpload' = sinceUpload
      BY <2>2, <3>1 DEF CaptureCounted, UploadsOnTime, Plain
    <3>3. Posted' = Posted
      BY <3>1 DEF Posted
    <3> QED
      BY <2>1, <2>2, <3>1, <3>2, <3>3, PostedTasks DEF IDecimation, One, UploadsOnTime, Plain
  <2>11. CASE \/ InitTimeTrigger \/ InitWakeTrigger \/ InitNetworkTrigger \/ Tick
              \/ UNCHANGED vars
    BY <2>3, <2>11
    DEF InitTimeTrigger, InitWakeTrigger, InitNetworkTrigger, Tick, vars, queueVars, historyVars
  <2> QED
    BY <2>5, <2>7, <2>8, <2>9, <2>10, <2>11, StepCases
<1>3. TypeOK /\ IDecimation => DecimationUnlessDropped
  <2> SUFFICES ASSUME TypeOK, IDecimation, Decimation > 0, uploadDropped = FALSE
               PROVE  sinceUpload < Decimation
    BY Zenon DEF TypeOK, DecimationUnlessDropped
  <2>1. Posted <= Decimation - 1 /\ Posted \in Nat /\ sinceUpload \in Nat
    BY DecimationAssumption DEF TypeOK, Posted
  <2> QED
    BY <2>1, DecimationAssumption DEF IDecimation, One
<1> QED
  BY <1>1, <1>2, <1>3, TypeCorrect, QueueInvariant, PTL DEF Spec

-----------------------------------------------------------------------------
(* Refinement *)

\* What CaptureMailbox sees in the mailbox.
mailbox == IF wakePc = "put" /\ slot = NoTask THEN dummy ELSE slot

\* Every step of the queue, the drops and retries of an interrupted wake handler
\* (main.c:87-111) included, is a step of CaptureMailbox or changes nothing there.
THEOREM QueueImplementsMailbox == Spec => MailboxSteps
<1>1. Init => Mailbox!Init
  BY DEF Init, Mailbox!Init
<1>2. TypeOK /\ IQueue /\ [Next]_vars => [Mailbox!Next]_(Mailbox!vars)
  <2> SUFFICES ASSUME TypeOK, IQueue, [Next]_vars
               PROVE  \/ \E t \in Tasks : Mailbox!Submit(t)
                      \/ Mailbox!Finish
                      \/ UNCHANGED <<worker, mailbox>>
    BY DEF Mailbox!Next, Mailbox!vars, mailbox
  <2> USE TypeOK, IQueue, TaskTypes DEF TypeOK, IQueue, QueueFull, mailbox
  <2>1. CASE \/ InitTimeTrigger \/ InitWakeTrigger \/ InitNetworkTrigger \/ Tick
             \/ UNCHANGED vars
    BY <2>1
    DEF InitTimeTrigger, InitWakeTrigger, InitNetworkTrigger, Tick, vars, queueVars
  <2>2. CASE time_trigger_handler
    <3>1. Mailbox!Submit(TimeTask(time_trigger_count))
      BY <2>2 DEF time_trigger_handler, PutForce, Put, Mailbox!Submit
    <3> QED BY <3>1
  <2>3. CASE network_trigger_handler
    <3>1. CASE Decimation = 0
      BY <2>3, <3>1 DEF network_trigger_handler, queueVars
    <3>2. CASE Decimation # 0
      <4>1. Mailbox!Submit(NetworkTask)
        BY <2>3, <3>2 DEF network_trigger_handler, PutForce, Put, Mailbox!Submit
      <4> QED BY <4>1
    <3> QED BY <3>1, <3>2
  <2>4. CASE wake_trigger_handler \/ WakeRetry
    <3>1. WakePutStep
      BY <2>4 DEF wake_trigger_handler, WakeRetry
    <3>2. CASE QueueFull
      BY <3>1, <3>2 DEF WakePutStep, queueVars
    <3>3. CASE ~QueueFull
      <4>1. Mailbox!Submit(WakeTask)
        BY <3>1, <3>3 DEF WakePutStep, Put, Mailbox!Submit
      <4> QED BY <4>1
    <3> QED BY <3>2, <3>3
  <2>5. CASE WakeGet
    BY <2>5 DEF WakeGet
  <2>6. CASE WorkerDone
    BY <2>6 DEF WorkerDone, HandlersIdle, Mailbox!Finish
  <2> QED
    BY <2>1, <2>2, <2>3, <2>4, <2>5, <2>6, StepCases
<1> QED
  BY <1>1, <1>2, TypeCorrect, QueueInvariant, PTL DEF Spec, MailboxSteps

-----------------------------------------------------------------------------
(* The watchdog (CaptureTiming) *)

\* With time added, the queue still only takes its own steps.
LEMMA TimedSteps ==
  ASSUME [TimedNext]_timedVars
  PROVE  [Next]_vars
BY DEF TimedNext, timedVars, StartJob, PollToCapture, EndJob, TimedTick, TimedTrigger, Next

LEMMA TimedInvariants == TimedSpec => [](TypeOK /\ IQueue)
<1>1. TimedInit => TypeOK /\ IQueue
  BY TypesInit, QueueInit DEF TimedInit
<1>2. TypeOK /\ IQueue /\ [TimedNext]_timedVars => (TypeOK /\ IQueue)'
  BY TimedSteps, TypesStep, QueueStep
<1> QED
  BY <1>1, <1>2, PTL DEF TimedSpec

\* Types (the worker's job and the watchdog, main.c:257): a worker without a
\* task has no job, and the time since the last feed stays in its range.
THEOREM TimedTypeCorrect == TimedSpec => []TimedTypeOK
<1>1. TimedInit => TimedTypeOK
  BY TypesInit, WatchdogAssumption DEF TimedInit, TimedTypeOK
<1>2. TimedTypeOK /\ IQueue /\ [TimedNext]_timedVars => TimedTypeOK'
  <2> SUFFICES ASSUME TimedTypeOK, IQueue, [TimedNext]_timedVars PROVE TimedTypeOK'
    OBVIOUS
  <2>1. TypeOK'
    BY TimedSteps, TypesStep DEF TimedTypeOK
  <2> USE DurationAssumption, WatchdogAssumption DEF TimedTypeOK
  <2>2. CASE StartJob
    <3>1. worker # NoTask /\ worker' = worker
      BY <2>2 DEF StartJob, vars, queueVars
    <3>2. CASE worker.trigger = "NETWORK_TRIGGER"
      BY <2>1, <2>2, <3>1, <3>2 DEF StartJob
    <3>3. CASE worker.trigger # "NETWORK_TRIGGER"
      <4>1. job' = "capture" /\ busy' \in Nat /\ sinceFed' = 0
        BY <2>2, <3>3 DEF StartJob, capture_f
      <4> QED BY <2>1, <3>1, <4>1
    <3> QED BY <3>2, <3>3
  <2>3. CASE PollToCapture
    BY <2>1, <2>3 DEF PollToCapture, capture_f, vars, queueVars
  <2>4. CASE EndJob
    BY <2>1, <2>4 DEF EndJob
  <2>5. CASE TimedTick
    BY <2>1, <2>5 DEF TimedTick, Tick, Countdown, queueVars
  <2>6. CASE TimedTrigger
    <3>1. UNCHANGED <<job, busy, sinceFed>>
      BY <2>6 DEF TimedTrigger, jobVars
    <3>2. worker' = NoTask => worker = NoTask
      BY <2>6, TaskTypes
      DEF TimedTrigger, MainNext, TriggerNext, InitTimeTrigger, InitWakeTrigger,
          InitNetworkTrigger, time_trigger_handler, network_trigger_handler,
          wake_trigger_handler, WakeGet, WakeRetry, WakePutStep, PutForce, Put, queueVars
    <3> QED BY <2>1, <3>1, <3>2
  <2>7. CASE UNCHANGED timedVars
    BY <2>1, <2>7 DEF timedVars, jobVars, vars, queueVars
  <2> QED
    BY <2>2, <2>3, <2>4, <2>5, <2>6, <2>7 DEF TimedNext
<1> QED
  BY <1>1, <1>2, TimedInvariants, PTL DEF TimedSpec

\* What the worker will do with a task: capture at once, or poll first.
CaptureTask(t) == t # NoTask /\ t.trigger # "NETWORK_TRIGGER"
Polls(t) == t # NoTask /\ t.trigger = "NETWORK_TRIGGER"

LEMMA TaskKinds ==
  /\ \A c : CaptureTask(TimeTask(c)) /\ ~Polls(TimeTask(c))
  /\ CaptureTask(WakeTask) /\ ~Polls(WakeTask)
  /\ Polls(NetworkTask) /\ ~CaptureTask(NetworkTask)
  /\ ~CaptureTask(NoTask) /\ ~Polls(NoTask)
  /\ \A t : t # NoTask => (CaptureTask(t) <=> ~Polls(t))
<1>1. \A c : TimeTask(c) # NoTask /\ TimeTask(c).trigger = "TIME_TRIGGER"
  BY TaskTypes DEF TimeTask
<1>2. WakeTask # NoTask /\ WakeTask.trigger = "WAKE_TRIGGER"
  BY TaskTypes DEF WakeTask
<1>3. NetworkTask # NoTask /\ NetworkTask.trigger = "NETWORK_TRIGGER"
  BY TaskTypes DEF NetworkTask
<1> QED
  BY <1>1, <1>2, <1>3 DEF CaptureTask, Polls

\* A put gives the task to a worker that waits, or leaves it in the queue.
Given(t) == \/ worker = NoTask /\ worker' = t /\ slot' = slot
            \/ worker # NoTask /\ worker' = worker /\ slot' = t

\* The triggers, by what they do to the queue and the timers; they take no time.
StartsATrigger ==
  /\ mainPc # "sleep" /\ netLeft' \in Nat
  /\ timeLeft' \in {0, timeLeft}
  /\ UNCHANGED <<slot, worker, wakePc>>
TimeFires ==
  /\ mainPc # "time" /\ timeLeft = 0 /\ timeLeft' = TimeInterval
  /\ UNCHANGED <<mainPc, netLeft, wakePc>>
  /\ \E c : Given(TimeTask(c))
NetFires ==
  /\ mainPc = "sleep" /\ netLeft = 0 /\ netLeft' = NetInterval
  /\ UNCHANGED <<mainPc, timeLeft, wakePc>>
  /\ UNCHANGED <<worker, slot>> \/ Given(NetworkTask)
WakePuts ==
  /\ UNCHANGED <<mainPc, timeLeft, netLeft>>
  /\ \/ Given(WakeTask) /\ wakePc' = "idle"
     \/ worker # NoTask /\ UNCHANGED <<worker, slot>> /\ wakePc' = "get"
WakeDrops ==
  /\ UNCHANGED <<mainPc, timeLeft, netLeft, worker>>
  /\ wakePc = "get" /\ wakePc' = "put" /\ slot' = NoTask

LEMMA TriggerKinds ==
  ASSUME TypeOK, IQueue, TimedTrigger
  PROVE  /\ UNCHANGED <<job, busy, sinceFed>>
         /\ StartsATrigger \/ TimeFires \/ NetFires \/ WakePuts \/ WakeDrops
<1>1. UNCHANGED <<job, busy, sinceFed>>
  BY DEF TimedTrigger, jobVars
<1>2. CASE InitTimeTrigger \/ InitWakeTrigger \/ InitNetworkTrigger
  BY <1>1, <1>2
  DEF TypeOK, InitTimeTrigger, InitWakeTrigger, InitNetworkTrigger, MainStep, queueVars,
      StartsATrigger
<1>3. CASE time_trigger_handler
  <2>1. Given(TimeTask(time_trigger_count))
    BY <1>3 DEF time_trigger_handler, PutForce, Put, QueueFull, Given
  <2> QED
    BY <1>1, <1>3, <2>1 DEF time_trigger_handler, TimeDue, TimeArmed, TimeFires
<1>4. CASE network_trigger_handler
  <2>1. UNCHANGED <<worker, slot>> \/ Given(NetworkTask)
    BY <1>4 DEF network_trigger_handler, PutForce, Put, QueueFull, Given, queueVars
  <2> QED
    BY <1>1, <1>4, <2>1 DEF network_trigger_handler, NetDue, NetArmed, NetFires
<1>5. CASE wake_trigger_handler \/ WakeRetry
  <2>1. WakePutStep /\ UNCHANGED <<mainPc, timeLeft, netLeft>>
    BY <1>5 DEF wake_trigger_handler, WakeRetry, timerVars
  <2> QED
    BY <1>1, <2>1 DEF WakePutStep, Put, QueueFull, Given, queueVars, WakePuts
<1>6. CASE WakeGet
  BY <1>1, <1>6 DEF WakeGet, timerVars, WakeDrops
<1> QED
  BY <1>2, <1>3, <1>4, <1>5, <1>6 DEF TimedTrigger, MainNext, TriggerNext

\* A capture waits behind the worker's poll, or the wake handler is about to put one.
Coming == wakePc # "idle" \/ CaptureTask(slot)

\* The worker polls, or is about to; how long it still takes, P at most; and
\* whether it is done before the network trigger fires again.
Polling == Polls(worker) /\ job # "capture"
PollLeft(P) == IF job = "poll" THEN busy ELSE P
InTime(P) == netLeft > PollLeft(P)

\* The worker's next job is a capture that no network trigger can come before.
Sure(P) == \/ CaptureTask(worker) /\ job = "none"
           \/ Polling /\ InTime(P) /\ Coming

\* How long polls, at most P, and captures, at most C, keep the watchdog waiting.
IJob(P, C) ==
  /\ job = "poll" => Polls(worker) /\ busy <= P
  /\ job = "capture" => sinceFed + busy <= C
  /\ Polling /\ ~InTime(P) => sinceFed + PollLeft(P) <= C + P
  /\ Polling /\ Polls(slot) => netLeft > P + PollLeft(P)
  /\ mainPc # "sleep" => sinceFed = 0 /\ ~Polls(worker) /\ ~Polls(slot)

\* Until a capture is sure to come, the time trigger still has to; then it is one
\* poll away at most.
IDue(P, C) ==
  /\ ~Sure(P) => sinceFed + timeLeft <= TimeInterval + C + P
  /\ Sure(P) => sinceFed + (IF Polling THEN PollLeft(P) ELSE 0) <= TimeInterval + C + P + P

\* While polls and captures are short enough, the watchdog is always fed in time:
\* the capture that feeds it (main.c:257) is due by the time trigger, behind the
\* job under way, and at most one poll comes before it (capture_worker, main.c).
THEOREM WatchdogIsFed ==
  ASSUME NEW P \in Nat, NEW C \in Nat,
         PollTime \subseteq 0 .. P, CaptureTime \subseteq 0 .. C,
         P + P < NetInterval,
         TimeInterval + C + P + P < WatchdogTimeout
  PROVE  TimedSpec => []WatchdogFed
<1> USE IntervalAssumption, WatchdogAssumption
<1>1. TimedInit => IJob(P, C) /\ IDue(P, C)
  BY TaskKinds DEF TimedInit, Init, IJob, IDue, Sure, Polling
<1>2. TimedTypeOK /\ IQueue /\ IJob(P, C) /\ IDue(P, C) /\ [TimedNext]_timedVars
        => (IJob(P, C) /\ IDue(P, C))'
  <2> SUFFICES ASSUME TimedTypeOK, IQueue, IJob(P, C), IDue(P, C), [TimedNext]_timedVars
               PROVE  (IJob(P, C) /\ IDue(P, C))'
    OBVIOUS
  <2>1. /\ timeLeft \in 0 .. TimeInterval /\ netLeft \in Nat /\ busy \in Nat
        /\ sinceFed \in Nat
        /\ job \in {"none", "poll", "capture"} /\ (worker = NoTask => job = "none")
    BY DEF TimedTypeOK, TypeOK
  <2> USE <2>1 DEF Polls, CaptureTask
  <2>8. ASSUME NEW b \in 0 .. C, job' = "capture", busy' = b, sinceFed' = 0,
               UNCHANGED <<mainPc, timeLeft, worker, slot>>
        PROVE  (IJob(P, C) /\ IDue(P, C))'
    <3>1. ~Polling' /\ ~Sure(P)'
      BY <2>8 DEF Polling, Sure
    <3>2. IJob(P, C)'
      BY <2>8, <3>1 DEF IJob
    <3>3. IDue(P, C)'
      BY <2>8, <3>1 DEF IDue
    <3> QED BY <3>2, <3>3
  <2>2. CASE StartJob
    <3>1. /\ wakePc = "idle" /\ worker # NoTask /\ job = "none"
          /\ UNCHANGED <<mainPc, timeLeft, netLeft, wakePc, worker, slot>>
      BY <2>2 DEF StartJob, HandlersIdle, vars, timerVars, queueVars
    <3>2. CASE Polls(worker)
      <4>1. PICK b \in 0 .. P : job' = "poll" /\ busy' = b /\ sinceFed' = sinceFed
        BY <2>2, <3>2 DEF StartJob, Polls
      <4>2. IJob(P, C)'
        BY <3>1, <3>2, <4>1 DEF IJob, Polling, InTime, PollLeft
      <4>3. ~CaptureTask(worker)
        BY <3>2 DEF CaptureTask, Polls
      <4>4. Sure(P) => Sure(P)'
        BY <3>1, <3>2, <4>1, <4>3 DEF Sure, Polling, InTime, PollLeft, Coming
      <4> QED
        BY <3>1, <3>2, <4>1, <4>2, <4>4 DEF IDue, Polling, PollLeft
    <3>3. CASE ~Polls(worker)
      <4>1. PICK b \in 0 .. C : job' = "capture" /\ busy' = b /\ sinceFed' = 0
        BY <2>2, <3>3 DEF StartJob, Polls, capture_f
      <4> QED
        BY <3>1, <3>3, <4>1, <2>8
    <3> QED BY <3>2, <3>3
  <2>3. CASE PollToCapture
    <3>1. UNCHANGED <<mainPc, timeLeft, netLeft, wakePc, worker, slot>>
      BY <2>3 DEF PollToCapture, vars, timerVars, queueVars
    <3>2. PICK b \in 0 .. C : job' = "capture" /\ busy' = b /\ sinceFed' = 0
      BY <2>3 DEF PollToCapture, capture_f
    <3> QED
      BY <3>1, <3>2, <2>8
  <2>4. CASE EndJob
    <3>1. /\ job # "none" /\ busy = 0 /\ wakePc = "idle"
          /\ worker' = slot /\ slot' = NoTask
          /\ UNCHANGED <<mainPc, timeLeft, netLeft, wakePc>>
          /\ job' = "none" /\ busy' = busy /\ sinceFed' = sinceFed
      BY <2>4 DEF EndJob, WorkerDone, HandlersIdle, timerVars
    <3> QED
      BY <3>1, TaskKinds DEF IJob, IDue, Sure, Polling, InTime, PollLeft, Coming
  <2>5. CASE TimedTick
    <3>1. /\ mainPc = "sleep" /\ timeLeft > 0 /\ netLeft > 0
          /\ timeLeft' = timeLeft - 1 /\ netLeft' = netLeft - 1
          /\ UNCHANGED <<mainPc, wakePc, worker, slot, job>>
      BY <2>5 DEF TimedTick, Tick, TimeDue, TimeArmed, NetDue, NetArmed, Countdown, queueVars
    <3>2. /\ worker # NoTask => job # "none"
          /\ job # "none" => busy > 0 /\ busy' = busy - 1
          /\ sinceFed' \in {sinceFed, sinceFed + 1}
      BY <2>5 DEF TimedTick, Countdown
    <3>3. PICK left \in Nat : PollLeft(P) = left
      BY DEF PollLeft
    <3>4. Polling' <=> Polling
      BY <3>1 DEF Polling
    <3>5. Polling => left > 0 /\ PollLeft(P)' = left - 1
      BY <3>1, <3>2, <3>3 DEF Polling, PollLeft
    <3>6. IJob(P, C)'
      <4>1. /\ job' = "poll" => Polls(worker)' /\ busy' <= P
            /\ job' = "capture" => sinceFed' + busy' <= C
            /\ mainPc' = "sleep"
        BY <3>1, <3>2 DEF IJob
      <4>2. Polling' /\ ~InTime(P)' => sinceFed' + PollLeft(P)' <= C + P
        <5>1. CASE sinceFed' = sinceFed
          BY <3>1, <3>3, <3>4, <3>5, <5>1 DEF IJob, InTime
        <5>2. CASE sinceFed' = sinceFed + 1
          BY <3>1, <3>3, <3>4, <3>5, <5>2 DEF IJob, InTime
        <5> QED BY <3>2, <5>1, <5>2
      <4>3. Polling' /\ Polls(slot)' => netLeft' > P + PollLeft(P)'
        BY <3>1, <3>3, <3>4, <3>5 DEF IJob
      <4> QED BY <4>1, <4>2, <4>3 DEF IJob
    <3>7. Sure(P)' <=> Sure(P)
      BY <3>1, <3>2, <3>3, <3>4, <3>5 DEF Sure, InTime, Coming
    <3>8. Sure(P) => Polling
      BY <3>2 DEF Sure
    <3>9. PICK fed \in Nat : sinceFed' = fed /\ fed <= sinceFed + 1
      BY <3>2
    <3>10. CASE Sure(P)
      <4>1. left > 0 /\ PollLeft(P)' = left - 1 /\ Polling
        BY <3>5, <3>8, <3>10
      <4>2. sinceFed + left <= TimeInterval + C + P + P
        BY <3>3, <3>10, <4>1 DEF IDue
      <4>3. fed + (left - 1) <= TimeInterval + C + P + P
        BY <3>9, <4>2
      <4> QED
        BY <3>4, <3>6, <3>7, <3>9, <3>10, <4>1, <4>3 DEF IDue
    <3>11. CASE ~Sure(P)
      <4>1. fed + (timeLeft - 1) <= TimeInterval + C + P
        BY <3>9, <3>11 DEF IDue
      <4> QED
        BY <3>1, <3>6, <3>7, <3>9, <3>11, <4>1 DEF IDue
    <3> QED
      BY <3>10, <3>11
  <2>6. CASE TimedTrigger
    <3>1. UNCHANGED <<job, busy, sinceFed>>
      BY <2>6, TriggerKinds DEF TimedTypeOK
    <3>2. CASE StartsATrigger
      <4>1. sinceFed = 0 /\ ~Polls(worker) /\ ~Polls(slot)
        BY <3>2 DEF StartsATrigger, IJob
      <4>2. ~Polling /\ ~Polling' /\ (Sure(P)' <=> Sure(P))
        BY <3>1, <3>2, <4>1 DEF StartsATrigger, Polling, Sure
      <4>3. IJob(P, C)'
        BY <3>1, <3>2, <4>1, <4>2 DEF StartsATrigger, IJob
      <4> QED
        <5>1. PICK left \in 0 .. TimeInterval : timeLeft' = left
          BY <3>2 DEF StartsATrigger
        <5>2. IDue(P, C)'
          BY <3>1, <4>1, <4>2, <5>1 DEF IDue
        <5> QED BY <4>3, <5>2
    <3>3. CASE TimeFires
      <4>1. PICK t : Given(t) /\ CaptureTask(t) /\ ~Polls(t)
        BY <3>3, TaskKinds DEF TimeFires
      <4> QED
        BY <3>1, <3>3, <4>1
        DEF TimeFires, Given, IQueue, IJob, IDue, Sure, Polling, InTime, PollLeft, Coming
    <3>4. CASE NetFires
      BY <3>1, <3>4, TaskKinds
      DEF NetFires, Given, IQueue, IJob, IDue, Sure, Polling, InTime, PollLeft, Coming
    <3>5. CASE WakePuts
      BY <3>1, <3>5, TaskKinds
      DEF WakePuts, Given, IQueue, IJob, IDue, Sure, Polling, InTime, PollLeft, Coming
    <3>6. CASE WakeDrops
      BY <3>1, <3>6, TaskKinds
      DEF WakeDrops, IQueue, IJob, IDue, Sure, Polling, InTime, PollLeft, Coming
    <3> QED
      BY <2>6, <3>2, <3>3, <3>4, <3>5, <3>6, TriggerKinds DEF TimedTypeOK
  <2>7. CASE UNCHANGED timedVars
    <3>1. UNCHANGED <<mainPc, timeLeft, netLeft, wakePc, worker, slot, job, busy, sinceFed>>
      BY <2>7 DEF timedVars, jobVars, vars, timerVars, queueVars
    <3> QED
      BY <3>1 DEF IJob, IDue, Sure, Polling, InTime, PollLeft, Coming
  <2> QED
    BY <2>2, <2>3, <2>4, <2>5, <2>6, <2>7 DEF TimedNext
<1>3. TimedTypeOK /\ IDue(P, C) => WatchdogFed
  BY DEF TimedTypeOK, TypeOK, IDue, Polling, PollLeft, WatchdogFed
<1> QED
  BY <1>1, <1>2, <1>3, TimedTypeCorrect, TimedInvariants, PTL DEF TimedSpec
=============================================================================
