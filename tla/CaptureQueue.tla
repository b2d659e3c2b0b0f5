---------------------------- MODULE CaptureQueue ----------------------------
(***************************************************************************)
(* The capture triggers, the one-place message queue capture_q and the     *)
(* worker thread of main.c.                                                *)
(*                                                                         *)
(* Who runs.  The two k_timer handlers run in the system clock interrupt,  *)
(* which nothing below preempts: each is one step.  The wake pin handler   *)
(* runs in the GPIO interrupt, which the clock interrupt preempts: every   *)
(* k_msgq call of it (atomic, under the queue's lock) is a step of its     *)
(* own.  Threads run only while no handler does.                           *)
(*                                                                         *)
(* Time is counted in ticks.  A tick passes only when no interrupt is in   *)
(* progress or due, because a handler is far shorter than a tick.          *)
(***************************************************************************)
EXTENDS Integers

CONSTANTS TimeInterval,   \* logging_interval, in ticks
          NetInterval,    \* network_interval, in ticks
          Decimation,     \* logging_decimation_ftp
          Holdout         \* WAKE_PIN_TRIGGER_HOLDOUT_MS, in ticks

ASSUME IntervalAssumption == TimeInterval \in Nat \ {0} /\ NetInterval \in Nat \ {0}
ASSUME DecimationAssumption == Decimation \in Nat
ASSUME HoldoutAssumption == Holdout \in Nat \ {0}

Triggers == {"TIME_TRIGGER", "WAKE_TRIGGER", "NETWORK_TRIGGER"}

Tasks == [trigger : Triggers, upload : BOOLEAN, respect_dark_noup : BOOLEAN]

NoTask == [trigger |-> "NO_TRIGGER"]

WakeTask == [trigger |-> "WAKE_TRIGGER", upload |-> TRUE, respect_dark_noup |-> FALSE]
NetworkTask == [trigger |-> "NETWORK_TRIGGER", upload |-> TRUE, respect_dark_noup |-> FALSE]
TimeTask(count) == [trigger |-> "TIME_TRIGGER",
                    upload |-> Decimation > 0 /\ count = 0,
                    respect_dark_noup |-> TRUE]

VARIABLES
  mainPc,             \* what main() does next: "time", "wake", "network", "sleep"
  wakeOn,             \* the wake pin's callback is installed
  timeLeft,           \* ticks until the time trigger is due, 0 when it is
  netLeft,            \* ticks until the network trigger is due, 0 when it is
  sinceWake,          \* now_ms - last_wake_trigger_ms, in ticks, at most Holdout
  time_trigger_count, \* modulo Decimation: only the remainder is ever read
  wakePc,             \* the wake handler: "idle", or its next k_msgq call
  dummy,              \* the task the wake handler took out to make room
  slot,               \* what capture_q holds
  worker,             \* the task the worker was given, NoTask while it waits in k_msgq_get
  \* history, read by no step
  failedPuts,         \* puts of the wake handler in progress that found the queue full
  sinceUpload,        \* periodic captures without upload in a row, at most Decimation
  uploadDropped       \* a periodic task that was to upload has been dropped from the queue

queueVars == <<slot, worker>>
timerVars == <<mainPc, wakeOn, timeLeft, netLeft, sinceWake>>
historyVars == <<failedPuts, sinceUpload, uploadDropped>>
vars == <<timerVars, time_trigger_count, wakePc, dummy, queueVars, historyVars>>

TypeOK ==
  /\ mainPc \in {"time", "wake", "network", "sleep"}
  /\ wakeOn \in BOOLEAN
  /\ timeLeft \in 0 .. TimeInterval
  /\ netLeft \in 0 .. NetInterval
  /\ sinceWake \in 0 .. Holdout
  /\ time_trigger_count \in Nat
  /\ time_trigger_count < Decimation \/ time_trigger_count = 0
  /\ wakePc \in {"idle", "get", "put"}
  /\ dummy \in Tasks \union {NoTask}
  /\ slot \in Tasks \union {NoTask}
  /\ worker \in Tasks \union {NoTask}
  /\ failedPuts \in Nat
  /\ sinceUpload \in 0 .. Decimation
  /\ uploadDropped \in BOOLEAN

Init ==
  /\ mainPc = "time"
  /\ wakeOn = FALSE
  /\ timeLeft = 0 /\ netLeft = 0
  /\ sinceWake \in 0 .. Holdout      \* setup() may have taken any time since boot
  /\ time_trigger_count = 0
  /\ wakePc = "idle"
  /\ dummy = NoTask
  /\ slot = NoTask
  /\ worker = NoTask
  /\ failedPuts = 0
  /\ sinceUpload = 0
  /\ uploadDropped = FALSE

-----------------------------------------------------------------------------
(* k_msgq and msgq_put_force *)

QueueFull == worker # NoTask /\ slot # NoTask

\* k_msgq_put with K_NO_WAIT: a reader that waits is given the task directly.
Put(t) ==
  /\ ~QueueFull
  /\ IF worker = NoTask
     THEN worker' = t /\ UNCHANGED slot
     ELSE slot' = t /\ UNCHANGED worker

UploadsOnTime(t) == t # NoTask /\ t.trigger = "TIME_TRIGGER" /\ t.upload

\* History: t leaves the queue without having been given to the worker.
Dropped(t) == uploadDropped' = (uploadDropped \/ UploadsOnTime(t))

\* msgq_put_force in a handler nothing preempts: put, or get the oldest task and put.
PutForce(t) ==
  IF QueueFull
  THEN slot' = t /\ UNCHANGED worker /\ Dropped(slot)
  ELSE Put(t) /\ UNCHANGED uploadDropped

-----------------------------------------------------------------------------
(* main(): starts the triggers one after the other, then sleeps for ever. *)

HandlersIdle == wakePc = "idle"

TimeArmed == mainPc # "time"
NetArmed == mainPc = "sleep"
TimeDue == TimeArmed /\ timeLeft = 0
NetDue == NetArmed /\ netLeft = 0

MainStep(from, to) == HandlersIdle /\ mainPc = from /\ mainPc' = to

\* k_timer_start with K_NO_WAIT: due at once.
InitTimeTrigger ==
  /\ MainStep("time", "wake")
  /\ timeLeft' = 0
  /\ UNCHANGED <<wakeOn, netLeft, sinceWake, time_trigger_count, wakePc, dummy,
                 queueVars, historyVars>>

\* Installing the pin's callback may fail; main() goes on.
InitWakeTrigger ==
  /\ MainStep("wake", "network")
  /\ wakeOn' \in BOOLEAN
  /\ UNCHANGED <<timeLeft, netLeft, sinceWake, time_trigger_count, wakePc, dummy,
                 queueVars, historyVars>>

InitNetworkTrigger ==
  /\ MainStep("network", "sleep")
  /\ netLeft' = 0
  /\ UNCHANGED <<wakeOn, timeLeft, sinceWake, time_trigger_count, wakePc, dummy,
                 queueVars, historyVars>>

-----------------------------------------------------------------------------
(* The triggers *)

\* Mutant: the count wraps a step late.
NextCountLate(count) == IF count < Decimation THEN count + 1 ELSE 0

\* time_trigger_count++, read modulo Decimation.
NextCount(count) == IF count + 1 < Decimation THEN count + 1 ELSE 0

time_trigger_handler ==
  /\ TimeDue
  /\ timeLeft' = TimeInterval
  /\ PutForce(TimeTask(time_trigger_count))
  /\ time_trigger_count' = NextCount(time_trigger_count)
  /\ UNCHANGED <<mainPc, wakeOn, netLeft, sinceWake, wakePc, dummy, failedPuts, sinceUpload>>

network_trigger_handler ==
  /\ NetDue
  /\ netLeft' = NetInterval
  /\ IF Decimation = 0
     THEN UNCHANGED <<queueVars, uploadDropped>>
     ELSE PutForce(NetworkTask)
  /\ UNCHANGED <<mainPc, wakeOn, timeLeft, sinceWake, time_trigger_count, wakePc, dummy,
                 failedPuts, sinceUpload>>

\* The k_msgq_put of msgq_put_force in the wake handler: done, or the queue is full.
WakePutStep ==
  IF QueueFull
  THEN /\ wakePc' = "get"
       /\ failedPuts' = failedPuts + 1
       /\ UNCHANGED <<queueVars, dummy>>
  ELSE /\ Put(WakeTask)
       /\ wakePc' = "idle"
       /\ failedPuts' = 0
       /\ dummy' = NoTask

\* A rising edge on the wake pin, out of the holdout, up to the first k_msgq_put.
wake_trigger_handler ==
  /\ wakeOn /\ HandlersIdle
  /\ sinceWake = Holdout
  /\ sinceWake' = 0
  /\ WakePutStep
  /\ UNCHANGED <<mainPc, wakeOn, timeLeft, netLeft, time_trigger_count, sinceUpload,
                 uploadDropped>>

\* Mutant: the task taken out is not replaced.
WakeGetGivesUp ==
  /\ wakePc = "get"
  /\ wakePc' = "idle"
  /\ dummy' = NoTask
  /\ slot' = NoTask
  /\ failedPuts' = 0
  /\ Dropped(slot)
  /\ UNCHANGED <<timerVars, time_trigger_count, worker, sinceUpload>>

\* Mutant: the oldest task is looked at and left in the queue.
WakeGetPeeks ==
  /\ wakePc = "get"
  /\ wakePc' = "put"
  /\ dummy' = slot
  /\ UNCHANGED <<timerVars, time_trigger_count, queueVars, historyVars>>

\* k_msgq_get: drops the oldest task, or finds the queue empty; either way it puts again.
WakeGet ==
  /\ wakePc = "get"
  /\ wakePc' = "put"
  /\ dummy' = slot
  /\ slot' = NoTask
  /\ Dropped(slot)
  /\ UNCHANGED <<timerVars, time_trigger_count, worker, failedPuts, sinceUpload>>

\* The recursive msgq_put_force.
WakeRetry ==
  /\ wakePc = "put"
  /\ WakePutStep
  /\ UNCHANGED <<timerVars, time_trigger_count, sinceUpload, uploadDropped>>

-----------------------------------------------------------------------------
(* The worker *)

\* History: a periodic capture was made, with or without upload.
CaptureCounted(t) ==
  /\ sinceUpload' = CASE t.trigger # "TIME_TRIGGER" -> sinceUpload
                      [] UploadsOnTime(t) -> 0
                      [] OTHER -> IF sinceUpload < Decimation THEN sinceUpload + 1
                                                              ELSE sinceUpload
  /\ UNCHANGED uploadDropped

\* Mutant: it waits without looking into the queue.
WorkerDoneWaits ==
  /\ HandlersIdle
  /\ worker # NoTask
  /\ worker' = NoTask
  /\ CaptureCounted(worker)
  /\ UNCHANGED <<timerVars, time_trigger_count, wakePc, dummy, slot, failedPuts>>

\* The worker is done with its task and calls k_msgq_get with K_FOREVER.
WorkerDone ==
  /\ HandlersIdle
  /\ worker # NoTask
  /\ worker' = slot
  /\ slot' = NoTask
  /\ CaptureCounted(worker)
  /\ UNCHANGED <<timerVars, time_trigger_count, wakePc, dummy, failedPuts>>

-----------------------------------------------------------------------------
Countdown(n) == IF n > 0 THEN n - 1 ELSE 0

Tick ==
  /\ HandlersIdle
  /\ ~TimeDue /\ ~NetDue
  /\ timeLeft' = Countdown(timeLeft)
  /\ netLeft' = Countdown(netLeft)
  /\ sinceWake' = IF sinceWake < Holdout THEN sinceWake + 1 ELSE sinceWake
  /\ UNCHANGED <<mainPc, wakeOn, time_trigger_count, wakePc, dummy, queueVars, historyVars>>

MainNext == InitTimeTrigger \/ InitWakeTrigger \/ InitNetworkTrigger
TriggerNext == \/ time_trigger_handler \/ network_trigger_handler
               \/ wake_trigger_handler \/ WakeGet \/ WakeRetry
Next == MainNext \/ TriggerNext \/ WorkerDone \/ Tick

\* An interrupt handler in progress finishes.  Every wait of the worker is
\* bounded by a timeout and interrupts leave it processor time, but they may
\* suspend it again and again: strong fairness.
Fairness == /\ WF_vars(WakeGet \/ WakeRetry)
            /\ SF_vars(WorkerDone)

Spec == Init /\ [][Next]_vars /\ Fairness

-----------------------------------------------------------------------------
(* Properties *)

\* The mailbox, seen through a wake handler that has taken the old task out and
\* not yet put its own in: the old task counts as in the mailbox until then.
Mailbox == INSTANCE CaptureMailbox
             WITH mail <- IF wakePc = "put" /\ slot = NoTask THEN dummy ELSE slot

\* With the wake handler interrupted between its k_msgq calls, the clock interrupt
\* at any of them, every step is one of CaptureMailbox: a trigger's task is
\* replaced only by a newer one or taken by the worker, a drop never leaves the
\* queue empty, and the worker does not wait while the queue holds a task
\* (msgq_put_force, main.c:87-111, and the worker's k_msgq_get).
MailboxSteps == Mailbox!Init /\ [][Mailbox!Next]_(Mailbox!vars)

\* The retries of the wake handler, in an interrupt above the worker, do not keep
\* the worker from its next task for ever: CaptureMailbox's fairness holds too.
MailboxFair == Mailbox!Fairness

\* The recursion of msgq_put_force in the wake interrupt is bounded: only a timer
\* handler can fill the place again, and each fires at most once in that time.
RetriesBounded == failedPuts <= 3

\* Decimation of uploads (main.c:126): as long as no periodic task that was to
\* upload has been dropped from the queue, at least one in every Decimation
\* periodic captures is uploaded, however many of the others are dropped.
DecimationUnlessDropped ==
  Decimation > 0 /\ ~uploadDropped => sinceUpload < Decimation
=============================================================================
