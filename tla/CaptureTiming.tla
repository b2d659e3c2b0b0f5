--------------------------- MODULE CaptureTiming ---------------------------
(***************************************************************************)
(* CaptureQueue with the time its worker takes, and the watchdog, which    *)
(* only capture_f feeds (main.c:257) and which resets the chip a day       *)
(* (watchdog.c) after it was last fed.  A poll of the network trigger      *)
(* takes as long as modem_network_register and http_get_uint32 do, three   *)
(* registration attempts of 150 s each where no network is found           *)
(* (modem.c:279-290), and feeds only if it ends in a capture.              *)
(***************************************************************************)
EXTENDS CaptureQueue

CONSTANTS PollTime,         \* how many ticks a poll may take
          CaptureTime,      \* how many ticks capture_f may take
          NewCounts,        \* whether a poll may find a new capture count
          WatchdogTimeout   \* WATCHDOG_TIMEOUT_SEC, in ticks

ASSUME DurationAssumption == PollTime \subseteq Nat /\ CaptureTime \subseteq Nat
ASSUME NewCountsAssumption == NewCounts \subseteq BOOLEAN
ASSUME WatchdogAssumption == WatchdogTimeout \in Nat \ {0}

VARIABLES job,       \* what the worker is doing: "none", "poll" or "capture"
          busy,      \* ticks until the job is done
          sinceFed   \* ticks since the watchdog was fed, at most WatchdogTimeout

jobVars == <<job, busy>>
timedVars == <<vars, jobVars, sinceFed>>

\* Values in range; a worker without a task has no job.
TimedTypeOK ==
  /\ TypeOK
  /\ job \in {"none", "poll", "capture"}
  /\ busy \in Nat
  /\ worker = NoTask => job = "none"
  /\ sinceFed \in 0 .. WatchdogTimeout

TimedInit == /\ Init
             /\ job = "none"
             /\ busy = 0
             /\ sinceFed = 0      \* the watchdog is started in setup()

\* Mutant: a capture does not feed the watchdog.
CaptureWithoutFeed == /\ job' = "capture"
                      /\ busy' \in CaptureTime
                      /\ UNCHANGED sinceFed

\* capture_f: the watchdog is fed first, then everything that takes time.
capture_f == /\ job' = "capture"
             /\ busy' \in CaptureTime
             /\ sinceFed' = 0

\* The worker leaves k_msgq_get with a task.
StartJob ==
  /\ HandlersIdle
  /\ worker # NoTask
  /\ job = "none"
  /\ IF worker.trigger = "NETWORK_TRIGGER"
     THEN job' = "poll" /\ busy' \in PollTime /\ UNCHANGED sinceFed
     ELSE capture_f
  /\ UNCHANGED vars

\* The poll found a new capture count.
PollToCapture ==
  /\ HandlersIdle
  /\ job = "poll" /\ busy = 0
  /\ TRUE \in NewCounts
  /\ capture_f
  /\ UNCHANGED vars

\* The capture is done, or the poll found nothing new or failed.
EndJob ==
  /\ job # "none" /\ busy = 0
  /\ job = "poll" => FALSE \in NewCounts
  /\ WorkerDone
  /\ job' = "none"
  /\ UNCHANGED <<busy, sinceFed>>

\* Threads get the processor within a tick: main() starts the triggers in the
\* first one, and a job starts, and ends, on time.
TimedTick ==
  /\ mainPc = "sleep"
  /\ worker # NoTask => job # "none"
  /\ job # "none" => busy > 0
  /\ Tick
  /\ busy' = Countdown(busy)
  /\ sinceFed' = IF sinceFed < WatchdogTimeout THEN sinceFed + 1 ELSE sinceFed
  /\ UNCHANGED job

\* The network timer is started 50 ms after the time trigger's (main.c:178, 523-525):
\* in a tick where both are due it comes second.
TimedTrigger == /\ MainNext \/ TriggerNext
                /\ TimeDue => netLeft' = netLeft
                /\ UNCHANGED <<jobVars, sinceFed>>

TimedNext == StartJob \/ PollToCapture \/ EndJob \/ TimedTick \/ TimedTrigger

TimedSpec == TimedInit /\ [][TimedNext]_timedVars

-----------------------------------------------------------------------------
(* Properties *)

\* The watchdog does not reset a camera whose periodic captures are due well
\* within its timeout.  config.txt:52 names only intervals longer than a day as
\* starving it; main.c:257 knows that a day without capture does.
WatchdogFed == sinceFed < WatchdogTimeout
=============================================================================
