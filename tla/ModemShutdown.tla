---------------------------- MODULE ModemShutdown ----------------------------
(***************************************************************************)
(* The count of recent modem shutdowns (modem.c:37-69): a semaphore given  *)
(* at every shutdown of the modem library, from which a thread takes one   *)
(* every third of a day; at MaxDaily the application panics, and is reset  *)
(* (CONFIG_RESET_ON_FATAL_ERROR).  A day is MaxDaily periods of Period     *)
(* ticks.  The thread has the lowest priority but wakes three times a day: *)
(* it takes before another tick passes.                                    *)
(***************************************************************************)
EXTENDS Integers

CONSTANTS MaxDaily,   \* MODEM_MAX_DAILY_SHUTDOWNS
          Period,     \* ticks in 86400 / MODEM_MAX_DAILY_SHUTDOWNS seconds
          MaxTime     \* bound: the time the model runs to

ASSUME MaxDailyAssumption == MaxDaily \in Nat \ {0}
ASSUME PeriodAssumption == Period \in Nat \ {0}
ASSUME MaxTimeAssumption == MaxTime \in Nat

Day == MaxDaily * Period

VARIABLES
  now,
  sem,        \* modem_recent_shutdown_sem
  takeAt,     \* when shutdown_decrementer_worker wakes from its sleep
  app,        \* "running", or "panicked" until the reset
  last        \* history: last[i] is the time of the i-th latest shutdown since
              \* boot, a day before boot if there were fewer

vars == <<now, sem, takeAt, app, last>>

History == 1 .. 2 * MaxDaily

TypeOK ==
  /\ now \in 0 .. MaxTime
  /\ sem \in 0 .. MaxDaily
  /\ takeAt \in now .. now + Period
  /\ app \in {"running", "panicked"}
  /\ last \in [History -> -Day .. now]

Init ==
  /\ now = 0
  /\ sem = 0
  /\ takeAt = Period
  /\ app = "running"
  /\ last = [i \in History |-> -Day]

\* k_sem_give: counts up to the semaphore's limit.
Given(s) == IF s < MaxDaily THEN s + 1 ELSE s

Recorded(time) == [i \in History |-> IF i = 1 THEN time ELSE last[i - 1]]

\* on_modem_shutdown: gives, then looks at the count.
on_modem_shutdown ==
  /\ app = "running"
  /\ sem' = Given(sem)
  /\ app' = IF sem' >= MaxDaily THEN "panicked" ELSE "running"
  /\ last' = Recorded(now)
  /\ UNCHANGED <<now, takeAt>>

\* Mutants: nothing is ever taken, everything is, or one also from 0.
TakenNothing(s) == s
TakenAll(s) == 0
TakenBelowZero(s) == s - 1

\* shutdown_decrementer_worker: k_sem_take with K_NO_WAIT, and sleeps again.
Taken(s) == IF s > 0 THEN s - 1 ELSE s

shutdown_decrementer_worker ==
  /\ app = "running"
  /\ takeAt = now
  /\ takeAt' = now + Period
  /\ sem' = Taken(sem)
  /\ UNCHANGED <<now, app, last>>

Tick == /\ app = "running"
        /\ now < takeAt
        /\ now < MaxTime
        /\ now' = now + 1
        /\ UNCHANGED <<sem, takeAt, app, last>>

\* k_panic resets the chip: the count starts again.
Reset == /\ app = "panicked"
         /\ app' = "running"
         /\ sem' = 0
         /\ takeAt' = now + Period
         /\ last' = [i \in History |-> now - Day]
         /\ UNCHANGED now

Next == on_modem_shutdown \/ shutdown_decrementer_worker \/ Tick \/ Reset

Spec == Init /\ [][Next]_vars

-----------------------------------------------------------------------------
(* Properties *)

\* modem.c:65, "resetting application due to %d modem shutdowns in last 24h!": when
\* it panics there have been that many, the latest just now, the takes in between
\* and the places of the shutdowns in the periods notwithstanding.
PanicAfterMaxDaily == app = "panicked" => last[MaxDaily] >= now - Day

\* What the count lets through at most: a day never has 2 * MaxDaily shutdowns
\* without a panic.
NoPanicBound == app = "running" => last[2 * MaxDaily] <= now - Day
=============================================================================
