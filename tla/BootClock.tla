----------------------------- MODULE BootClock -----------------------------
(***************************************************************************)
(* Where the camera's wall clock comes from: setup() (main.c:426-478) asks *)
(* the network, then the status file on the SD card, then falls back to    *)
(* 2020/01/01, again at every boot.  The network's answer to               *)
(* date_time_update_async arrives in another thread, at any point of       *)
(* setup() or later, and sets the clock before it sets the label of it in  *)
(* the camera's status.  The clock names the images on the card, which a   *)
(* later image of the same name replaces, and is written to the status     *)
(* file.  Real time is counted in ticks of a second or so, a clock that is *)
(* set keeps pace with it, and any step may take any time.                 *)
(***************************************************************************)
EXTENDS Integers

CONSTANTS Start,       \* bound: when the model starts, after the epoch 0
          MaxTime,     \* bound: when it ends
          MaxBoots,    \* bound: power losses
          NoTime       \* not a time: the clock is not valid, the file has no line

ASSUME TimeAssumption == MaxTime \in Nat /\ Start \in 1 .. MaxTime /\ NoTime \notin Int
ASSUME BootsAssumption == MaxBoots \in Nat

Times == 0 .. MaxTime
ClockTimes == 0 .. 2 * MaxTime    \* a clock may be set to any of Times, and runs on

\* Mutant: tm_year is not counted from 1900.
EpochOfAnotherCentury == -1

Epoch == 0      \* 2020/01/01-00:00:00 UTC

VARIABLES
  realTime,
  pc,            \* what the camera does next
  clock,         \* the date_time library's time, NoTime while not valid
  time_src,
  pending,       \* an answer to date_time_update_async may still arrive
  answered,      \* it has set the clock, and its handler is still to be called
  handlerOn,     \* time_source_stats_async is registered
  statusFile,    \* the status file: "none", "empty", "lines"
  statusTime,    \* the time in its last line
  statusSrc,     \* the source of the time in its last line
  images,        \* the times that name images on the card
  time_wall,     \* the time of the capture being made
  boots,
  \* history, read by no step
  overwritten,   \* an image replaced another
  everOffline,   \* an image was named by a clock not set from the network
  takenAt,       \* the real time when time_wall was taken
  takenSrc,      \* the source of the time then
  misdated,      \* lines of this boot with another time that they say is the network's
  undone         \* in this boot setup() set the clock between an answer and its handler

storageVars == <<statusFile, statusTime, statusSrc, images>>
lineVars == <<takenAt, takenSrc, misdated, undone>>
historyVars == <<overwritten, everOffline, lineVars>>
clockVars == <<clock, time_src, pending, answered, handlerOn>>
restVars == <<storageVars, time_wall, boots, historyVars>>
vars == <<realTime, pc, clockVars, restVars>>

SetupSteps == {"register", "wait", "handler", "trySd", "loadSd", "setSd", "labelSd",
               "tryDefault", "setDefault", "labelDefault", "final"}
RunSteps == {"idle", "image", "status", "line", "sleep"}
Sources == {"NO_TIME", "NETWORK_TIME", "FS_TIME"}

TypeOK ==
  /\ realTime \in Times
  /\ pc \in SetupSteps \union RunSteps \union {"halted"}
  /\ clock \in ClockTimes \union {NoTime}
  /\ time_src \in Sources
  /\ pending \in BOOLEAN
  /\ answered \in BOOLEAN
  /\ handlerOn \in BOOLEAN
  /\ statusFile \in {"none", "empty", "lines"}
  /\ statusTime \in ClockTimes \union {NoTime}
  /\ statusSrc \in Sources
  /\ images \subseteq ClockTimes
  /\ time_wall \in ClockTimes
  /\ boots \in 0 .. MaxBoots
  /\ overwritten \in BOOLEAN
  /\ everOffline \in BOOLEAN
  /\ takenAt \in Times
  /\ takenSrc \in Sources
  /\ misdated \in Nat
  /\ undone \in BOOLEAN

Init ==
  /\ realTime = Start
  /\ pc = "register"
  /\ clock = NoTime
  /\ time_src = "NO_TIME"
  /\ pending = FALSE
  /\ answered = FALSE
  /\ handlerOn = FALSE
  /\ statusFile = "none" /\ statusTime = NoTime /\ statusSrc = "NO_TIME"
  /\ images = {}
  /\ time_wall = 0
  /\ boots = 0
  /\ overwritten = FALSE /\ everOffline = FALSE
  /\ takenAt = 0 /\ takenSrc = "NO_TIME" /\ misdated = 0 /\ undone = FALSE

-----------------------------------------------------------------------------
(* setup() *)

Go(from, to) == pc = from /\ pc' = to

Valid == clock # NoTime

\* modem_network_register returns 0, and the time is asked for; or it returns
\* something else, an error or 1, or there is no upload and no network at all.
Registered ==
  /\ Go("register", "wait")
  /\ pending' = TRUE
  /\ UNCHANGED <<realTime, clock, time_src, answered, handlerOn, restVars>>

NotRegistered ==
  /\ Go("register", "handler")
  /\ UNCHANGED <<realTime, clockVars, restVars>>

\* The busy wait ends with a valid time, or after 10 s without.
WaitEnds ==
  /\ Go("wait", "handler")
  /\ time_src' = "NETWORK_TIME"
  /\ UNCHANGED <<realTime, clock, pending, answered, handlerOn, restVars>>

RegisterHandler ==
  /\ Go("handler", "trySd")
  /\ handlerOn' = TRUE
  /\ UNCHANGED <<realTime, clock, time_src, pending, answered, restVars>>

TrySd ==
  /\ Go("trySd", IF Valid THEN "tryDefault" ELSE "loadSd")
  /\ UNCHANGED <<realTime, clockVars, restVars>>

\* What sdhc_load_last_status_time may return: an error without the file or in reading
\* it, the 6 conversions of sscanf for a line, and for an empty file, whose
\* uninitialised buffer is scanned, anything.
LoadResults == CASE statusFile = "none" -> {-1}
                 [] statusFile = "lines" -> {-1, 6}
                 [] OTHER -> -1 .. 6

LoadSd ==
  /\ pc = "loadSd"
  /\ \E ret \in LoadResults : pc' = IF ret = 0 THEN "setSd" ELSE "tryDefault"
  /\ UNCHANGED <<realTime, clockVars, restVars>>

\* date_time_set in setup(), maybe between the network's answer and its handler.
SetBySetup ==
  /\ undone' = (undone \/ answered)
  /\ UNCHANGED <<realTime, time_src, pending, answered, handlerOn, storageVars, time_wall, boots,
                 overwritten, everOffline, takenAt, takenSrc, misdated>>

\* date_time_set may refuse an uninitialised struct tm, or take it.
SetSd ==
  /\ Go("setSd", "labelSd")
  /\ clock' \in IF statusFile = "lines" THEN {statusTime} ELSE {clock} \union Times
  /\ SetBySetup

LabelSd ==
  /\ Go("labelSd", "tryDefault")
  /\ time_src' = "FS_TIME"
  /\ UNCHANGED <<realTime, clock, pending, answered, handlerOn, restVars>>

\* Mutant: the default is an else of the SD card's time.
TryDefaultWithoutFile ==
  /\ Go("tryDefault", IF Valid \/ statusFile # "none" THEN "final" ELSE "setDefault")
  /\ UNCHANGED <<realTime, clockVars, restVars>>

TryDefault ==
  /\ Go("tryDefault", IF Valid THEN "final" ELSE "setDefault")
  /\ UNCHANGED <<realTime, clockVars, restVars>>

SetDefault ==
  /\ Go("setDefault", "labelDefault")
  /\ clock' = Epoch
  /\ SetBySetup

\* Mutant: the source of the time is left as it was.
LabelDefaultKept ==
  /\ Go("labelDefault", "final")
  /\ UNCHANGED <<realTime, clockVars, restVars>>

LabelDefault ==
  /\ Go("labelDefault", "final")
  /\ time_src' = "NO_TIME"
  /\ UNCHANGED <<realTime, clock, pending, answered, handlerOn, restVars>>

\* The last check of setup(): without a time main() halts.
FinalCheck ==
  /\ Go("final", IF Valid THEN "idle" ELSE "halted")
  /\ UNCHANGED <<realTime, clockVars, restVars>>

\* The library asks the network again by itself, every few hours.
Requery ==
  /\ pc \in RunSteps
  /\ ~pending /\ ~answered /\ pending' = TRUE
  /\ UNCHANGED <<realTime, pc, clock, time_src, answered, handlerOn, restVars>>

\* The answer of the network arrives, and the library sets the clock.
TimeObtained ==
  /\ pending /\ pending' = FALSE
  /\ answered' = TRUE
  /\ clock' = realTime
  /\ UNCHANGED <<realTime, pc, time_src, handlerOn, restVars>>

\* Then it calls time_source_stats_async: DATE_TIME_OBTAINED_MODEM.
ObtainedHandler ==
  /\ answered /\ answered' = FALSE
  /\ time_src' = IF handlerOn THEN "NETWORK_TIME" ELSE time_src
  /\ UNCHANGED <<realTime, pc, clock, pending, handlerOn, restVars>>

\* Or there is no answer: DATE_TIME_NOT_OBTAINED.
TimeNotObtained ==
  /\ pending /\ pending' = FALSE
  /\ time_src' = IF handlerOn THEN "NO_TIME" ELSE time_src
  /\ UNCHANGED <<realTime, pc, clock, answered, handlerOn, restVars>>

-----------------------------------------------------------------------------
(* capture_f, as far as the card and the clock are concerned *)

StartCapture ==
  /\ Go("idle", "image")
  /\ time_wall' = clock
  /\ everOffline' = (everOffline \/ clock # realTime)
  /\ takenAt' = realTime /\ takenSrc' = time_src
  /\ UNCHANGED <<realTime, clockVars, storageVars, boots, overwritten, misdated, undone>>

\* sdhc_move_image: fs_rename replaces a file of the same name.
MoveImage ==
  /\ Go("image", "status")
  /\ images' = images \union {time_wall}
  /\ overwritten' = (overwritten \/ time_wall \in images)
  /\ UNCHANGED <<realTime, clockVars, statusFile, statusTime, statusSrc, time_wall, boots,
                 everOffline, lineVars>>

\* sdhc_write_status: fs_open creates the file, then a line is appended.
OpenStatus ==
  /\ Go("status", "line")
  /\ statusFile' = IF statusFile = "none" THEN "empty" ELSE statusFile
  /\ UNCHANGED <<realTime, clockVars, statusTime, statusSrc, images, time_wall, boots,
                 historyVars>>

\* strfstatus: the time is the one taken when the capture began, its source the present one.
StatusLine ==
  /\ statusFile' = "lines"
  /\ statusTime' = time_wall
  /\ statusSrc' = time_src
  /\ misdated' = IF time_src = "NETWORK_TIME" /\ time_wall # takenAt THEN misdated + 1
                 ELSE misdated
  /\ UNCHANGED <<realTime, clockVars, images, time_wall, boots, overwritten, everOffline,
                 takenAt, takenSrc, undone>>

\* Mutant: no k_msleep at the end of capture_f.
WriteStatusNoSleep == Go("line", "idle") /\ StatusLine

WriteStatus == Go("line", "sleep") /\ StatusLine

-----------------------------------------------------------------------------
\* A tick passes: k_msleep(1000) at the end of capture_f puts one between captures.
Tick ==
  /\ realTime < MaxTime
  /\ realTime' = realTime + 1
  /\ clock' = IF Valid THEN clock + 1 ELSE clock
  /\ pc' = IF pc = "sleep" THEN "idle" ELSE pc
  /\ UNCHANGED <<time_src, pending, answered, handlerOn, restVars>>

\* The power fails, or the watchdog or a panic resets the chip: only the card lasts.
\* main() is a second (k_msleep(1000)) from setup().
PowerLoss ==
  /\ boots < MaxBoots
  /\ boots' = boots + 1
  /\ realTime < MaxTime
  /\ realTime' = realTime + 1
  /\ pc' = "register"
  /\ clock' = NoTime
  /\ time_src' = "NO_TIME"
  /\ pending' = FALSE
  /\ answered' = FALSE
  /\ handlerOn' = FALSE
  /\ misdated' = 0 /\ undone' = FALSE
  /\ time_wall' = 0 /\ takenAt' = 0 /\ takenSrc' = "NO_TIME"
  /\ UNCHANGED <<storageVars, overwritten, everOffline>>

Setup == \/ Registered \/ NotRegistered \/ WaitEnds \/ RegisterHandler \/ TrySd
         \/ LoadSd \/ SetSd \/ LabelSd \/ TryDefault \/ SetDefault \/ LabelDefault \/ FinalCheck
Capture == StartCapture \/ MoveImage \/ OpenStatus \/ WriteStatus
Network == Requery \/ TimeObtained \/ ObtainedHandler \/ TimeNotObtained
Next == Setup \/ Capture \/ Network \/ Tick \/ PowerLoss

Spec == Init /\ [][Next]_vars

-----------------------------------------------------------------------------
(* Properties *)

\* Whatever arrives when, captures are only made with a valid clock: setup() never
\* halts for want of a time (main.c:478).
NeverHalts == pc # "halted" /\ (pc \in RunSteps => Valid)

\* How far a status line that says NETWORK_TIME ("time obtained from the network", of
\* README.md) can be trusted.  Its time is the one taken when the capture began (main.c:261),
\* its source the one when the line is formatted (util.c:82): where both were the network's,
\* the line has the true time of the capture, and no more than one line of a boot has
\* another, that of the capture during which the network first answered.  Excepted are
\* boots in which setup() set the clock between an answer and its handler (main.c:396,460).
NetworkLabelHonest ==
  ~undone =>
    /\ misdated <= 1
    /\ pc = "sleep" /\ statusSrc = "NETWORK_TIME" /\ takenSrc = "NETWORK_TIME" =>
         statusTime = takenAt

\* As long as every image was named by the network's time, no image has replaced
\* another, over any number of power losses (sdhc_move_image, sd.c:303-320).
OverwritesOnlyOffline == overwritten => everOffline

\* main.c:454-456, "then from SD" and "no network time, resorting to SD": without
\* network time the clock does not start at the epoch when the file has a time.
SdTimeUsed == pc = "labelDefault" => statusFile # "lines"
=============================================================================
