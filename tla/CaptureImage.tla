---------------------------- MODULE CaptureImage ----------------------------
(***************************************************************************)
(* One capture from the sensor to the files on the SD card (capture_f,     *)
(* main.c:255-304, ov7675_init and ov7675_capture_sdhc_buffered): the      *)
(* sensor is set up over its bus, its control loops are stopped, the image *)
(* is read frame by frame, the loops go on, the status line is dated, and  *)
(* the image is encoded as a JPEG if the configuration says so.  Names,    *)
(* uploads and the clock are in the other modules.                         *)
(***************************************************************************)
EXTENDS SensorRegisters, JpegEncoder, Calendar

CONSTANTS Shots   \* bound: configurations, each with the instants of its captures

Configs == [resolution : Resolutions, do_mean : BOOLEAN, format : {"BMP", "JPG"},
            aec : BOOLEAN, exposure : 0 .. MaxExposure,
            agc : BOOLEAN, gain : [mantissa : 0 .. 15, exponent : 0 .. 6]]
\* Seconds since 1970, in a uint32_t, by days.
Instants == {t \in [day : Nat, sec : Nat] :
               t.sec < 86400 /\ (t.day < 49710 \/ (t.day = 49710 /\ t.sec < 23296))}

ASSUME ShotAssumption ==
  \A s \in Shots : s.cfg \in Configs /\ s.instants \subseteq Instants
ASSUME WindowAssumption ==
  \A r \in Resolutions : r.vstart \in Nat /\ r.vstop \in Nat

VARIABLES
  stage,        \* "init", "freeze", "frames", "unfreeze", "status", "jpg", "done"
  shot,
  time_wall,    \* when it was taken, Unknown until the status line tells
  synced,       \* the vsync before this frame has been waited for
  exposed,      \* the settings the lines of the image were taken with
  calendar      \* what unix_date made of time_wall, Unknown before

captureVars == <<stage, shot, time_wall, synced, exposed, calendar>>
imageVars == <<captureVars, vars, sensorVars, jpegVars>>

ImageInit ==
  /\ shot \in Shots
  /\ stage = "init" /\ synced = FALSE /\ exposed = {}
  /\ time_wall = Unknown /\ calendar = Unknown
  /\ Init /\ resolution = shot.cfg.resolution /\ do_mean = shot.cfg.do_mean
  /\ SensorInit /\ todo = ov7675_init(shot.cfg, resolution)
  /\ JpegInit

-----------------------------------------------------------------------------
(* The sensor *)

BusTransfer == SensorTransfer /\ UNCHANGED <<captureVars, vars, jpegVars>>

\* The sensor keeps adjusting what it controls until the camera powers it down.
Adjusting == /\ stage \in {"init", "freeze", "frames", "unfreeze"}
             /\ SensorAdjusts
             /\ UNCHANGED <<captureVars, vars, jpegVars>>

\* The calls of capture_f one after the other, each when the one before is through.
Call(from, to, transfers) ==
  /\ stage = from /\ todo = <<>>
  /\ stage' = to /\ todo' = transfers
  /\ UNCHANGED <<shot, time_wall, synced, exposed, calendar, regs, reading, latched, in_effect,
                 jpegVars>>

FreezeSensor == Call("init", "freeze", Freeze) /\ UNCHANGED vars
StartFrames == Call("freeze", "frames", <<>>) /\ UNCHANGED vars
EndFrames == Call("frames", "unfreeze", Unfreeze(shot.cfg)) /\ pc = "done" /\ UNCHANGED vars

-----------------------------------------------------------------------------
(* The frames *)

FirstOfFrame == pc = "line" /\ line = PhysicalLines

WaitForVsync ==
  /\ stage = "frames" /\ FirstOfFrame /\ ~synced
  /\ synced' = TRUE
  /\ NextFrame
  /\ UNCHANGED <<stage, shot, time_wall, exposed, calendar, vars, regs, todo, reading, jpegVars>>

FrameStep ==
  /\ stage = "frames" /\ synced
  /\ Next
  /\ synced' = ~(pc = "write")
  /\ exposed' = IF pc = "line" /\ ~Skipped(line) THEN exposed \union {in_effect} ELSE exposed
  /\ UNCHANGED <<stage, shot, time_wall, calendar, sensorVars, jpegVars>>

-----------------------------------------------------------------------------
(* The files *)

\* ov7675_deinit: the sensor is powered down, and its settings are of no matter any more.
Deinit ==
  /\ stage = "unfreeze" /\ todo = <<>> /\ stage' = "status"
  /\ regs' = ResetRegs /\ reading' = ResetRegs
  /\ latched' = Unknown /\ in_effect' = Unknown /\ exposed' = {}
  /\ UNCHANGED <<shot, time_wall, synced, calendar, vars, todo, jpegVars>>

WriteStatus ==
  /\ stage = "status"
  /\ time_wall' \in shot.instants
  /\ calendar' = unix_date(time_wall')
  /\ stage' = IF shot.cfg.format = "JPG" THEN "jpg" ELSE "done"
  /\ UNCHANGED <<shot, synced, exposed, vars, sensorVars, jpegVars>>

EncodeStep ==
  /\ stage = "jpg"
  /\ JpegNext
  /\ stage' = IF jpc' = "done" THEN "done" ELSE "jpg"
  /\ UNCHANGED <<shot, time_wall, synced, exposed, calendar, vars, sensorVars>>

ImageNext ==
  \/ BusTransfer \/ Adjusting \/ FreezeSensor \/ StartFrames \/ WaitForVsync \/ FrameStep
  \/ EndFrames \/ Deinit \/ WriteStatus \/ EncodeStep

ImageSpec == ImageInit /\ [][ImageNext]_imageVars

ImageTypeOK ==
  /\ TypeOK /\ SensorTypeOK /\ JpegTypeOK
  /\ stage \in {"init", "freeze", "frames", "unfreeze", "status", "jpg", "done"}
  /\ shot \in Shots
  /\ synced \in BOOLEAN
  /\ exposed \subseteq SettingsSet

-----------------------------------------------------------------------------
(* Properties *)

\* All frames an image is read from were taken with the same exposure, gain and white
\* balance, though the sensor adjusts them until just before (ov7675.c:375-381, "this
\* is to make sure the auto exposure settings have stuck").
OneExposure == Unknown \notin exposed /\ Cardinality(exposed) <= 1

\* The image is taken with the exposure and the gain of the configuration where it sets
\* them, and these are what the capture records.
ManualAsConfigured == stage \in {"freeze", "frames"} => AsConfigured(shot.cfg, resolution)

\* The date in the status line is that of the Gregorian calendar and the time of day, up to
\* 2106, for an instant the code takes from a signed number as an unsigned (util.c:8-60).
DateIsGregorian == calendar # Unknown => Dates(calendar, time_wall)
=============================================================================
