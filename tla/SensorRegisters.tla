-------------------------- MODULE SensorRegisters ---------------------------
(***************************************************************************)
(* The image sensor's exposure, gain and white balance, set over the SCCB  *)
(* bus (ov7675.c:46-206, 256-294).  A call is a program of bus transfers:  *)
(* a masked write is a read and, later, a write of the whole byte.  While  *)
(* its loops are on (AEC, AGC, AWB in COM8) the sensor changes the same    *)
(* registers by itself, between any two transfers.  What it has latched    *)
(* takes effect a frame later.                                             *)
(***************************************************************************)
EXTENDS Integers, Sequences, FiniteSets

CONSTANTS SensorExposures,   \* bound: what the sensor's exposure control may set
          SensorGains,       \* bound: its gain control, [mantissa, exponent]
          SensorReds,        \* bound: its white balance
          Unknown            \* latched before the capture, of no matter to it

MaxExposure == 65535   \* the exposure is uint16_t

ASSUME SensorAssumption ==
  /\ SensorExposures \subseteq 0 .. MaxExposure
  /\ SensorGains \subseteq [mantissa : 0 .. 15, exponent : 0 .. 6]
  /\ SensorReds \subseteq 0 .. 255

VARIABLES
  regs,        \* the sensor's registers
  todo,        \* the transfers left of the call being made
  reading,     \* the bytes ov7675_rd_exposure and ov7675_rd_gain got
  latched,     \* the settings the sensor latched at the last vsync
  in_effect    \* and those the frame it sends was taken with

sensorVars == <<regs, todo, reading, latched, in_effect>>

Registers == {"GAIN", "VREF", "COM1", "AECH", "AECHH", "COM8", "RED"}
COM8_AEC == 1
COM8_AWB == 2
COM8_AGC == 4
COM8_FAST == 224     \* COM8_FASTAEC | COM8_AECSTEP | COM8_BFILT

Bit(byte, flag) == (byte \div flag) % 2
popcnt(byte) == Bit(byte, 1) + Bit(byte, 2) + Bit(byte, 4) + Bit(byte, 8)
                + Bit(byte, 16) + Bit(byte, 32) + Bit(byte, 64) + Bit(byte, 128)

\* (val & ~msk) | (dat & msk)
Chosen(val, dat, msk, flag) == flag * Bit(IF Bit(msk, flag) = 1 THEN dat ELSE val, flag)
Masked(val, dat, msk) ==
  Chosen(val, dat, msk, 1) + Chosen(val, dat, msk, 2) + Chosen(val, dat, msk, 4)
  + Chosen(val, dat, msk, 8) + Chosen(val, dat, msk, 16) + Chosen(val, dat, msk, 32)
  + Chosen(val, dat, msk, 64) + Chosen(val, dat, msk, 128)

wr_reg(reg, dat) == [op |-> "write", reg |-> reg, dat |-> dat % 256]
rd_reg(reg) == [op |-> "read", reg |-> reg]
wr_msk_reg(reg, dat, msk) == [op |-> "modify", reg |-> reg, dat |-> dat % 256, msk |-> msk]
se_reg(reg, flags) == wr_msk_reg(reg, flags, flags)
cl_reg(reg, flags) == wr_msk_reg(reg, 0, flags)
write_flag(reg, flag, on) == IF on THEN se_reg(reg, flag) ELSE cl_reg(reg, flag)
Vsync == [op |-> "vsync"]

-----------------------------------------------------------------------------
(* Exposure and gain in the registers *)

wr_exposure(time) == <<wr_msk_reg("COM1", time, 3),
                       wr_msk_reg("AECH", time \div 4, 255),
                       wr_msk_reg("AECHH", time \div 1024, 63)>>

rd_exposure(bytes) == (bytes.COM1 % 4) + bytes.AECH * 4 + (bytes.AECHH % 64) * 1024

\* A gain of 1.mantissa * 2^exponent has exponent ones in GAIN[7:4] and VREF[7:6].
gain_bits(gain) == ((2^gain.exponent - 1) * 16 + (gain.mantissa % 16)) % 256
vref_bits(gain) == ((2^gain.exponent - 1) * 4) % 256

\* Mutant: VREF is written whole, with the vertical window in its low bits.
WrGainWithoutMask(gain) ==
  <<wr_msk_reg("GAIN", gain_bits(gain), 255), wr_reg("VREF", vref_bits(gain))>>

wr_gain(gain) == <<wr_msk_reg("GAIN", gain_bits(gain), 255),
                   wr_msk_reg("VREF", vref_bits(gain), 192)>>

rd_gain(bytes) == [mantissa |-> bytes.GAIN % 16,
                   exponent |-> popcnt(bytes.GAIN \div 16) + popcnt(bytes.VREF \div 64)]

Settings == [exposure |-> rd_exposure(regs), gain |-> rd_gain(regs), red |-> regs.RED]

-----------------------------------------------------------------------------
(* The calls *)

aec(on) == write_flag("COM8", COM8_AEC, on)
agc(on) == write_flag("COM8", COM8_AGC, on)
awb(on) == write_flag("COM8", COM8_AWB, on)

\* The registers after COM7_RESET, as the data sheet has them.
ResetRegs == [GAIN |-> 0, VREF |-> 0, COM1 |-> 0, AECH |-> 64, AECHH |-> 0, COM8 |-> 143,
              RED |-> 128]

default_regs == <<wr_reg("VREF", 10), wr_reg("COM8", COM8_FAST),
                  wr_reg("GAIN", 0), wr_reg("AECH", 0),
                  wr_reg("COM8", COM8_FAST + COM8_AGC + COM8_AEC), wr_reg("RED", 96),
                  wr_reg("COM8", COM8_FAST + COM8_AGC + COM8_AEC + COM8_AWB)>>

fmt_rgb565 == <<wr_reg("COM1", 0)>>

\* The vertical window in VREF[3:0]; the read and the write are 10 ms apart.
WindowBits(wsize) == (wsize.vstop % 4) * 4 + (wsize.vstart % 4)
set_hw(wsize) == <<wr_msk_reg("VREF", WindowBits(wsize), 15)>>

ReadBack == <<rd_reg("COM1"), rd_reg("AECH"), rd_reg("AECHH"), rd_reg("GAIN"), rd_reg("VREF")>>

\* Mutant: the exposure is written while the sensor may still change it.
InitExposureFirst(cfg, wsize) ==
  default_regs \o fmt_rgb565 \o set_hw(wsize)
  \o (IF cfg.aec THEN <<>> ELSE wr_exposure(cfg.exposure)) \o <<aec(cfg.aec)>>
  \o <<agc(cfg.agc)>> \o (IF cfg.agc THEN <<>> ELSE wr_gain(cfg.gain))
  \o ReadBack

ov7675_init(cfg, wsize) ==
  default_regs \o fmt_rgb565 \o set_hw(wsize)
  \o <<aec(cfg.aec)>> \o (IF cfg.aec THEN <<>> ELSE wr_exposure(cfg.exposure))
  \o <<agc(cfg.agc)>> \o (IF cfg.agc THEN <<>> ELSE wr_gain(cfg.gain))
  \o ReadBack

\* Mutant: the first frame is taken at once.
FreezeAtOnce == <<aec(FALSE), agc(FALSE), awb(FALSE)>>

\* All three loops are stopped, and one frame is let pass, before the image is read.
Freeze == <<aec(FALSE), agc(FALSE), awb(FALSE), Vsync>>
Unfreeze(cfg) == <<aec(cfg.aec), agc(cfg.agc), awb(TRUE)>>

-----------------------------------------------------------------------------
(* The transfers, and the sensor *)

SensorInit ==
  /\ regs = ResetRegs
  /\ reading = ResetRegs
  /\ latched = Unknown /\ in_effect = Unknown

Transfer(op) == todo # <<>> /\ Head(todo).op = op

SensorWrite ==
  /\ Transfer("write")
  /\ regs' = [regs EXCEPT ![Head(todo).reg] = Head(todo).dat]
  /\ todo' = Tail(todo)
  /\ UNCHANGED <<reading, latched, in_effect>>

\* The read of a masked write leaves the byte to be written.
SensorModify ==
  /\ Transfer("modify")
  /\ LET t == Head(todo)
     IN  todo' = <<wr_reg(t.reg, Masked(regs[t.reg], t.dat, t.msk))>> \o Tail(todo)
  /\ UNCHANGED <<regs, reading, latched, in_effect>>

SensorRead ==
  /\ Transfer("read")
  /\ reading' = [reading EXCEPT ![Head(todo).reg] = regs[Head(todo).reg]]
  /\ todo' = Tail(todo)
  /\ UNCHANGED <<regs, latched, in_effect>>

\* A frame ends and the next begins.
NextFrame == latched' = Settings /\ in_effect' = latched

SensorVsync ==
  /\ Transfer("vsync")
  /\ NextFrame
  /\ todo' = Tail(todo)
  /\ UNCHANGED <<regs, reading>>

SensorTransfer == SensorWrite \/ SensorModify \/ SensorRead \/ SensorVsync

On(flag) == Bit(regs.COM8, flag) = 1

AdjustExposure ==
  /\ On(COM8_AEC)
  /\ \E time \in SensorExposures :
       regs' = [regs EXCEPT !.COM1 = Masked(@, time % 256, 3), !.AECH = (time \div 4) % 256,
                            !.AECHH = Masked(@, time \div 1024, 63)]

AdjustGain ==
  /\ On(COM8_AGC)
  /\ \E gain \in SensorGains :
       regs' = [regs EXCEPT !.GAIN = gain_bits(gain), !.VREF = Masked(@, vref_bits(gain), 192)]

AdjustWhite ==
  /\ On(COM8_AWB)
  /\ \E red \in SensorReds : regs' = [regs EXCEPT !.RED = red]

SensorAdjusts == /\ AdjustExposure \/ AdjustGain \/ AdjustWhite
                 /\ UNCHANGED <<todo, reading, latched, in_effect>>

KnownSettings == [exposure : 0 .. MaxExposure, gain : [mantissa : 0 .. 15, exponent : 0 .. 6],
                  red : 0 .. 255]
SettingsSet == KnownSettings \union {Unknown}
ASSUME UnknownAssumption == Unknown \notin KnownSettings

Transfers == [op : {"write"}, reg : Registers, dat : 0 .. 255]
             \union [op : {"read"}, reg : Registers]
             \union [op : {"modify"}, reg : Registers, dat : 0 .. 255, msk : 0 .. 255]
             \union [op : {"vsync"}]

SensorTypeOK ==
  /\ regs \in [Registers -> 0 .. 255]
  /\ reading \in [Registers -> 0 .. 255]
  /\ todo \in Seq(Transfers)
  /\ latched \in SettingsSet /\ in_effect \in SettingsSet

\* What the configuration fixes is what the sensor uses and the capture records:
\* nothing the sensor set while its loops were on, or the bytes shared between gain
\* and window, is left over (ov7675.c:110-113, 279-294).
AsConfigured(cfg, wsize) ==
  /\ ~cfg.aec => rd_exposure(regs) = cfg.exposure /\ rd_exposure(reading) = cfg.exposure
  /\ ~cfg.agc => rd_gain(regs) = cfg.gain /\ rd_gain(reading) = cfg.gain
  /\ regs.VREF % 16 = WindowBits(wsize)
=============================================================================
