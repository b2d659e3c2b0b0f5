--------------------------- MODULE MCCaptureImage ---------------------------
(* CaptureImage at the size of the code: 480 lines, a buffer of 153600 bytes, VGA and  *)
(* QVGA.  The shots vary one thing at a time: the sensor's configuration at both       *)
(* resolutions; the instant; the data of the JPEG.                                     *)
EXTENDS CaptureImage

VGA == [width |-> 640, line_skip |-> 1, vstart |-> 14, vstop |-> 494]
QVGA == [width |-> 320, line_skip |-> 2, vstart |-> 12, vstop |-> 492]
BothResolutions == {VGA, QVGA}

\* What the sensor's loops set, next to what the registers held before.
AnExposure == {23100}
AGain == {[mantissa |-> 9, exponent |-> 1]}

Cfg(size, mean, format, aecOn, exposure, agcOn, gain) ==
  [resolution |-> size, do_mean |-> mean, format |-> format,
   aec |-> aecOn, exposure |-> exposure, agc |-> agcOn, gain |-> gain]
Gain(m, e) == [mantissa |-> m, exponent |-> e]
Manual(size, mean, format) ==
  Cfg(size, mean, format, FALSE, 1024, FALSE, Gain(5, 3))

\* The first and last days of months, from the epoch to the last year, among them leap
\* years, no leap years and the day 2^31 seconds fall on.
MonthEnds(yr) == {DayNumber(yr, m, d) : m \in {1, 2, 3, 12}, d \in {1, 28}}
                 \union {DayNumber(yr, 3, 1) - 1, DayNumber(yr, 12, 31)}
Days == {24855, 49710} \union UNION {MonthEnds(yr) : yr \in {1970, 2000, 2023, 2024, 2100}}
Noon == {[day |-> 19782, sec |-> 43200]}
AnyDay == {[day |-> d, sec |-> s] : d \in Days, s \in {0, 11647}}

Shot(cfg, instants) == [cfg |-> cfg, instants |-> instants]

\* With the sensor's loops; with one of them only; every exponent, and exposures that end
\* in each of the three registers; with the mean, at both resolutions.
AllShots ==
  {Shot(Cfg(VGA, FALSE, "BMP", TRUE, 513, TRUE, Gain(15, 2)), Noon)}
  \union {Shot(Cfg(QVGA, FALSE, "BMP", on, 513, ~on, Gain(15, 2)), Noon) : on \in BOOLEAN}
  \union {Shot(Cfg(QVGA, FALSE, "BMP", FALSE, exposure, FALSE, Gain(15, 0)), Noon) :
            exposure \in {0, 3, 4, 1023, 1024, 65535}}
  \union {Shot(Cfg(QVGA, FALSE, "BMP", FALSE, 1, FALSE, Gain(0, e)), Noon) : e \in 1 .. 6}
  \union {Shot(Manual(r, TRUE, "BMP"), Noon) : r \in BothResolutions}
  \union {Shot(Manual(QVGA, FALSE, "BMP"), AnyDay)}
  \union {Shot(Manual(r, FALSE, "JPG"), Noon) : r \in BothResolutions}

Unit(dc, at, value) == [i \in 1 .. 64 |-> IF i = 1 THEN dc ELSE IF i = at THEN value ELSE 0]
Wave(dc, n) == [i \in 1 .. 64 |-> IF i = 1 THEN dc ELSE ((n * i) % 9) - 4]

\* Units with one coefficient after a run of each interesting length, of each size; dense
\* units; differences of DC in both directions; two blocks of y, b and r.
Runs == {2, 3, 17, 18, 33, 34, 50, 63, 64}
Values == {1, -1, 255, -512, 1023}
BlockSamples ==
  {<<Unit(dc, at, value), Unit(-dc, at, -value), Unit(0, 2, 0),
     Unit(-dc, at, 3), Wave(7, at), Wave(-7, value)>> :
       dc \in {0, 1023}, at \in Runs, value \in Values}

OutputRows == {700, 1023}
=============================================================================
