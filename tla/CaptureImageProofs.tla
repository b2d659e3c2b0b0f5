------------------------- MODULE CaptureImageProofs -------------------------
(***************************************************************************)
(* Proofs about a capture from the sensor to the JPEG: its frames are read *)
(* as FrameReadout has it, whatever goes on around them, and the encoder   *)
(* reads no pixel outside its half of the buffer.                          *)
(***************************************************************************)
EXTENDS CaptureImage, FrameReadoutProofs, FiniteSetTheorems, WellFoundedInduction

USE DEF captureVars, jpegVars, bandVars, unitVars, outputVars, poolVars

\* Each step of a capture is one of the reading, or leaves it alone.
LEMMA ReadingSteps ==
  ASSUME [ImageNext]_imageVars
  PROVE  [Next]_vars
<1>1. CASE BusTransfer
  BY <1>1 DEF BusTransfer
<1>2. CASE Adjusting
  BY <1>2 DEF Adjusting
<1>3. CASE FreezeSensor \/ StartFrames \/ EndFrames
  BY <1>3 DEF FreezeSensor, StartFrames, EndFrames
<1>4. CASE WaitForVsync
  BY <1>4 DEF WaitForVsync
<1>5. CASE FrameStep
  BY <1>5 DEF FrameStep
<1>6. CASE Deinit \/ WriteStatus \/ EncodeStep
  BY <1>6 DEF Deinit, WriteStatus, EncodeStep
<1>7. CASE UNCHANGED imageVars
  BY <1>7 DEF imageVars
<1> QED
  BY <1>1, <1>2, <1>3, <1>4, <1>5, <1>6, <1>7 DEF ImageNext

\* The frames of a capture are read as FrameReadout reads them, between the setting up of
\* the sensor and the encoding, in any order with the sensor's own steps (main.c:255-304).
THEOREM CaptureReadsFrames == ImageSpec => Spec
<1>1. ImageInit => Init
  BY DEF ImageInit
<1> QED
  BY <1>1, ReadingSteps, PTL DEF ImageSpec, Spec

-----------------------------------------------------------------------------
(* The half of the buffer the lines are read back to *)

\* The rows of blocks walk down the band from its first line.
IBand ==
  /\ resolution \in Resolutions
  /\ yindex \in Nat
  /\ deepest \in Nat /\ deepest < band_lines

LEMMA HalfHoldsLine ==
  ASSUME NEW r \in Resolutions, resolution = r
  PROVE  LineBytes \in Nat \ {0} /\ band_lines \in Nat \ {0}
                                 /\ band_lines * LineBytes <= Capacity \div 2
<1> DEFINE half == Capacity \div 2
           w == LineBytes
<1>1. r.width \in Nat \ {0} /\ 4 * r.width <= Capacity /\ Capacity \in Nat
  BY ResolutionAssumption, BandAssumption, CapacityAssumption
<1>2. w \in Nat \ {0} /\ half \in Nat /\ w <= half
  BY <1>1 DEF LineBytes
<1> HIDE DEF half, w
<1>3. half \div w \in Nat \ {0} /\ (half \div w) * w <= half
  BY <1>2, SMT
<1> QED
  BY <1>2, <1>3 DEF band_lines, half, w

LEMMA BandStep ==
  ASSUME IBand, [ImageNext]_imageVars
  PROVE  IBand'
<1>1. UNCHANGED <<resolution, band_lines>>
  <2>1. UNCHANGED resolution
    BY ReadingSteps DEF Next, ReadLine, SkipLine, WriteBuffer, vars
  <2> QED
    BY <2>1 DEF band_lines, LineBytes
<1>2. band_lines \in Nat \ {0}
  BY HalfHoldsLine DEF IBand
<1>3. CASE UNCHANGED <<yindex, deepest>>
  BY <1>1, <1>3 DEF IBand
<1>4. CASE JpegRow
  <2> DEFINE last == SourceRow(yindex + Block - 1)
  <2>1. yindex' \in Nat
    BY <1>4 DEF JpegRow, IBand, Block
  <2>2. last \in Nat /\ last < band_lines
    BY <1>2 DEF SourceRow, IBand, Block
  <2>3. deepest' \in {last, deepest}
    BY <1>4 DEF JpegRow, Block
  <2> QED
    BY <1>1, <2>1, <2>2, <2>3 DEF IBand
<1>5. CASE JpegFill \/ JpegFillFails
  BY <1>1, <1>5 DEF JpegFill, JpegFillFails, BandFrame, IBand
<1>6. ASSUME JpegNext PROVE JpegRow \/ JpegFill \/ JpegFillFails \/ UNCHANGED <<yindex, deepest>>
  BY <1>6 DEF JpegNext, JpegOpen, JpegNew, JpegForget, JpegWrite, JpegStart, JpegKeep, BandFrame,
              JpegUnit, JpegUnitsDone, JpegEnd
<1>7. ASSUME ImageNext PROVE JpegNext \/ UNCHANGED jpegVars
  BY <1>7 DEF ImageNext, BusTransfer, Adjusting, FreezeSensor, StartFrames, EndFrames, Call,
              WaitForVsync, FrameStep, Deinit, WriteStatus, EncodeStep
<1> QED
  BY <1>3, <1>4, <1>5, <1>6, <1>7 DEF imageVars

\* The encoder reads pixels from the half of the buffer where the bands are, also when it
\* runs on past a band that could not be read (tjpg.h:1149-1168).
THEOREM RowsStayInBand == ImageSpec => []RowsInBand
<1>1. ImageInit => IBand
  <2> SUFFICES ASSUME ImageInit PROVE IBand
    OBVIOUS
  <2>1. resolution \in Resolutions /\ yindex = 0 /\ deepest = 0
    BY DEF ImageInit, Init, JpegInit
  <2> QED
    BY <2>1, HalfHoldsLine DEF IBand
<1>2. IBand => RowsInBand
  <2> SUFFICES ASSUME IBand PROVE RowsInBand
    OBVIOUS
  <2>1. /\ LineBytes \in Nat \ {0} /\ band_lines \in Nat
        /\ band_lines * LineBytes <= Capacity \div 2
    BY HalfHoldsLine DEF IBand
  <2>2. Capacity \div 2 \in Nat
    BY CapacityAssumption
  <2>3. deepest \in Nat /\ deepest + 1 <= band_lines
    BY <2>1 DEF IBand
  <2>4. (deepest + 1) * LineBytes <= band_lines * LineBytes
    <3> DEFINE w == LineBytes
               b == band_lines
    <3> HIDE DEF w, b
    <3>1. (deepest + 1) * w <= b * w
      BY <2>1, <2>3, SMT DEF w, b
    <3> QED
      BY <3>1 DEF w, b
  <2> QED
    BY <2>1, <2>2, <2>3, <2>4 DEF RowsInBand
<1> QED
  BY <1>1, <1>2, BandStep, PTL DEF ImageSpec

-----------------------------------------------------------------------------
(* The lines and the bytes of the JPEG *)

\* The encoder runs when the image is in the file, which does not change any more.
IStage ==
  /\ jpc # "idle" => stage \in {"jpg", "done"}
  /\ stage \in {"unfreeze", "status", "jpg", "done"} => pc = "done"

LEMMA StageStep ==
  ASSUME IStage, [ImageNext]_imageVars
  PROVE  IStage'
<1> USE DEF IStage
<1>1. CASE BusTransfer
  BY <1>1 DEF BusTransfer, vars
<1>2. CASE Adjusting
  BY <1>2 DEF Adjusting, vars
<1>3. CASE FreezeSensor \/ StartFrames \/ EndFrames
  BY <1>3 DEF FreezeSensor, StartFrames, EndFrames, Call, vars
<1>4. CASE WaitForVsync
  BY <1>4 DEF WaitForVsync, vars
<1>5. CASE FrameStep
  BY <1>5 DEF FrameStep
<1>6. CASE Deinit
  BY <1>6 DEF Deinit, vars
<1>7. CASE WriteStatus
  BY <1>7 DEF WriteStatus, vars
<1>8. CASE EncodeStep
  BY <1>8 DEF EncodeStep, vars
<1>9. CASE UNCHANGED imageVars
  BY <1>9 DEF imageVars, vars
<1> QED
  BY <1>1, <1>2, <1>3, <1>4, <1>5, <1>6, <1>7, <1>8, <1>9 DEF ImageNext

\* What a step is to the encoder: nothing, or one of its own on a file that stays.
Encodes == JpegNext /\ UNCHANGED vars /\ pc = "done"
LeavesEncoder == UNCHANGED jpegVars /\ (jpc = "idle" \/ UNCHANGED vars)

LEMMA EncoderSteps ==
  ASSUME IStage, [ImageNext]_imageVars
  PROVE  Encodes \/ LeavesEncoder
<1>1. CASE BusTransfer
  BY <1>1 DEF BusTransfer, LeavesEncoder
<1>2. CASE Adjusting
  BY <1>2 DEF Adjusting, LeavesEncoder
<1>3. CASE FreezeSensor \/ StartFrames \/ EndFrames
  BY <1>3 DEF FreezeSensor, StartFrames, EndFrames, Call, LeavesEncoder
<1>4. CASE WaitForVsync
  BY <1>4 DEF WaitForVsync, LeavesEncoder
<1>5. CASE FrameStep
  <2>1. UNCHANGED jpegVars /\ stage = "frames"
    BY <1>5 DEF FrameStep
  <2>2. jpc = "idle"
    BY <2>1 DEF IStage
  <2> QED
    BY <2>1, <2>2 DEF LeavesEncoder
<1>6. CASE Deinit \/ WriteStatus
  BY <1>6 DEF Deinit, WriteStatus, LeavesEncoder
<1>7. CASE EncodeStep
  BY <1>7 DEF EncodeStep, IStage, Encodes
<1>8. CASE UNCHANGED imageVars
  BY <1>8 DEF imageVars, LeavesEncoder
<1> QED
  BY <1>1, <1>2, <1>3, <1>4, <1>5, <1>6, <1>7, <1>8 DEF ImageNext

\* A number that fits 16 bits.
Is16(n) == n \in Nat /\ n < 65536

\* Half the buffer holds a row of blocks, and the image is whole rows.
LEMMA BlockSizes ==
  ASSUME resolution \in Resolutions
  PROVE  /\ Is16(band_lines) /\ band_lines >= 8
         /\ logical_lines \in Nat /\ logical_lines % 8 = 0
         /\ read_lines \in 8 .. band_lines /\ read_lines % 8 = 0
<1> DEFINE b == (Capacity \div 2) \div (2 * resolution.width)
           n == PhysicalLines \div resolution.line_skip
<1>1. b >= 8 /\ b < 65536 /\ n % 8 = 0
  BY BlockAssumption
<1>2. b \in Nat /\ n \in Nat
  <2>1. resolution.line_skip \in Nat \ {0} /\ 2 * resolution.width \in Nat \ {0}
    BY ResolutionAssumption, LinesAssumption
  <2>2. Capacity \div 2 \in Nat
    BY CapacityAssumption
  <2> QED
    BY <2>1, <2>2, LinesAssumption, SMT
<1> HIDE DEF b, n
<1>3. 8 * (b \div 8) \in 8 .. b /\ (8 * (b \div 8)) % 8 = 0
  BY <1>1, <1>2, SMT
<1>4. band_lines = b /\ logical_lines = n
  BY DEF b, n, band_lines, LineBytes, logical_lines
<1> QED
  BY <1>1, <1>2, <1>3, <1>4 DEF Is16, read_lines, Block

\* Where the encoder is in the image, also after a read that failed.
IRows ==
  /\ jpc \in {"idle", "setup", "band", "row", "units", "done"}
  /\ y \in Nat /\ y % 8 = 0 /\ y <= logical_lines
  /\ yindex \in Nat /\ yindex % 8 = 0 /\ yindex <= y
  /\ Is16(buffered_lines)
  /\ lines_read \in Nat
  /\ jpc # "idle" => lines_read <= logical_lines
  /\ jpc \in {"idle", "setup"} => /\ y = 0 /\ yindex = 0 /\ buffered_lines = 0
                                  /\ lines_read = 0 /\ rows = <<>>
  /\ jpc = "row" => y < logical_lines
  /\ jpc = "done" => y = logical_lines

\* While no read has failed: the lines of the row being encoded and of those after it in the
\* band, what the band holds, and what went into the rows before.
LinesOfRow == IF jpc = "row" THEN 8 ELSE 0
IExact ==
  /\ lines_read % 8 = 0 /\ buffered_lines % 8 = 0
  /\ lines_read = y + buffered_lines + LinesOfRow
  /\ buffered_lines + LinesOfRow + yindex <= band_lines
  /\ jpc # "idle" => /\ DOMAIN band = 1 .. band_lines
                     /\ \A i \in 1 .. buffered_lines + LinesOfRow + yindex :
                          band[i] = file[y - yindex + i]
  /\ rows \in Seq(Int) /\ Len(rows) = y
  /\ \A i \in 1 .. y : rows[i] = file[i]

IJpeg == IRows /\ (~read_failed => IExact)

\* An image in the file.
ImageInFile == /\ pc = "done" /\ resolution \in Resolutions
               /\ file \in Seq(1 .. PhysicalLines) /\ Len(file) = logical_lines

LEMMA FillRows ==
  ASSUME IJpeg, ImageInFile, JpegFill \/ JpegFillFails, UNCHANGED vars
  PROVE  IJpeg'
<1> USE DEF Is16
<1>1. /\ jpc = "band" /\ jpc' = "row" /\ y' = y /\ y < logical_lines /\ rows' = rows
      /\ buffered_lines = 0 /\ yindex' = 0 /\ logical_lines' = logical_lines
      /\ band_lines' = band_lines /\ file' = file
  BY DEF JpegFill, JpegFillFails, ToRow, BandFrame, vars, logical_lines, band_lines, LineBytes
<1>2. /\ Is16(band_lines) /\ band_lines >= 8 /\ logical_lines \in Nat /\ logical_lines % 8 = 0
      /\ read_lines \in 8 .. band_lines /\ read_lines % 8 = 0 /\ Len(file) = logical_lines
  BY BlockSizes DEF ImageInFile
<1>3. /\ y \in Nat /\ y % 8 = 0 /\ lines_read \in Nat /\ lines_read <= logical_lines
  BY <1>1 DEF IJpeg, IRows
<1>4. /\ jpc' \in {"idle", "setup", "band", "row", "units", "done"}
      /\ jpc' \notin {"idle", "setup", "done"} /\ jpc' # "idle"
      /\ y' \in Nat /\ y' % 8 = 0 /\ y' <= logical_lines' /\ y' < logical_lines'
      /\ yindex' \in Nat /\ yindex' % 8 = 0 /\ yindex' <= y'
  <2>1. 0 % 8 = 0
    BY SMT
  <2> QED
    BY <1>1, <1>2, <1>3, <2>1
<1>5. CASE JpegFill
  <2> DEFINE left == logical_lines - lines_read
             n == IF left < read_lines THEN left ELSE read_lines
  <2>1. /\ band' = [i \in DOMAIN band |-> IF i <= n THEN file[lines_read + i] ELSE band[i]]
        /\ lines_read' = lines_read + n /\ buffered_lines' = (n - 8) % 65536
        /\ read_failed' = read_failed
    BY <1>2, <1>5 DEF JpegFill, LessBlock, Block
  <2>2. PICK m \in Nat : m < 65536 /\ m = n /\ m <= left /\ m <= band_lines
    <3>1. left \in Nat /\ read_lines \in Nat /\ band_lines \in Nat /\ read_lines <= band_lines
      BY <1>2, <1>3
    <3>2. n \in Nat /\ n <= left /\ n <= band_lines
      BY <3>1
    <3> QED
      BY <1>2, <3>1, <3>2
  <2>3. lines_read' \in Nat /\ lines_read' <= logical_lines
    BY <1>2, <1>3, <2>1, <2>2
  <2>4. Is16(buffered_lines')
    BY <2>1, <2>2, SMT DEF Is16
  <2>5. IRows'
    BY <1>1, <1>3, <1>4, <2>3, <2>4 DEF IRows
  <2>6. ASSUME ~read_failed PROVE IExact'
    <3>1. lines_read = y /\ rows \in Seq(Int) /\ Len(rows) = y /\ DOMAIN band = 1 .. band_lines
      BY <1>1, <1>3, <2>6 DEF IJpeg, IExact, LinesOfRow
    <3>2. m % 8 = 0 /\ m >= 8
      <4>1. left % 8 = 0 /\ left >= 8
        <5>1. PICK l \in Nat, v \in Nat : l = logical_lines /\ v = y /\ l % 8 = 0 /\ v % 8 = 0 /\ v < l
          BY <1>1, <1>2, <1>3
        <5>2. (l - v) % 8 = 0 /\ l - v >= 8
          BY <5>1, SMT
        <5> QED
          BY <3>1, <5>1, <5>2
      <4> QED
        BY <1>2, <2>2, <4>1
    <3>3. buffered_lines' = m - 8 /\ lines_read' = y + m
      <4>1. (m - 8) % 65536 = m - 8
        BY <2>2, <3>2, SMT
      <4> QED
        BY <2>1, <2>2, <3>1, <4>1
    <3>4. lines_read' % 8 = 0 /\ buffered_lines' % 8 = 0
      BY <1>3, <3>2, <3>3, SMT
    <3>5. LinesOfRow' = 8
      BY <1>1 DEF LinesOfRow
    <3>6. buffered_lines' + LinesOfRow' + yindex' = m
      BY <1>1, <3>3, <3>5
    <3>7. \A i \in 1 .. m : band'[i] = file[y + i]
      BY <1>2, <2>1, <2>2, <3>1
    <3>8. \A i \in 1 .. m : band'[i] = file'[y' - yindex' + i]
      BY <1>1, <1>3, <3>7
    <3>9. \A i \in 1 .. y' : rows'[i] = file'[i]
      BY <1>1, <2>6 DEF IJpeg, IExact
    <3>10. DOMAIN band' = 1 .. band_lines'
      BY <1>1, <2>1, <3>1
    <3>11. rows' \in Seq(Int) /\ Len(rows') = y' /\ lines_read' = y' + buffered_lines' + LinesOfRow'
      BY <1>1, <1>3, <3>1, <3>3, <3>5
    <3>12. buffered_lines' + LinesOfRow' + yindex' <= band_lines'
      BY <1>1, <2>2, <3>6
    <3> QED
      BY <3>4, <3>6, <3>8, <3>9, <3>10, <3>11, <3>12 DEF IExact
  <2> QED
    BY <2>1, <2>5, <2>6 DEF IJpeg
<1>6. CASE JpegFillFails
  <2>1. read_failed' = TRUE /\ lines_read' = lines_read /\ buffered_lines' = (0 - 8) % 65536
    BY <1>6 DEF JpegFillFails, LessBlock, Block
  <2>2. Is16(buffered_lines')
    <3>1. \A k \in Int : k % 65536 \in Nat /\ k % 65536 < 65536
      BY SMT
    <3>2. PICK k \in Int : k = 0 - 8
      OBVIOUS
    <3>3. buffered_lines' = k % 65536
      BY <2>1, <3>2
    <3> QED
      BY <3>1, <3>3
  <2>3. IRows'
    BY <1>1, <1>3, <1>4, <2>1, <2>2 DEF IRows
  <2> QED
    BY <2>1, <2>3 DEF IJpeg
<1> QED
  BY <1>5, <1>6

LEMMA KeepRows ==
  ASSUME IJpeg, ImageInFile, JpegKeep, UNCHANGED vars
  PROVE  IJpeg'
<1> USE DEF Is16
<1>1. /\ jpc = "band" /\ jpc' = "row" /\ y' = y /\ y < logical_lines /\ rows' = rows
      /\ buffered_lines # 0 /\ yindex' = yindex /\ band' = band /\ lines_read' = lines_read
      /\ read_failed' = read_failed /\ buffered_lines' = (buffered_lines - 8) % 65536
      /\ logical_lines' = logical_lines /\ band_lines' = band_lines /\ file' = file
  BY DEF JpegKeep, ToRow, BandFrame, LessBlock, Block, vars, logical_lines, band_lines, LineBytes
<1>2. Is16(buffered_lines) /\ y \in Nat /\ yindex \in Nat /\ lines_read \in Nat
  BY DEF IJpeg, IRows
<1>3. Is16(buffered_lines')
  BY <1>1, <1>2, SMT DEF Is16
<1>4. IRows'
  BY <1>1, <1>3 DEF IJpeg, IRows
<1>5. ASSUME ~read_failed PROVE IExact'
  <2>1. IExact /\ LinesOfRow = 0 /\ LinesOfRow' = 8
    BY <1>1, <1>5 DEF IJpeg, LinesOfRow
  <2>2. PICK b \in Nat : b = buffered_lines /\ b % 8 = 0 /\ b >= 8 /\ b < 65536
    <3>1. buffered_lines \in Nat /\ buffered_lines < 65536 /\ buffered_lines # 0
      BY <1>1, <1>2
    <3>2. buffered_lines % 8 = 0
      BY <2>1 DEF IExact
    <3>3. \A k \in Nat : k # 0 /\ k % 8 = 0 => k >= 8
      BY SMT
    <3> QED
      BY <3>1, <3>2, <3>3
  <2>3. (b - 8) % 65536 = b - 8 /\ (b - 8) % 8 = 0
    BY <2>2, SMT
  <2>4. buffered_lines' = b - 8 /\ buffered_lines' % 8 = 0
    BY <1>1, <2>2, <2>3
  <2>5. buffered_lines' + LinesOfRow' + yindex' = buffered_lines + LinesOfRow + yindex
    BY <1>1, <1>2, <2>1, <2>2, <2>4
  <2>6. y' + buffered_lines' + LinesOfRow' = y + buffered_lines + LinesOfRow
    BY <1>1, <1>2, <2>1, <2>2, <2>4
  <2> QED
    BY <1>1, <2>1, <2>4, <2>5, <2>6 DEF IExact
<1> QED
  BY <1>1, <1>4, <1>5 DEF IJpeg

LEMMA Appended ==
  ASSUME NEW r \in Seq(Int), NEW l \in Seq(Int)
  PROVE  /\ r \o l \in Seq(Int) /\ Len(r \o l) = Len(r) + Len(l)
         /\ \A i \in 1 .. Len(r) : (r \o l)[i] = r[i]
         /\ \A i \in 1 .. Len(l) : (r \o l)[Len(r) + i] = l[i]
BY SMT

LEMMA EncodeRow ==
  ASSUME IJpeg, ImageInFile, JpegRow, UNCHANGED vars
  PROVE  IJpeg'
<1> USE DEF Is16
<1> DEFINE source == [i \in 1 .. Block |-> SourceRow(yindex + i - 1)]
           lines == [i \in 1 .. Block |-> LineOfRow(source[i])]
<1>1. /\ jpc = "row" /\ jpc' \in {"units", "band"} /\ y' = y + 8 /\ yindex' = yindex + 8
      /\ rows' = rows \o lines /\ band' = band /\ lines_read' = lines_read
      /\ read_failed' = read_failed /\ buffered_lines' = buffered_lines
      /\ logical_lines' = logical_lines /\ band_lines' = band_lines /\ file' = file
  BY DEF JpegRow, Block, vars, logical_lines, band_lines, LineBytes
<1>2. /\ Is16(buffered_lines) /\ lines_read \in Nat
      /\ y \in Nat /\ y % 8 = 0 /\ y < logical_lines
      /\ yindex \in Nat /\ yindex % 8 = 0 /\ yindex <= y
  BY <1>1 DEF IJpeg, IRows
<1>3. logical_lines \in Nat /\ logical_lines % 8 = 0 /\ Is16(band_lines) /\ band_lines >= 8
      /\ Len(file) = logical_lines /\ file \in Seq(1 .. PhysicalLines)
  BY BlockSizes DEF ImageInFile
<1>4. y + 8 <= logical_lines /\ (y + 8) % 8 = 0 /\ (yindex + 8) % 8 = 0
  BY <1>2, <1>3, SMT
<1>5. IRows'
  BY <1>1, <1>2, <1>4 DEF IJpeg, IRows
<1>6. ASSUME ~read_failed PROVE IExact'
  <2>1. IExact /\ LinesOfRow = 8 /\ LinesOfRow' = 0
    BY <1>1, <1>6 DEF IJpeg, LinesOfRow
  <2>2. buffered_lines + 8 + yindex <= band_lines /\ lines_read = y + buffered_lines + 8
    BY <2>1 DEF IExact
  <2>3. ASSUME NEW i \in 1 .. 8 PROVE lines[i] = file[y + i] /\ lines[i] \in Int
    <3>1. yindex + i - 1 < band_lines /\ yindex + i \in 1 .. buffered_lines + 8 + yindex
      BY <1>2, <1>3, <2>2
    <3>2. source[i] = yindex + i - 1
      BY <1>2, <1>3, <3>1 DEF SourceRow, Block
    <3>3. lines[i] = band[yindex + i]
      <4>1. lines[i] = LineOfRow(yindex + i - 1)
        BY <3>2 DEF Block
      <4>2. (yindex + i - 1) + 1 = yindex + i
        BY <1>2
      <4> QED
        BY <3>1, <4>1, <4>2 DEF LineOfRow
    <3>4. band[yindex + i] = file[y - yindex + (yindex + i)]
      BY <1>1, <2>1, <3>1 DEF IExact
    <3>5. y - yindex + (yindex + i) = y + i /\ y + i \in 1 .. logical_lines
      BY <1>2, <1>3, <1>4
    <3>6. file[y + i] \in Int
      BY <1>3, <3>5, LinesAssumption
    <3> QED
      BY <3>3, <3>4, <3>5, <3>6
  <2>4. lines \in Seq(Int) /\ Len(lines) = 8
    BY <2>3 DEF Block
  <2>5. rows \in Seq(Int) /\ Len(rows) = y /\ \A i \in 1 .. y : rows[i] = file[i]
    BY <2>1 DEF IExact
  <2> HIDE DEF lines
  <2>6. /\ rows \o lines \in Seq(Int) /\ Len(rows \o lines) = Len(rows) + Len(lines)
        /\ \A i \in 1 .. Len(rows) : (rows \o lines)[i] = rows[i]
        /\ \A i \in 1 .. Len(lines) : (rows \o lines)[Len(rows) + i] = lines[i]
    BY <2>4, <2>5, Appended
  <2>7. rows' \in Seq(Int) /\ Len(rows') = y'
    BY <1>1, <2>4, <2>5, <2>6
  <2>8. ASSUME NEW i \in 1 .. y + 8 PROVE rows'[i] = file[i]
    <3>1. CASE i <= y
      <4>1. i \in 1 .. Len(rows)
        BY <1>2, <2>5, <3>1
      <4> QED
        BY <1>1, <2>5, <2>6, <4>1
    <3>2. CASE i > y
      <4>1. rows'[i] = lines[i - y] /\ i - y \in 1 .. 8
        <5>1. PICK k \in 1 .. 8 : i = y + k /\ k = i - y
          BY <1>2, <3>2
        <5>2. (rows \o lines)[y + k] = lines[k]
          BY <2>4, <2>5, <2>6, <5>1
        <5> QED
          BY <1>1, <5>1, <5>2
      <4>2. y + (i - y) = i
        BY <1>2
      <4> QED
        BY <2>3, <4>1, <4>2
    <3> QED
      BY <1>2, <3>1, <3>2
  <2>9. buffered_lines' + LinesOfRow' + yindex' = buffered_lines + 8 + yindex
    BY <1>1, <1>2, <2>1
  <2>10. y' + buffered_lines' + LinesOfRow' = y + buffered_lines + 8
    BY <1>1, <1>2, <2>1
  <2>11. y' - yindex' = y - yindex
    BY <1>1, <1>2
  <2>12. \A i \in 1 .. buffered_lines + 8 + yindex : band[i] = file[y - yindex + i]
    BY <1>1, <2>1 DEF IExact
  <2>13. lines_read % 8 = 0 /\ buffered_lines % 8 = 0 /\ DOMAIN band = 1 .. band_lines
    BY <1>1, <2>1 DEF IExact
  <2>14. \A i \in 1 .. y' : rows'[i] = file'[i]
    BY <1>1, <2>8
  <2>15. \A i \in 1 .. buffered_lines' + LinesOfRow' + yindex' : band'[i] = file'[y' - yindex' + i]
    BY <1>1, <2>9, <2>11, <2>12
  <2> QED
    BY <1>1, <2>2, <2>7, <2>9, <2>10, <2>13, <2>14, <2>15 DEF IExact
<1> QED
  BY <1>1, <1>5, <1>6 DEF IJpeg

\* The bands and the rows are left alone, within the setup or the units of a row, or from
\* the last row to the end.
LEMMA RowsStay ==
  ASSUME IJpeg, ImageInFile, UNCHANGED vars,
         UNCHANGED <<y, yindex, buffered_lines, band, lines_read, read_failed, rows>>,
         \/ jpc \in {"setup", "units"} /\ jpc' \in {jpc, "band"}
         \/ jpc = "band" /\ jpc' = "done" /\ y >= logical_lines
  PROVE  IJpeg'
<1>1. logical_lines' = logical_lines /\ band_lines' = band_lines /\ file' = file
  BY DEF vars, logical_lines, band_lines, LineBytes
<1>2. LinesOfRow = 0 /\ LinesOfRow' = 0
  BY DEF LinesOfRow
<1>3. logical_lines \in Nat
  BY BlockSizes DEF ImageInFile
<1>4. IRows'
  BY <1>1, <1>3 DEF IJpeg, IRows
<1>5. ~read_failed => IExact'
  BY <1>1, <1>2 DEF IJpeg, IExact
<1> QED
  BY <1>4, <1>5 DEF IJpeg

LEMMA OpenRows ==
  ASSUME IJpeg, ImageInFile, JpegOpen, UNCHANGED vars
  PROVE  IJpeg'
<1>1. /\ jpc = "idle" /\ jpc' = "setup" /\ band' = [i \in 1 .. band_lines |-> 0]
      /\ UNCHANGED <<y, yindex, buffered_lines, lines_read, read_failed, rows>>
      /\ logical_lines' = logical_lines /\ band_lines' = band_lines /\ file' = file
  BY DEF JpegOpen, vars, logical_lines, band_lines, LineBytes
<1>2. LinesOfRow = 0 /\ LinesOfRow' = 0
  BY <1>1 DEF LinesOfRow
<1>3. y = 0 /\ yindex = 0 /\ buffered_lines = 0 /\ lines_read = 0 /\ logical_lines \in Nat
  BY <1>1, BlockSizes DEF IJpeg, IRows, ImageInFile
<1>4. IRows'
  BY <1>1, <1>3 DEF IJpeg, IRows
<1>5. ~read_failed => IExact'
  <2>1. \A i \in 1 .. buffered_lines' + LinesOfRow' + yindex' : FALSE
    BY <1>1, <1>2, <1>3
  <2>2. DOMAIN band' = 1 .. band_lines'
    BY <1>1
  <2> QED
    BY <1>1, <1>2, <2>1, <2>2 DEF IJpeg, IExact
<1> QED
  BY <1>1, <1>4, <1>5 DEF IJpeg

LEMMA JpegRowsStep ==
  ASSUME IJpeg, ImageInFile, JpegNext, UNCHANGED vars
  PROVE  IJpeg'
<1>1. CASE JpegOpen
  BY <1>1, OpenRows
<1>2. CASE JpegNew \/ JpegForget \/ JpegWrite \/ JpegStart
  BY <1>2, RowsStay DEF JpegNew, JpegForget, JpegWrite, JpegStart, Step
<1>3. CASE JpegFill \/ JpegFillFails
  BY <1>3, FillRows
<1>4. CASE JpegKeep
  BY <1>4, KeepRows
<1>5. CASE JpegRow
  BY <1>5, EncodeRow
<1>6. CASE JpegUnit \/ JpegUnitsDone
  BY <1>6, RowsStay DEF JpegUnit, JpegUnitsDone
<1>7. CASE JpegEnd
  BY <1>7, RowsStay DEF JpegEnd
<1> QED
  BY <1>1, <1>2, <1>3, <1>4, <1>5, <1>6, <1>7 DEF JpegNext

\* Before the encoder runs, the frames may still be read.
LEMMA RowsIdle ==
  ASSUME IJpeg, resolution \in Resolutions, [Next]_vars, UNCHANGED jpegVars, jpc = "idle"
  PROVE  IJpeg'
<1>1. UNCHANGED resolution
  BY DEF Next, ReadLine, SkipLine, WriteBuffer, vars
<1>2. logical_lines' = logical_lines /\ band_lines' = band_lines
  BY <1>1 DEF logical_lines, band_lines, LineBytes
<1>3. IRows'
  BY <1>2 DEF IJpeg, IRows
<1>4. LinesOfRow' = LinesOfRow
  BY DEF LinesOfRow
<1>5. y = 0
  BY DEF IJpeg, IRows
<1>6. ~read_failed => IExact'
  BY <1>2, <1>4, <1>5 DEF IJpeg, IExact
<1> QED
  BY <1>3, <1>6 DEF IJpeg

LEMMA RowsStep ==
  ASSUME IStage, IRead, IJpeg, [ImageNext]_imageVars
  PROVE  IJpeg'
<1>1. CASE Encodes
  <2>1. ImageInFile
    BY <1>1 DEF Encodes, ImageInFile, IRead, ReadTypeOK, IRemaining
  <2> QED
    BY <1>1, <2>1, JpegRowsStep DEF Encodes
<1>2. CASE UNCHANGED jpegVars /\ jpc = "idle"
  BY <1>2, ReadingSteps, RowsIdle DEF IRead, ReadTypeOK
<1>3. CASE UNCHANGED jpegVars /\ UNCHANGED vars
  <2>1. LinesOfRow' = LinesOfRow /\ logical_lines' = logical_lines /\ band_lines' = band_lines
    BY <1>3 DEF LinesOfRow, logical_lines, band_lines, LineBytes, vars
  <2>2. file' = file
    BY <1>3 DEF vars
  <2>3. IRows'
    BY <1>3, <2>1 DEF IJpeg, IRows
  <2>4. ~read_failed => IExact'
    BY <1>3, <2>1, <2>2 DEF IJpeg, IExact
  <2> QED
    BY <1>3, <2>3, <2>4 DEF IJpeg
<1> QED
  BY <1>1, <1>2, <1>3, EncoderSteps DEF LeavesEncoder

-----------------------------------------------------------------------------
(* The steps of the encoder's setup *)

Names == {"TJEState", "huffsize", "huffcode", "JPEGHeader", "Comment", "FrameHeader",
          "ScanHeader", "pqt", "du_y", "du_b", "du_r", "du", "dct_mcu"}
Objects == [name : Names, size : Nat, alignment : {1, 2, 4}, used : Nat]
Steps == [op : {"new"}, object : Objects] \union [op : {"forget"}, names : SUBSET Names]
         \union [op : {"write"}, bytes : Nat]

\* The largest object that the step in a place may ask for.
SizeAt(k) == IF k = 1 THEN 4272
             ELSE IF k = 2 THEN 1028
             ELSE IF k = 3 THEN 2048
             ELSE IF k <= 22 THEN 32
             ELSE 512

\* What the proofs need to know of it.  Only the header of the scan is used beyond its
\* size, and not once another object is asked for.
StepAt(s, k) ==
  /\ s.op = "new" => /\ s.object \in Objects /\ s.object.size <= SizeAt(k)
                     /\ k # 20 => /\ s.object.used <= s.object.size
                                  /\ s.object.name # "ScanHeader"
                     /\ k = 20 => s.object.used = 14 /\ s.object.name = "ScanHeader"
  /\ s.op = "write" => s.bytes \in Nat
  /\ k = 21 => s.op = "write"
  /\ k = 22 => s.op = "forget" /\ s.names = {"ScanHeader"}

\* The steps from one place to another.
Part(s, from, to) ==
  /\ from \in Nat /\ to \in Nat /\ s \in Seq(Steps) /\ Len(s) = to - from
  /\ \A i \in 1 .. Len(s) : StepAt(s[i], from + i)

LEMMA Joined ==
  ASSUME NEW T, NEW s \in Seq(T), NEW t \in Seq(T)
  PROVE  /\ s \o t \in Seq(T) /\ Len(s \o t) = Len(s) + Len(t)
         /\ \A i \in 1 .. Len(s) : (s \o t)[i] = s[i]
         /\ \A i \in 1 .. Len(t) : (s \o t)[Len(s) + i] = t[i]
BY SMT

LEMMA PartsJoin ==
  ASSUME NEW s, NEW t, NEW a, NEW b, NEW c, Part(s, a, b), Part(t, b, c)
  PROVE  Part(s \o t, a, c)
<1>1. /\ s \in Seq(Steps) /\ t \in Seq(Steps) /\ a \in Nat /\ b \in Nat /\ c \in Nat
      /\ Len(s) \in Nat /\ Len(t) \in Nat /\ Len(s) = b - a /\ Len(t) = c - b
  BY DEF Part
<1>2. s \o t \in Seq(Steps) /\ Len(s \o t) = Len(s) + Len(t)
  BY <1>1, Joined
<1>3. ASSUME NEW i \in 1 .. Len(s) + Len(t) PROVE StepAt((s \o t)[i], a + i)
  <2>1. CASE i <= Len(s)
    <3>1. (s \o t)[i] = s[i] /\ i \in 1 .. Len(s)
      BY <1>1, <2>1, Joined
    <3> QED
      BY <3>1 DEF Part
  <2>2. CASE i > Len(s)
    <3>1. PICK j \in 1 .. Len(t) : j = i - Len(s)
      BY <1>1, <2>2
    <3>2. (s \o t)[Len(s) + j] = t[j]
      BY <1>1, <3>1, Joined
    <3>3. Len(s) + j = i /\ b + j = a + i
      BY <1>1, <2>2, <3>1
    <3> QED
      BY <3>1, <3>2, <3>3 DEF Part
  <2> QED
    BY <1>1, <2>1, <2>2
<1> QED
  BY <1>1, <1>2, <1>3 DEF Part

LEMMA NewStep ==
  ASSUME NEW name \in Names, NEW size \in Nat, NEW alignment \in {1, 2, 4}, NEW used \in Nat
  PROVE  /\ New(name, size, alignment, used) \in Steps
         /\ New(name, size, alignment, used).op = "new"
         /\ New(name, size, alignment, used).object \in Objects
         /\ New(name, size, alignment, used).object.name = name
         /\ New(name, size, alignment, used).object.size = size
         /\ New(name, size, alignment, used).object.used = used
BY DEF New, Object, Steps, Objects

LEMMA ForgetStep ==
  ASSUME NEW names \in SUBSET Names
  PROVE  /\ Forget(names) \in Steps /\ Forget(names).op = "forget"
         /\ Forget(names).names = names
BY DEF Forget, Steps

LEMMA WriteStep ==
  ASSUME NEW bytes \in Nat
  PROVE  Write(bytes) \in Steps /\ Write(bytes).op = "write" /\ Write(bytes).bytes = bytes
BY DEF Write, Steps

\* An object that is used within its size, a number of bytes, and a forgetting, in place.
LEMMA NewAt ==
  ASSUME NEW name \in Names, name # "ScanHeader", NEW size \in Nat,
         NEW alignment \in {1, 2, 4}, NEW k \in Nat, k \notin {20, 21, 22}, size <= SizeAt(k)
  PROVE  StepAt(New(name, size, alignment, size), k)
<1> DEFINE a == New(name, size, alignment, size)
<1>1. /\ a.op = "new" /\ a.object \in Objects /\ a.object.size = size
      /\ a.object.used = size /\ a.object.name = name
  BY NewStep
<1> HIDE DEF a
<1>2. StepAt(a, k)
  BY <1>1 DEF StepAt
<1> QED
  BY <1>2 DEF a

LEMMA WriteAt ==
  ASSUME NEW bytes \in Nat, NEW k \in Nat, k # 22
  PROVE  StepAt(Write(bytes), k)
<1> DEFINE a == Write(bytes)
<1>1. a.op = "write" /\ a.bytes = bytes
  BY WriteStep
<1> HIDE DEF a
<1>2. StepAt(a, k)
  BY <1>1 DEF StepAt
<1> QED
  BY <1>2 DEF a

LEMMA ForgetAt ==
  ASSUME NEW names \in SUBSET Names, NEW k \in Nat, k # 21, k = 22 => names = {"ScanHeader"}
  PROVE  StepAt(Forget(names), k)
<1> DEFINE a == Forget(names)
<1>1. a.op = "forget" /\ a.names = names
  BY ForgetStep
<1> HIDE DEF a
<1>2. StepAt(a, k)
  BY <1>1 DEF StepAt
<1> QED
  BY <1>2 DEF a

\* Three steps.
LEMMA Triple ==
  ASSUME NEW a \in Steps, NEW b \in Steps, NEW c \in Steps, NEW k \in Nat, NEW m \in Nat,
         m = k + 3, StepAt(a, k + 1), StepAt(b, k + 2), StepAt(c, k + 3)
  PROVE  Part(<<a, b, c>>, k, m)
<1> DEFINE s == <<a, b, c>>
<1>1. s \in Seq(Steps) /\ Len(s) = 3 /\ s[1] = a /\ s[2] = b /\ s[3] = c
  OBVIOUS
<1> HIDE DEF s
<1>2. \A i \in 1 .. 3 : StepAt(s[i], k + i)
  BY <1>1
<1>3. Part(s, k, m)
  BY <1>1, <1>2 DEF Part
<1> QED
  BY <1>3 DEF s

LEMMA HeaderPart ==
  ASSUME NEW name \in Names, name # "ScanHeader", NEW size \in Nat, size <= 32,
         NEW k \in {4, 7, 12}, NEW m \in Nat, m = k + 3
  PROVE  Part(Header(name, size, size), k, m)
<1> DEFINE a == New(name, size, 1, size)
           b == Write(size)
           c == Forget({name})
<1>1. a \in Steps /\ b \in Steps /\ c \in Steps
  BY NewStep, WriteStep, ForgetStep
<1>2. size <= SizeAt(k + 1)
  BY DEF SizeAt
<1>3. StepAt(a, k + 1) /\ StepAt(b, k + 2) /\ StepAt(c, k + 3)
  <2>1. k + 1 \in Nat /\ k + 1 \notin {20, 21, 22} /\ k + 2 \in Nat /\ k + 2 # 22
        /\ k + 3 \in Nat /\ k + 3 \notin {21, 22}
    OBVIOUS
  <2> QED
    BY <1>2, <2>1, NewAt, WriteAt, ForgetAt
<1>4. Header(name, size, size) = <<a, b, c>>
  BY DEF Header
<1> HIDE DEF a, b, c
<1> QED
  BY <1>1, <1>3, <1>4, Triple

LEMMA TablesPart == Part(huff_expand, 1, 4)
<1>1. PICK p \in Nat, q \in Nat : p = 1028 /\ p = 4 * 257 /\ q = 2048 /\ q = 4 * 256 * 2
  OBVIOUS
<1>2. PICK k \in Nat, m \in Nat, f \in {1, 2, 4}, g \in {1, 2, 4} :
        k = 1 /\ m = 4 /\ f = 1 /\ g = 2
  OBVIOUS
<1> DEFINE x == "huffsize"
           z == "huffcode"
<1>3. x \in Names /\ z \in Names /\ x # "ScanHeader" /\ z # "ScanHeader"
  BY DEF Names
<1>9. huff_expand = <<New(x, 4 * 257, 1, 4 * 257), New(z, 4 * 256 * 2, 2, 4 * 256 * 2),
                      Forget({x, z})>>
  BY DEF huff_expand
<1> HIDE DEF x, z
<1> DEFINE a == New(x, p, f, p)
           b == New(z, q, g, q)
           c == Forget({x, z})
<1>4. a \in Steps /\ b \in Steps /\ c \in Steps
  <2>1. a \in Steps
    BY <1>3, NewStep
  <2>2. b \in Steps
    BY <1>3, NewStep
  <2>3. c \in Steps
    BY <1>3, ForgetStep
  <2> QED
    BY <2>1, <2>2, <2>3
<1>5. p <= SizeAt(k + 1) /\ q <= SizeAt(k + 2)
  BY <1>1, <1>2 DEF SizeAt
<1>6. StepAt(a, k + 1) /\ StepAt(b, k + 2) /\ StepAt(c, k + 3)
  <2>1. k + 1 \in Nat /\ k + 1 \notin {20, 21, 22} /\ k + 2 \in Nat /\ k + 2 \notin {20, 21, 22}
        /\ k + 3 \in Nat /\ k + 3 \notin {21, 22}
    BY <1>2
  <2> QED
    BY <1>5, <1>3, <2>1, NewAt, ForgetAt
<1>7. huff_expand = <<a, b, c>>
  BY <1>1, <1>2, <1>9
<1> HIDE DEF a, b, c
<1>8. Part(huff_expand, k, m)
  BY <1>2, <1>4, <1>6, <1>7, Triple
<1> QED
  BY <1>2, <1>8

LEMMA ScanPart == Part(ScanHeader, 19, 22)
<1>1. PICK k \in Nat, m \in Nat, n \in Nat, f \in {1, 2, 4} : k = 19 /\ m = 22 /\ n = 14 /\ f = 4
  OBVIOUS
<1> DEFINE x == "ScanHeader"
<1>2. x \in Names /\ {x} = {"ScanHeader"}
  BY DEF Names
<1>9. ScanHeader = <<New(x, 4, 4, 14), Write(14), Forget({x})>>
  BY DEF ScanHeader
<1> HIDE DEF x
<1> DEFINE a == New(x, f, f, n)
           b == Write(n)
           c == Forget({x})
<1>3. a \in Steps /\ b \in Steps /\ c \in Steps
  <2>1. f \in Nat
    BY <1>1
  <2> QED
    BY <1>1, <1>2, <2>1, NewStep, WriteStep, ForgetStep
<1>4. StepAt(a, 20)
  <2>1. /\ a.op = "new" /\ a.object \in Objects /\ a.object.size = f /\ a.object.used = n
        /\ a.object.name = "ScanHeader"
    <3>1. f \in Nat
      BY <1>1
    <3>2. x = "ScanHeader"
      BY DEF x
    <3> QED
      BY <1>1, <1>2, <3>1, <3>2, NewStep
  <2> HIDE DEF a
  <2> QED
    BY <1>1, <2>1 DEF StepAt, SizeAt
<1>5. StepAt(b, k + 2) /\ StepAt(c, k + 3)
  <2>1. k + 2 \in Nat /\ k + 2 # 22 /\ k + 3 \in Nat /\ k + 3 # 21
    BY <1>1
  <2> QED
    BY <1>2, <2>1, WriteAt, ForgetAt
<1>6. ScanHeader = <<a, b, c>>
  BY <1>1, <1>9
<1> HIDE DEF a, b, c
<1>7. StepAt(a, k + 1) /\ m = k + 3
  BY <1>1, <1>4
<1>8. Part(ScanHeader, k, m)
  BY <1>1, <1>3, <1>5, <1>6, <1>7, Triple
<1> QED
  BY <1>1, <1>8

\* One step, in a place where it may stand.
LEMMA Single ==
  ASSUME NEW a \in Steps, NEW k \in Nat, NEW m \in Nat, m = k + 1, StepAt(a, m)
  PROVE  Part(<<a>>, k, m)
<1> DEFINE s == <<a>>
<1>1. s \in Seq(Steps) /\ Len(s) = 1 /\ s[1] = a
  OBVIOUS
<1> HIDE DEF s
<1>2. \A i \in 1 .. 1 : StepAt(s[i], k + i)
  BY <1>1
<1>3. Part(s, k, m)
  BY <1>1, <1>2 DEF Part
<1> QED
  BY <1>3 DEF s

LEMMA WritePart ==
  ASSUME NEW bytes \in Nat, NEW k \in Nat, NEW m \in Nat, m = k + 1, m # 22
  PROVE  Part(<<Write(bytes)>>, k, m)
<1> DEFINE a == Write(bytes)
<1>1. a \in Steps /\ StepAt(a, m)
  BY WriteStep, WriteAt
<1> HIDE DEF a
<1>2. Part(<<a>>, k, m)
  BY <1>1, Single
<1> QED
  BY <1>2 DEF a

LEMMA NewPart ==
  ASSUME NEW name \in Names, name # "ScanHeader", NEW size \in Nat, NEW alignment \in {1, 2, 4},
         NEW k \in Nat, NEW m \in Nat, m = k + 1, m \notin {20, 21, 22}, size <= SizeAt(m)
  PROVE  Part(<<New(name, size, alignment, size)>>, k, m)
<1> DEFINE a == New(name, size, alignment, size)
<1>1. a \in Steps /\ StepAt(a, m)
  BY NewStep, NewAt
<1> HIDE DEF a
<1>2. Part(<<a>>, k, m)
  BY <1>1, Single
<1> QED
  BY <1>2 DEF a

\* Two tables, or four, are written one after the other.
LEMMA TwoWrites ==
  ASSUME NEW p \in Nat, NEW q \in Nat, NEW k \in Nat, NEW m \in Nat, m = k + 2, m < 22
  PROVE  Part(<<Write(p), Write(q)>>, k, m)
<1> DEFINE a == Write(p)
           b == Write(q)
           s == <<a, b>>
<1>1. a \in Steps /\ b \in Steps
  BY WriteStep
<1>2. StepAt(a, k + 1) /\ StepAt(b, k + 2)
  <2>1. k + 1 \in Nat /\ k + 2 \in Nat /\ k + 1 # 22 /\ k + 2 # 22
    OBVIOUS
  <2> QED
    BY <2>1, WriteAt
<1> HIDE DEF a, b
<1>3. s \in Seq(Steps) /\ Len(s) = 2 /\ s[1] = a /\ s[2] = b
  BY <1>1
<1> HIDE DEF s
<1>4. \A i \in 1 .. 2 : StepAt(s[i], k + i)
  BY <1>2, <1>3
<1>5. Part(s, k, m)
  BY <1>3, <1>4 DEF Part
<1> QED
  BY <1>5 DEF s, a, b

LEMMA QuantPart == Part(<<DQT, DQT>>, 10, 12)
<1>1. PICK p \in Nat, k \in Nat, m \in Nat : p = 2 + 2 + 1 + 64 /\ k = 10 /\ m = 12
  OBVIOUS
<1>2. DQT = Write(p)
  BY <1>1 DEF DQT
<1>3. Part(<<Write(p), Write(p)>>, k, m)
  BY <1>1, TwoWrites
<1> QED
  BY <1>1, <1>2, <1>3

LEMMA FourWrites ==
  ASSUME NEW p \in Nat, NEW q \in Nat, NEW r \in Nat, NEW s \in Nat,
         NEW k \in Nat, NEW m \in Nat, m = k + 4, m < 22
  PROVE  Part(<<Write(p), Write(q), Write(r), Write(s)>>, k, m)
<1> DEFINE a == Write(p)
           b == Write(q)
           c == Write(r)
           d == Write(s)
           w == <<a, b, c, d>>
<1>1. a \in Steps /\ b \in Steps /\ c \in Steps /\ d \in Steps
  BY WriteStep
<1>2. StepAt(a, k + 1) /\ StepAt(b, k + 2) /\ StepAt(c, k + 3) /\ StepAt(d, k + 4)
  <2>1. \A i \in 1 .. 4 : k + i \in Nat /\ k + i # 22
    OBVIOUS
  <2> QED
    BY <2>1, WriteAt
<1> HIDE DEF a, b, c, d
<1>3. w \in Seq(Steps) /\ Len(w) = 4 /\ w[1] = a /\ w[2] = b /\ w[3] = c /\ w[4] = d
  BY <1>1
<1> HIDE DEF w
<1>4. \A i \in 1 .. 4 : StepAt(w[i], k + i)
  BY <1>2, <1>3
<1>5. Part(w, k, m)
  BY <1>3, <1>4 DEF Part
<1> QED
  BY <1>5 DEF w, a, b, c, d

LEMMA ValuesNat ==
  /\ num_values(luma_dc_len) \in Nat /\ num_values(luma_ac_len) \in Nat
  /\ num_values(chroma_dc_len) \in Nat /\ num_values(chroma_ac_len) \in Nat
BY DEF num_values, luma_dc_len, luma_ac_len, chroma_dc_len, chroma_ac_len

LEMMA HuffmanPart ==
  Part(<<DHT(luma_dc_len), DHT(luma_ac_len), DHT(chroma_dc_len), DHT(chroma_ac_len)>>, 15, 19)
<1>1. PICK k \in Nat, m \in Nat : k = 15 /\ m = 19
  OBVIOUS
<1>2. PICK p \in Nat, q \in Nat, r \in Nat, s \in Nat :
        /\ p = 2 + 2 + 1 + 16 + num_values(luma_dc_len)
        /\ q = 2 + 2 + 1 + 16 + num_values(luma_ac_len)
        /\ r = 2 + 2 + 1 + 16 + num_values(chroma_dc_len)
        /\ s = 2 + 2 + 1 + 16 + num_values(chroma_ac_len)
  <2>1. \A v \in Nat : 2 + 2 + 1 + 16 + v \in Nat
    OBVIOUS
  <2> QED
    BY <2>1, ValuesNat
<1>3. /\ DHT(luma_dc_len) = Write(p) /\ DHT(luma_ac_len) = Write(q)
      /\ DHT(chroma_dc_len) = Write(r) /\ DHT(chroma_ac_len) = Write(s)
  BY <1>2 DEF DHT
<1>4. Part(<<Write(p), Write(q), Write(r), Write(s)>>, k, m)
  BY <1>1, FourWrites
<1> QED
  BY <1>1, <1>3, <1>4

\* A header of the file, in its place.
LEMMA HeadersPart ==
  /\ Part(Header("JPEGHeader", 20, 20), 4, 7) /\ Part(Header("Comment", 32, 32), 7, 10)
  /\ Part(Header("FrameHeader", 19, 19), 12, 15)
<1> DEFINE x == "JPEGHeader"
           z == "Comment"
           w == "FrameHeader"
<1>1. /\ x \in Names /\ z \in Names /\ w \in Names
      /\ x # "ScanHeader" /\ z # "ScanHeader" /\ w # "ScanHeader"
  BY DEF Names
<1> HIDE DEF x, z, w
<1>2. PICK p \in Nat, q \in Nat, r \in Nat : p = 20 /\ q = 32 /\ r = 19
  OBVIOUS
<1>3. PICK a \in {4, 7, 12}, b \in {4, 7, 12}, c \in {4, 7, 12} : a = 4 /\ b = 7 /\ c = 12
  OBVIOUS
<1>4. PICK d \in Nat, e \in Nat : d = 10 /\ e = 15
  OBVIOUS
<1>5. b \in Nat
  BY <1>3
<1>6. Part(Header(x, p, p), a, b)
  BY <1>1, <1>2, <1>3, <1>5, HeaderPart
<1>7. Part(Header(z, q, q), b, d)
  BY <1>1, <1>2, <1>3, <1>4, HeaderPart
<1>8. Part(Header(w, r, r), c, e)
  BY <1>1, <1>2, <1>3, <1>4, HeaderPart
<1> QED
  BY <1>2, <1>3, <1>4, <1>6, <1>7, <1>8 DEF x, z, w

LEMMA MetadataPart == Part(encode_metadata, 4, 22)
<1> DEFINE h1 == Header("JPEGHeader", 20, 20)
           h2 == Header("Comment", 32, 32)
           h3 == Header("FrameHeader", 19, 19)
           q == <<DQT, DQT>>
           d == <<DHT(luma_dc_len), DHT(luma_ac_len), DHT(chroma_dc_len), DHT(chroma_ac_len)>>
<1>1. encode_metadata = ((((h1 \o h2) \o q) \o h3) \o d) \o ScanHeader
  BY DEF encode_metadata
<1>2. PICK n4, n7, n10, n12, n15, n19, n22 :
        n4 = 4 /\ n7 = 7 /\ n10 = 10 /\ n12 = 12 /\ n15 = 15 /\ n19 = 19 /\ n22 = 22
  OBVIOUS
<1>3. /\ Part(h1, n4, n7) /\ Part(h2, n7, n10) /\ Part(q, n10, n12) /\ Part(h3, n12, n15)
      /\ Part(d, n15, n19) /\ Part(ScanHeader, n19, n22)
  BY <1>2, HeadersPart, QuantPart, HuffmanPart, ScanPart
<1> HIDE DEF h1, h2, h3, q, d
<1>4. Part(h1 \o h2, n4, n10)
  BY <1>3, PartsJoin
<1>5. Part((h1 \o h2) \o q, n4, n12)
  BY <1>3, <1>4, PartsJoin
<1>6. Part(((h1 \o h2) \o q) \o h3, n4, n15)
  BY <1>3, <1>5, PartsJoin
<1>7. Part((((h1 \o h2) \o q) \o h3) \o d, n4, n19)
  BY <1>3, <1>6, PartsJoin
<1>8. Part(((((h1 \o h2) \o q) \o h3) \o d) \o ScanHeader, n4, n22)
  BY <1>3, <1>7, PartsJoin
<1> QED
  BY <1>1, <1>2, <1>8

LEMMA ImagedataPart == Part(imagedata_memory, 22, 28)
<1> DEFINE name == <<"du_y", "du_b", "du_r", "du", "dct_mcu">>
           x == "pqt"
<1>1. PICK k \in Nat, l \in Nat, m \in Nat : k = 22 /\ l = 23 /\ m = 28
  OBVIOUS
<1>2. PICK p \in Nat, r \in Nat, f \in {1, 2, 4} : p = 2 * 64 * 4 /\ r = 256 /\ f = 4
  OBVIOUS
<1>3. x \in Names /\ x # "ScanHeader"
  BY DEF Names
<1>4. \A i \in 1 .. 5 : name[i] \in Names /\ name[i] # "ScanHeader"
  BY DEF Names
<1> DEFINE s == <<New("pqt", 2 * 64 * 4, 4, 2 * 64 * 4)>>
           t == [i \in 1 .. 5 |-> New(name[i], 256, 4, 256)]
<1>5. imagedata_memory = s \o t
  BY DEF imagedata_memory
<1>6. s = <<New(x, p, f, p)>>
  BY <1>2
<1>7. t = [i \in 1 .. 5 |-> New(name[i], r, f, r)]
  BY <1>2
<1> HIDE DEF name, x, s, t
<1>8. Part(s, k, l)
  <2>1. p <= SizeAt(l) /\ l \notin {20, 21, 22} /\ l = k + 1
    BY <1>1, <1>2 DEF SizeAt
  <2>2. Part(<<New(x, p, f, p)>>, k, l)
    BY <1>3, <2>1, NewPart
  <2> QED
    BY <1>6, <2>2
<1>9. \A i \in 1 .. 5 : New(name[i], r, f, r) \in Steps /\ StepAt(New(name[i], r, f, r), l + i)
  <2>1. \A i \in 1 .. 5 : l + i \in Nat /\ l + i \notin {20, 21, 22} /\ r <= SizeAt(l + i)
    BY <1>1, <1>2 DEF SizeAt
  <2> QED
    BY <1>4, <2>1, NewStep, NewAt
<1>10. t \in Seq(Steps) /\ Len(t) = 5 /\ \A i \in 1 .. 5 : StepAt(t[i], l + i)
  BY <1>7, <1>9
<1>11. Part(t, l, m)
  BY <1>1, <1>10 DEF Part
<1>12. Part(s \o t, k, m)
  BY <1>8, <1>11, PartsJoin
<1> QED
  BY <1>1, <1>5, <1>12

\* All the steps of the setup, each in its place.
LEMMA EncodePart == Part(tje_encode, 0, 28)
<1> DEFINE x == "TJEState"
<1>1. x \in Names /\ x # "ScanHeader"
  BY DEF Names
<1>2. PICK a \in Nat, b \in Nat, c \in Nat, d \in Nat, e \in Nat :
        a = 0 /\ b = 1 /\ c = 4 /\ d = 22 /\ e = 28
  OBVIOUS
<1>3. PICK p \in Nat, f \in {1, 2, 4} : p = 4272 /\ f = 4
  OBVIOUS
<1>4. p <= SizeAt(b)
  BY <1>2, <1>3 DEF SizeAt
<1> DEFINE s == <<New(x, 4272, 4, 4272)>>
<1>5. tje_encode = ((s \o huff_expand) \o encode_metadata) \o imagedata_memory
  BY DEF tje_encode
<1> HIDE DEF x
<1>6. s = <<New(x, p, f, p)>>
  BY <1>3
<1> HIDE DEF s
<1>7. Part(<<New(x, p, f, p)>>, a, b)
  <2>1. b = a + 1 /\ b \notin {20, 21, 22}
    BY <1>2
  <2> QED
    BY <1>1, <1>4, <2>1, NewPart
<1>8. Part(s, a, b) /\ Part(huff_expand, b, c) /\ Part(encode_metadata, c, d)
      /\ Part(imagedata_memory, d, e)
  BY <1>2, <1>6, <1>7, TablesPart, MetadataPart, ImagedataPart
<1>9. Part(s \o huff_expand, a, c)
  BY <1>8, PartsJoin
<1>10. Part((s \o huff_expand) \o encode_metadata, a, d)
  BY <1>8, <1>9, PartsJoin
<1>11. Part(((s \o huff_expand) \o encode_metadata) \o imagedata_memory, a, e)
  BY <1>8, <1>10, PartsJoin
<1> QED
  BY <1>2, <1>5, <1>11

\* What is left of the setup is its last steps, each of which is taken in its place.
ISteps ==
  /\ steps \in Seq(Steps) /\ Len(steps) <= 28
  /\ \A i \in 1 .. Len(steps) : StepAt(steps[i], 28 - Len(steps) + i)

\* A step that is taken is the first that is left.
LEMMA StepTaken ==
  ASSUME ISteps, NEW op, Step(op)
  PROVE  /\ Len(steps) \in Nat /\ 1 <= Len(steps) /\ Len(steps) <= 28 /\ Head(steps) \in Steps /\ Head(steps).op = op
         /\ StepAt(Head(steps), 29 - Len(steps))
         /\ ISteps' /\ Len(steps') = Len(steps) - 1
<1>1. steps \in Seq(Steps) /\ steps # <<>> /\ steps' = Tail(steps) /\ Head(steps).op = op
  BY DEF ISteps, Step
<1>2. PICK n \in Nat : n = Len(steps) /\ n <= 28 /\ n >= 1
  BY <1>1 DEF ISteps
<1>3. Head(steps) = steps[1] /\ Head(steps) \in Steps
  BY <1>1
<1>4. StepAt(steps[1], 28 - n + 1)
  BY <1>2 DEF ISteps
<1>5. StepAt(Head(steps), 29 - n)
  <2>1. 28 - n + 1 = 29 - n
    BY <1>2
  <2> QED
    BY <1>3, <1>4, <2>1
<1>6. /\ steps' \in Seq(Steps) /\ Len(steps') = n - 1
      /\ \A i \in 1 .. n - 1 : steps'[i] = steps[i + 1]
  BY <1>1, <1>2
<1>7. ASSUME NEW i \in 1 .. Len(steps') PROVE StepAt(steps'[i], 28 - Len(steps') + i)
  <2>1. i \in 1 .. n - 1 /\ i + 1 \in 1 .. n /\ 28 - Len(steps') + i = 28 - n + (i + 1)
    BY <1>2, <1>6
  <2>2. StepAt(steps[i + 1], 28 - n + (i + 1))
    BY <1>2, <2>1 DEF ISteps
  <2> QED
    BY <1>6, <2>1, <2>2
<1>8. ISteps'
  BY <1>2, <1>6, <1>7 DEF ISteps
<1>9. Len(steps) \in Nat /\ 1 <= Len(steps) /\ Len(steps) <= 28 /\ Len(steps') = Len(steps) - 1
  <2>2. Len(steps') = n - 1
    BY <1>6
  <2> QED
    BY <1>2, <2>2
<1>10. StepAt(Head(steps), 29 - Len(steps))
  BY <1>2, <1>5
<1> QED
  BY <1>1, <1>3, <1>8, <1>9, <1>10

\* What the encoder emitted is in the file, or in the buffer still, which is never full.
IOutput ==
  /\ row_bytes \in Nat
  /\ emitted \in Nat /\ written \in Nat
  /\ output_buffer_count \in Nat /\ output_buffer_count < 1023
  /\ emitted = written + output_buffer_count
  /\ jpc = "done" => output_buffer_count = 0

LEMMA Flushes ==
  ASSUME NEW t \in Nat
  PROVE  /\ (t \div 1023) * 1023 \in Nat /\ t % 1023 \in Nat /\ t % 1023 < 1023
         /\ (t \div 1023) * 1023 + (t % 1023) = t
BY SMT

LEMMA OutputWrites ==
  ASSUME IOutput, NEW n \in Nat, tjei_write(n), row_bytes' = row_bytes, jpc' # "done"
  PROVE  IOutput'
<1>1. emitted \in Nat /\ written \in Nat /\ output_buffer_count \in Nat
      /\ emitted = written + output_buffer_count /\ row_bytes \in Nat
  BY DEF IOutput
<1>2. PICK t \in Nat : t = output_buffer_count + n
  BY <1>1
<1>3. PICK f \in Nat, c \in Nat : /\ f = (t \div 1023) * 1023 /\ c = t % 1023 /\ c < 1023
                                  /\ f + c = t
  BY Flushes
<1>4. emitted' = emitted + n /\ written' = written + f /\ output_buffer_count' = c
  BY <1>2, <1>3 DEF tjei_write, TJEI_BUFFER_SIZE
<1> QED
  BY <1>1, <1>2, <1>3, <1>4 DEF IOutput

LEMMA OutputEnds ==
  ASSUME IOutput, JpegEnd
  PROVE  IOutput'
<1>1. emitted \in Nat /\ written \in Nat /\ output_buffer_count \in Nat
      /\ emitted = written + output_buffer_count /\ row_bytes \in Nat
  BY DEF IOutput
<1>2. PICK last \in {0, 1} :
        /\ emitted' = emitted + last + 2
        /\ written' = written + ((output_buffer_count + last + 2) \div 1023) * 1023
                              + ((output_buffer_count + last + 2) % 1023)
  BY DEF JpegEnd, TJEI_BUFFER_SIZE, Flushed
<1>3. output_buffer_count' = 0 /\ row_bytes' = row_bytes
  BY DEF JpegEnd
<1>4. PICK t \in Nat : t = output_buffer_count + last + 2
  BY <1>1
<1>5. PICK f \in Nat, c \in Nat : f = (t \div 1023) * 1023 /\ c = t % 1023 /\ f + c = t
  BY Flushes
<1>6. written' = written + f + c
  BY <1>2, <1>4, <1>5
<1>7. emitted' = emitted + last + 2
  BY <1>2
<1>8. PICK e \in Nat : e = emitted' /\ e = written'
  BY <1>1, <1>4, <1>5, <1>6, <1>7
<1>9. emitted' \in Nat /\ written' \in Nat /\ emitted' = written' + output_buffer_count'
  <2>1. e = e + 0
    BY SMT
  <2> QED
    BY <1>3, <1>8, <2>1
<1>10. output_buffer_count' \in Nat /\ output_buffer_count' < 1023
  BY <1>3
<1> QED
  BY <1>1, <1>3, <1>9, <1>10 DEF IOutput

LEMMA JpegOutputStep ==
  ASSUME ISteps, IOutput, JpegNext
  PROVE  ISteps' /\ IOutput'
<1>1. CASE JpegOpen
  <2>1. ISteps'
    <3>1. steps' = tje_encode
      BY <1>1 DEF JpegOpen
    <3>2. tje_encode \in Seq(Steps) /\ Len(tje_encode) = 28
          /\ \A i \in 1 .. 28 : StepAt(tje_encode[i], 0 + i)
      BY EncodePart DEF Part
    <3>3. \A i \in 1 .. 28 : 0 + i = 28 - 28 + i
      OBVIOUS
    <3> QED
      BY <3>1, <3>2, <3>3 DEF ISteps
  <2>2. IOutput'
    BY <1>1, RowBytesAssumption DEF JpegOpen, IOutput
  <2> QED
    BY <2>1, <2>2
<1>2. CASE JpegNew \/ JpegForget
  <2>1. ISteps'
    BY <1>2, StepTaken DEF JpegNew, JpegForget
  <2>2. IOutput'
    BY <1>2 DEF JpegNew, JpegForget, IOutput
  <2> QED
    BY <2>1, <2>2
<1>3. CASE JpegWrite
  <2>1. /\ Step("write") /\ tjei_write(Head(steps).bytes)
        /\ row_bytes' = row_bytes /\ jpc' = jpc /\ jpc = "setup"
    BY <1>3 DEF JpegWrite, Step
  <2>2. ISteps' /\ Head(steps).op = "write" /\ StepAt(Head(steps), 29 - Len(steps))
    BY <2>1, StepTaken
  <2>3. Head(steps).bytes \in Nat
    BY <2>2 DEF StepAt
  <2> QED
    BY <2>1, <2>2, <2>3, OutputWrites
<1>4. CASE JpegRow
  <2>1. steps' = steps /\ tjei_write(row_bytes) /\ row_bytes' = row_bytes /\ jpc' # "done"
    BY <1>4 DEF JpegRow
  <2>2. row_bytes \in Nat
    BY DEF IOutput
  <2> QED
    BY <2>1, <2>2, OutputWrites DEF ISteps
<1>5. CASE JpegEnd
  <2>1. steps' = steps
    BY <1>5 DEF JpegEnd
  <2> QED
    BY <1>5, <2>1, OutputEnds DEF ISteps
<1>6. CASE JpegStart \/ JpegFill \/ JpegFillFails \/ JpegKeep \/ JpegUnit \/ JpegUnitsDone
  <2>1. UNCHANGED <<steps, row_bytes, emitted, written, output_buffer_count>> /\ jpc' # "done"
    BY <1>6 DEF JpegStart, JpegFill, JpegFillFails, JpegKeep, ToRow, BandFrame, JpegUnit,
                JpegUnitsDone
  <2> QED
    BY <2>1 DEF ISteps, IOutput
<1> QED
  BY <1>1, <1>2, <1>3, <1>4, <1>5, <1>6 DEF JpegNext

LEMMA OutputStep ==
  ASSUME IStage, ISteps, IOutput, [ImageNext]_imageVars
  PROVE  ISteps' /\ IOutput'
<1>1. CASE Encodes
  BY <1>1, JpegOutputStep DEF Encodes
<1>2. CASE LeavesEncoder
  BY <1>2 DEF LeavesEncoder, ISteps, IOutput
<1> QED
  BY <1>1, <1>2, EncoderSteps

LEMMA JpegStarts ==
  ASSUME ImageInit
  PROVE  IStage /\ IJpeg /\ ISteps /\ IOutput
<1>1. /\ jpc = "idle" /\ steps = <<>> /\ y = 0 /\ yindex = 0 /\ buffered_lines = 0
      /\ lines_read = 0 /\ rows = <<>> /\ stage = "init" /\ resolution \in Resolutions
      /\ row_bytes = 0 /\ emitted = 0 /\ written = 0 /\ output_buffer_count = 0
  BY DEF ImageInit, JpegInit, Init
<1>2. logical_lines \in Nat /\ Is16(band_lines)
  BY <1>1, BlockSizes
<1>3. 0 % 8 = 0
  BY SMT
<1>4. IRows
  BY <1>1, <1>2, <1>3 DEF IRows, Is16
<1>5. LinesOfRow = 0
  BY <1>1 DEF LinesOfRow
<1>6. IExact
  BY <1>1, <1>2, <1>3, <1>5 DEF IExact, Is16
<1>7. IStage
  BY <1>1 DEF IStage
<1>8. ISteps
  BY <1>1 DEF ISteps
<1>9. IOutput
  BY <1>1 DEF IOutput
<1> QED
  BY <1>4, <1>6, <1>7, <1>8, <1>9 DEF IJpeg

\* Unless a read from the card fails, the JPEG is the image the camera sent, line for line
\* over all bands, and every byte of it is in the file: the rows of blocks are what the
\* bands were read to be, and the bytes emitted are in the file or in the buffer
\* (tjpg.h:523-545, 1149-1154).
THEOREM JpegIsTheImage == ImageSpec => []JpegFileExact
<1> DEFINE Inv == IStage /\ IJpeg /\ ISteps /\ IOutput
<1>1. ImageInit => Inv
  BY JpegStarts
<1>2. Inv /\ IRead /\ [ImageNext]_imageVars => Inv'
  BY StageStep, RowsStep, OutputStep
<1>3. Inv /\ IRead => JpegFileExact
  <2> SUFFICES ASSUME Inv, IRead, jpc = "done", ~read_failed
               PROVE  rows = file /\ written = emitted
    BY DEF JpegFileExact
  <2>1. pc = "done"
    BY DEF IStage
  <2>2. file \in Seq(1 .. PhysicalLines) /\ Len(file) = logical_lines
    BY <2>1 DEF IRead, ReadTypeOK, IRemaining
  <2>3. y = logical_lines
    BY DEF IJpeg, IRows
  <2>4. rows \in Seq(Int) /\ Len(rows) = Len(file)
    BY <2>2, <2>3 DEF IJpeg, IExact
  <2>5. \A i \in 1 .. Len(file) : rows[i] = file[i]
    BY <2>2, <2>3 DEF IJpeg, IExact
  <2>6. rows = file
    BY <2>2, <2>4, <2>5
  <2>7. written = emitted
    BY DEF IOutput
  <2> QED
    BY <2>6, <2>7
<1>4. ImageSpec => []IRead
  BY CaptureReadsFrames, IReadHolds
<1> HIDE DEF Inv
<1> QED
  BY <1>1, <1>2, <1>3, <1>4, PTL DEF ImageSpec

-----------------------------------------------------------------------------
(* The encoder's memory *)

\* What the steps that are left may take of the pool, with the gaps of alignment.
Room(n) == IF n <= 6 THEN 520 * n
           ELSE IF n <= 25 THEN 3120 + 40 * (n - 6)
           ELSE IF n = 26 THEN 5936
           ELSE IF n = 27 THEN 6972
           ELSE 11252

\* Objects are below the top of the pool, but for the header of the scan, which is used
\* beyond the size it asked for; nothing is asked for while that is in use.
HeldAt(o) ==
  /\ o.alignment \in {1, 2, 4}
  /\ o.from \in Nat /\ o.to \in Nat /\ o.from % o.alignment = 0
  /\ pool_start <= o.from /\ o.to <= pool_end
  /\ o.name # "ScanHeader" => o.to <= pool_top
Apart(o, p) == o.to <= p.from \/ p.to <= o.from

IPool ==
  /\ pool_start \in Nat /\ pool_top \in Nat /\ pool_end \in Nat
  /\ pool_start <= pool_top /\ pool_top <= pool_end
  /\ jpc = "setup" => /\ pool_top # 0 /\ pool_end - pool_top >= Room(Len(steps))
                      /\ Len(steps) \notin {7, 8} => \A o \in live : o.name # "ScanHeader"
  /\ \A o \in live : HeldAt(o)
  /\ \A o \in live : \A p \in live : o # p => Apart(o, p)

LEMMA AlignUp ==
  ASSUME NEW p \in Nat, NEW a \in {1, 2, 4}
  PROVE  /\ align_up(p, a) \in Nat /\ p <= align_up(p, a) /\ align_up(p, a) <= p + 3
         /\ align_up(p, a) % a = 0
<1>1. ((p + 1 - 1) \div 1) * 1 = p /\ p % 1 = 0
  BY SMT
<1>2. /\ ((p + 2 - 1) \div 2) * 2 \in Nat /\ p <= ((p + 2 - 1) \div 2) * 2
      /\ ((p + 2 - 1) \div 2) * 2 <= p + 3 /\ (((p + 2 - 1) \div 2) * 2) % 2 = 0
  BY SMT
<1>3. /\ ((p + 4 - 1) \div 4) * 4 \in Nat /\ p <= ((p + 4 - 1) \div 4) * 4
      /\ ((p + 4 - 1) \div 4) * 4 <= p + 3 /\ (((p + 4 - 1) \div 4) * 4) % 4 = 0
  BY SMT
<1>4. CASE a = 1
  BY <1>1, <1>4 DEF align_up
<1>5. CASE a = 2
  BY <1>2, <1>5 DEF align_up
<1>6. CASE a = 4
  BY <1>3, <1>6 DEF align_up
<1> QED
  BY <1>4, <1>5, <1>6

LEMMA AlignEight ==
  ASSUME NEW p \in Nat
  PROVE  align_up(p, 8) \in Nat /\ p <= align_up(p, 8) /\ align_up(p, 8) <= p + 7
<1>1. /\ ((p + 8 - 1) \div 8) * 8 \in Nat /\ p <= ((p + 8 - 1) \div 8) * 8
      /\ ((p + 8 - 1) \div 8) * 8 <= p + 7
  BY SMT
<1> QED
  BY <1>1 DEF align_up

\* An object, aligned, leaves the room of the steps after it.
LEMMA RoomEnough ==
  ASSUME NEW n \in Nat, 1 <= n, n <= 28
  PROVE  /\ Room(n) \in Nat /\ Room(n - 1) \in Nat
         /\ Room(n - 1) + SizeAt(29 - n) + 6 <= Room(n)
         /\ n = 9 => Room(n) >= 40
BY DEF Room, SizeAt

LEMMA PoolOpens ==
  ASSUME IPool, JpegOpen
  PROVE  IPool'
<1>1. PICK address \in BufferAddresses : t_init(address + (Capacity \div 2), Capacity \div 2)
  BY DEF JpegOpen
<1>2. PICK half \in Nat : half = Capacity \div 2 /\ half >= 11264
  BY PoolAssumption, CapacityAssumption
<1>3. PICK start \in Nat : start = address + half /\ start >= half
  BY <1>2, AddressAssumption
<1>4. PICK e \in Nat : e = start + half
  OBVIOUS
<1>5. PICK top \in Nat : top = align_up(start, 8) /\ start <= top /\ top <= start + 7
  BY AlignEight
<1>6. pool_start' = start /\ pool_top' = top /\ pool_end' = e /\ live' = {}
  <2>1. ~(top > start + half)
    BY <1>2, <1>5
  <2> QED
    BY <1>1, <1>2, <1>3, <1>4, <1>5, <2>1 DEF t_init
<1>7. Len(steps') = 28
  BY EncodePart DEF JpegOpen, Part
<1>8. pool_top' # 0 /\ pool_end' - pool_top' >= Room(Len(steps'))
  <2>1. top # 0 /\ e - top >= 11252
    BY <1>2, <1>3, <1>4, <1>5
  <2>2. Room(Len(steps')) = 11252
    BY <1>7 DEF Room
  <2> QED
    BY <1>6, <2>1, <2>2
<1>9. pool_start' <= pool_top' /\ pool_top' <= pool_end'
  BY <1>2, <1>4, <1>5, <1>6
<1> QED
  BY <1>6, <1>8, <1>9 DEF IPool

LEMMA PoolGrows ==
  ASSUME IPool, ISteps, JpegNew
  PROVE  IPool'
<1>1. Step("new") /\ TNew(Head(steps).object) /\ jpc = "setup" /\ jpc' = jpc
  BY DEF JpegNew, Step
<1>2. /\ Len(steps) \in Nat /\ 1 <= Len(steps) /\ Len(steps) <= 28
      /\ Head(steps).op = "new" /\ StepAt(Head(steps), 29 - Len(steps))
      /\ Len(steps') = Len(steps) - 1
  BY <1>1, StepTaken
<1>3. PICK n \in Nat : n = Len(steps) /\ 1 <= n /\ n <= 28
  BY <1>2
<1> DEFINE object == Head(steps).object
<1>4. /\ object \in Objects /\ object.size <= SizeAt(29 - n)
      /\ n # 9 => object.used <= object.size /\ object.name # "ScanHeader"
      /\ n = 9 => object.used = 14 /\ object.name = "ScanHeader"
      /\ n # 8 /\ n # 7
  <2>1. PICK k \in Nat : k = 29 - n
    BY <1>3
  <2>2. StepAt(Head(steps), k)
    BY <1>2, <1>3, <2>1
  <2>3. /\ object \in Objects /\ object.size <= SizeAt(k)
        /\ k # 20 => object.used <= object.size /\ object.name # "ScanHeader"
        /\ k = 20 => object.used = 14 /\ object.name = "ScanHeader"
        /\ k # 21 /\ k # 22
    BY <1>2, <2>2 DEF StepAt
  <2>4. /\ n = 9 => k = 20
        /\ n = 8 => k = 21
        /\ n = 7 => k = 22
        /\ k = 20 => n = 9
    <3>1. k + n = 29
      BY <2>1
    <3> QED
      BY <3>1
  <2> QED
    BY <2>1, <2>3, <2>4
<1> HIDE DEF object
<1>5. PICK size \in Nat, used \in Nat, a \in {1, 2, 4} :
        size = object.size /\ used = object.used /\ a = object.alignment
  BY <1>4 DEF Objects
<1>6. PICK at \in Nat : at = align_up(pool_top, a) /\ pool_top <= at /\ at <= pool_top + 3
                        /\ at % a = 0
  BY AlignUp DEF IPool
<1>7. PICK taken \in Nat : taken = align_up(size, a) /\ size <= taken /\ taken <= size + 3
  BY AlignUp
<1>8. PICK room \in Nat, left \in Nat, most \in Nat :
        /\ room = Room(n) /\ left = Room(n - 1) /\ most = SizeAt(29 - n)
        /\ left + most + 6 <= room /\ (n = 9 => room >= 40)
  <2>1. SizeAt(29 - n) \in Nat
    BY <1>3 DEF SizeAt
  <2> QED
    BY <1>3, <2>1, RoomEnough
<1>9. PICK start \in Nat, top \in Nat, e \in Nat :
        /\ start = pool_start /\ top = pool_top /\ e = pool_end
        /\ start <= top /\ top # 0 /\ e - top >= room
  BY <1>1, <1>3, <1>8 DEF IPool
<1>10. at + taken <= e - left /\ at + taken <= e
  <2>1. size <= most
    BY <1>4, <1>5, <1>8
  <2>2. taken <= most + 3
    BY <1>7, <2>1
  <2>3. e - left >= top + most + 6
    BY <1>8, <1>9
  <2>4. at <= top + 3
    BY <1>6, <1>9
  <2> QED
    BY <2>2, <2>3, <2>4
<1>11. Fits(object)
  BY <1>5, <1>6, <1>7, <1>9, <1>10 DEF Fits, NULL
<1>12. t_malloc(object) = at
  BY <1>5, <1>6, <1>11 DEF t_malloc
<1>13. /\ pool_top' = at + taken /\ pool_start' = start /\ pool_end' = e
       /\ live' = live \union {[name |-> object.name, alignment |-> a, from |-> at,
                                to |-> at + used]}
  BY <1>1, <1>5, <1>7, <1>9, <1>11, <1>12 DEF TNew, object
<1>14. PICK new : /\ live' = live \union {new}
                  /\ new.alignment = a /\ new.from = at /\ new.to = at + used
                  /\ new.name = object.name
  <2> DEFINE rec == [name |-> object.name, alignment |-> a, from |-> at, to |-> at + used]
  <2>1. /\ rec.alignment = a /\ rec.from = at /\ rec.to = at + used
        /\ rec.name = object.name
    OBVIOUS
  <2>2. live' = live \union {rec}
    BY <1>13
  <2> HIDE DEF rec
  <2> QED
    BY <2>1, <2>2
<1>15. at + used <= e /\ (new.name # "ScanHeader" => at + used <= at + taken)
  <2>1. CASE n = 9
    <3>1. used = 14 /\ new.name = "ScanHeader"
      BY <1>3, <1>4, <1>5, <1>14, <2>1
    <3>2. at <= top + 3 /\ room >= 40
      BY <1>6, <1>8, <1>9, <2>1
    <3> QED
      BY <1>9, <3>1, <3>2
  <2>2. CASE n # 9
    <3>1. used <= size
      BY <1>3, <1>4, <1>5, <2>2
    <3> QED
      BY <1>7, <1>10, <3>1
  <2> QED
    BY <2>1, <2>2
<1>16. new.name = "ScanHeader" => n = 9
  BY <1>3, <1>4, <1>14
<1>17. \A o \in live : o.name # "ScanHeader" /\ o.to <= top /\ HeldAt(o)
  <2>1. n # 7 /\ n # 8
    BY <1>3, <1>4
  <2>2. \A o \in live : o.name # "ScanHeader"
    BY <1>1, <1>3, <2>1 DEF IPool
  <2>3. \A o \in live : HeldAt(o)
    BY DEF IPool
  <2> QED
    BY <1>9, <2>2, <2>3 DEF HeldAt
<1>18. \A o \in live : HeldAt(o)'
  <2> SUFFICES ASSUME NEW o \in live PROVE HeldAt(o)'
    OBVIOUS
  <2>1. /\ o.alignment \in {1, 2, 4} /\ o.from \in Nat /\ o.to \in Nat
        /\ o.from % o.alignment = 0 /\ pool_start <= o.from /\ o.to <= pool_end /\ o.to <= top
    BY <1>17 DEF HeldAt
  <2>2. o.to <= at + taken
    BY <1>6, <1>9, <2>1
  <2> QED
    BY <1>9, <1>13, <2>1, <2>2 DEF HeldAt
<1>19. HeldAt(new)'
  <2>1. start <= at /\ at + used \in Nat
    BY <1>6, <1>9
  <2> QED
    BY <1>6, <1>13, <1>14, <1>15, <2>1 DEF HeldAt
<1>20. \A o \in live : Apart(o, new) /\ Apart(new, o)
  <2> SUFFICES ASSUME NEW o \in live PROVE o.to <= new.from
    BY DEF Apart
  <2>1. o.to \in Nat /\ o.to <= top
    BY <1>17 DEF HeldAt
  <2> QED
    BY <1>6, <1>9, <1>14, <2>1
<1>21. \A o \in live' : HeldAt(o)'
  BY <1>14, <1>18, <1>19
<1>22. \A o \in live' : \A p \in live' : o # p => Apart(o, p)
  <2>1. \A o \in live : \A p \in live : o # p => Apart(o, p)
    BY DEF IPool
  <2> QED
    BY <1>14, <1>20, <2>1
<1>23. pool_top' # 0 /\ pool_end' - pool_top' >= Room(Len(steps'))
  <2>1. at + taken # 0 /\ e - (at + taken) >= left
    BY <1>6, <1>9, <1>10
  <2>2. Room(Len(steps')) = left
    BY <1>2, <1>3, <1>8
  <2> QED
    BY <1>13, <2>1, <2>2
<1>24. Len(steps') \notin {7, 8} => \A o \in live' : o.name # "ScanHeader"
  <2>1. n = 9 => Len(steps') = 8
    BY <1>2, <1>3
  <2> QED
    BY <1>14, <1>16, <1>17, <2>1
<1>25. /\ pool_start' \in Nat /\ pool_top' \in Nat /\ pool_end' \in Nat
       /\ pool_start' <= pool_top' /\ pool_top' <= pool_end'
  <2>1. at + taken \in Nat /\ start <= at + taken
    BY <1>6, <1>9
  <2> QED
    BY <1>10, <1>13, <2>1
<1> QED
  BY <1>21, <1>22, <1>23, <1>24, <1>25 DEF IPool, Apart

\* Objects that are not used any more are no matter to the others.
LEMMA PoolForgets ==
  ASSUME IPool, UNCHANGED <<pool_start, pool_top, pool_end>>, live' \in SUBSET live,
         jpc' = "setup" =>
           /\ jpc = "setup" /\ pool_end - pool_top >= Room(Len(steps'))
           /\ Len(steps') \notin {7, 8} => \A o \in live' : o.name # "ScanHeader"
  PROVE  IPool'
<1>1. \A o \in live' : HeldAt(o)'
  <2>1. \A o \in live : HeldAt(o)
    BY DEF IPool
  <2> QED
    BY <2>1 DEF HeldAt
<1>2. \A o \in live' : \A p \in live' : o # p => Apart(o, p)
  BY DEF IPool
<1>3. jpc' = "setup" => /\ pool_top' # 0 /\ pool_end' - pool_top' >= Room(Len(steps'))
                        /\ Len(steps') \notin {7, 8} => \A o \in live' : o.name # "ScanHeader"
  BY DEF IPool
<1> QED
  BY <1>1, <1>2, <1>3 DEF IPool, Apart

\* A step that takes nothing leaves the room.
LEMMA RoomStays ==
  ASSUME IPool, jpc = "setup", NEW n \in Nat, n = Len(steps), 1 <= n, n <= 28
  PROVE  pool_end - pool_top >= Room(n - 1)
<1>1. PICK room \in Nat, left \in Nat, most \in Nat :
        /\ room = Room(n) /\ left = Room(n - 1) /\ most = SizeAt(29 - n)
        /\ left + most + 6 <= room
  <2>1. SizeAt(29 - n) \in Nat
    BY DEF SizeAt
  <2> QED
    BY <2>1, RoomEnough
<1>2. PICK top \in Nat, e \in Nat : top = pool_top /\ e = pool_end /\ e - top >= room
  BY <1>1 DEF IPool
<1>3. e - top >= left
  BY <1>1, <1>2
<1> QED
  BY <1>1, <1>2, <1>3

LEMMA PoolSetup ==
  ASSUME IPool, ISteps, JpegForget \/ JpegWrite
  PROVE  IPool'
<1>1. PICK op \in {"forget", "write"} : Step(op) /\ jpc = "setup" /\ jpc' = jpc
  BY DEF JpegForget, JpegWrite, Step
<1>2. PICK n \in Nat : n = Len(steps) /\ 1 <= n /\ n <= 28 /\ Len(steps') = n - 1
  BY <1>1, StepTaken
<1>3. PICK k \in Nat : k = 29 - n /\ StepAt(Head(steps), k)
  <2>1. 29 - n \in Nat
    BY <1>2
  <2> QED
    BY <1>1, <1>2, <2>1, StepTaken
<1>4. n = 7 => k = 22
  <2>1. k + n = 29
    BY <1>3
  <2> QED
    BY <2>1
<1>5. pool_end - pool_top >= Room(Len(steps'))
  BY <1>1, <1>2, RoomStays
<1>6. UNCHANGED <<pool_start, pool_top, pool_end>> /\ live' \in SUBSET live
  BY DEF JpegForget, JpegWrite, TForget
<1>7. ASSUME Len(steps') \notin {7, 8}, NEW o \in live', o.name = "ScanHeader" PROVE FALSE
  <2>1. n # 8 /\ n # 9
    BY <1>2, <1>7
  <2>2. o \in live
    BY <1>6, <1>7
  <2>3. n = 7
    BY <1>1, <1>2, <1>7, <2>1, <2>2 DEF IPool
  <2>4. Head(steps).op = "forget" /\ Head(steps).names = {"ScanHeader"}
    BY <1>3, <1>4, <2>3 DEF StepAt
  <2>5. CASE JpegForget
    BY <1>7, <2>4, <2>5 DEF JpegForget, TForget
  <2>6. CASE JpegWrite
    BY <2>4, <2>6 DEF JpegWrite, Step
  <2> QED
    BY <2>5, <2>6
<1> QED
  BY <1>1, <1>5, <1>6, <1>7, PoolForgets

LEMMA JpegPoolStep ==
  ASSUME IPool, ISteps, JpegNext
  PROVE  IPool'
<1>1. CASE JpegOpen
  BY <1>1, PoolOpens
<1>2. CASE JpegNew
  BY <1>2, PoolGrows
<1>3. CASE JpegForget \/ JpegWrite
  BY <1>3, PoolSetup
<1>4. CASE JpegEnd
  BY <1>4, PoolForgets DEF JpegEnd, TForget
<1>5. CASE JpegStart \/ JpegFill \/ JpegFillFails \/ JpegKeep \/ JpegRow \/ JpegUnit \/ JpegUnitsDone
  <2>1. UNCHANGED poolVars /\ jpc' # "setup"
    BY <1>5 DEF JpegStart, JpegFill, JpegFillFails, JpegKeep, ToRow, BandFrame, JpegRow,
                JpegUnit, JpegUnitsDone
  <2> QED
    BY <2>1, PoolForgets
<1> QED
  BY <1>1, <1>2, <1>3, <1>4, <1>5 DEF JpegNext

LEMMA PoolStep ==
  ASSUME IStage, ISteps, IPool, [ImageNext]_imageVars
  PROVE  IPool'
<1>1. CASE Encodes
  BY <1>1, JpegPoolStep DEF Encodes
<1>2. CASE LeavesEncoder
  BY <1>2 DEF LeavesEncoder, IPool, HeldAt, Apart
<1> QED
  BY <1>1, <1>2, EncoderSteps

LEMMA PoolStarts ==
  ASSUME ImageInit
  PROVE  IPool
<1>1. pool_start = 0 /\ pool_top = 0 /\ pool_end = 0 /\ live = {} /\ jpc = "idle"
  BY DEF ImageInit, JpegInit, PoolInit, NULL
<1> QED
  BY <1>1 DEF IPool

\* None of the encoder's objects comes out of a pool that is used up, reaches out of it or
\* into another that is still in use, wherever the linker puts the buffer, though the header
\* of the scan is allocated with the size of a pointer: what half the buffer holds is enough
\* for all of them with the gaps between them (jpg.c:71-74, tjpg.h:1068).
THEOREM ScratchIsHeld == ImageSpec => []ScratchHeld
<1> DEFINE Inv == IStage /\ ISteps /\ IOutput /\ IPool
<1>1. ImageInit => Inv
  BY JpegStarts, PoolStarts
<1>2. Inv /\ [ImageNext]_imageVars => Inv'
  BY StageStep, OutputStep, PoolStep
<1>3. Inv => ScratchHeld
  <2> SUFFICES ASSUME IPool PROVE Held
    BY DEF ScratchHeld
  <2> QED
    BY DEF Held, IPool, HeldAt, Apart
<1> HIDE DEF Inv
<1> QED
  BY <1>1, <1>2, <1>3, PTL DEF ImageSpec

-----------------------------------------------------------------------------
(* Bytes and their bits *)

Byte == 0 .. 255

LEMMA Bytes ==
  /\ \A n \in Byte : n \in Nat /\ n < 256
  /\ \A n \in Nat : n < 256 => n \in Byte
  /\ \A n \in Int : n % 256 \in Byte
<1>1. \A n \in Byte : n \in Nat /\ n < 256
  BY DEF Byte
<1>2. \A n \in Nat : n < 256 => n \in Byte
  BY DEF Byte
<1>3. \A n \in Int : n % 256 \in Nat /\ n % 256 < 256
  BY SMT
<1> QED
  BY <1>1, <1>2, <1>3

LEMMA MaskedByte ==
  ASSUME NEW val \in Byte, NEW dat \in Byte, NEW msk \in Byte
  PROVE  Masked(val, dat, msk) \in Byte
<1>1. \A byte \in Byte : /\ Bit(byte, 1) \in {0, 1} /\ Bit(byte, 2) \in {0, 1}
                         /\ Bit(byte, 4) \in {0, 1} /\ Bit(byte, 8) \in {0, 1}
                         /\ Bit(byte, 16) \in {0, 1} /\ Bit(byte, 32) \in {0, 1}
                         /\ Bit(byte, 64) \in {0, 1} /\ Bit(byte, 128) \in {0, 1}
  BY DEF Bit, Byte
<1>2. /\ Chosen(val, dat, msk, 1) \in {0, 1} /\ Chosen(val, dat, msk, 2) \in {0, 2}
      /\ Chosen(val, dat, msk, 4) \in {0, 4} /\ Chosen(val, dat, msk, 8) \in {0, 8}
      /\ Chosen(val, dat, msk, 16) \in {0, 16} /\ Chosen(val, dat, msk, 32) \in {0, 32}
      /\ Chosen(val, dat, msk, 64) \in {0, 64} /\ Chosen(val, dat, msk, 128) \in {0, 128}
  BY <1>1 DEF Chosen
<1>3. Masked(val, dat, msk) \in Nat /\ Masked(val, dat, msk) < 256
  BY <1>2 DEF Masked
<1> QED
  BY <1>3, Bytes

\* What a masked write leaves, of the masks the code has.
LEMMA MaskedFields ==
  ASSUME NEW val \in Byte, NEW dat \in Byte
  PROVE  /\ Masked(val, dat, 3) % 4 = dat % 4
         /\ Masked(val, dat, 255) = dat
         /\ Masked(val, dat, 63) % 64 = dat % 64
         /\ Masked(val, dat, 15) % 16 = dat % 16
         /\ Masked(val, dat, 192) % 16 = val % 16
         /\ Masked(val, dat, 192) \div 64 = dat \div 64
<1>1. val \in Nat /\ val < 256 /\ dat \in Nat /\ dat < 256
  BY Bytes
<1>2. Masked(val, dat, 3) % 4 = dat % 4
  BY <1>1 DEF Masked, Chosen, Bit
<1>3. Masked(val, dat, 255) = dat
  BY <1>1, SMTT(60) DEF Masked, Chosen, Bit
<1>4. Masked(val, dat, 63) % 64 = dat % 64
  BY <1>1, SMTT(60) DEF Masked, Chosen, Bit
<1>5. Masked(val, dat, 15) % 16 = dat % 16
  BY <1>1 DEF Masked, Chosen, Bit
<1>6. Masked(val, dat, 192) % 16 = val % 16
  BY <1>1 DEF Masked, Chosen, Bit
<1>7. Masked(val, dat, 192) \div 64 = dat \div 64
  BY <1>1 DEF Masked, Chosen, Bit
<1> QED
  BY <1>2, <1>3, <1>4, <1>5, <1>6, <1>7

LEMMA MaskedFlags ==
  ASSUME NEW val \in Byte
  PROVE  /\ Bit(Masked(val, 0, 1), 1) = 0
         /\ Bit(Masked(val, 0, 2), 2) = 0
         /\ Bit(Masked(val, 0, 4), 4) = 0
         /\ \A dat \in Byte : /\ Bit(Masked(val, dat, 4), 1) = Bit(val, 1)
                              /\ Bit(Masked(val, dat, 2), 1) = Bit(val, 1)
                              /\ Bit(Masked(val, dat, 2), 4) = Bit(val, 4)
                              /\ Bit(Masked(val, dat, 1), 4) = Bit(val, 4)
<1>1. val \in Nat /\ val < 256
  BY Bytes
<1>2. Bit(Masked(val, 0, 1), 1) = 0
  BY <1>1 DEF Masked, Chosen, Bit
<1>3. Bit(Masked(val, 0, 2), 2) = 0
  BY <1>1 DEF Masked, Chosen, Bit
<1>4. Bit(Masked(val, 0, 4), 4) = 0
  BY <1>1 DEF Masked, Chosen, Bit
<1>5. ASSUME NEW dat \in Byte
      PROVE  /\ Bit(Masked(val, dat, 4), 1) = Bit(val, 1)
             /\ Bit(Masked(val, dat, 2), 1) = Bit(val, 1)
             /\ Bit(Masked(val, dat, 2), 4) = Bit(val, 4)
             /\ Bit(Masked(val, dat, 1), 4) = Bit(val, 4)
  <2>1. dat \in Nat /\ dat < 256
    BY Bytes
  <2>2. Bit(Masked(val, dat, 4), 1) = Bit(val, 1)
    BY <1>1, <2>1 DEF Masked, Chosen, Bit
  <2>3. Bit(Masked(val, dat, 2), 1) = Bit(val, 1)
    BY <1>1, <2>1 DEF Masked, Chosen, Bit
  <2>4. Bit(Masked(val, dat, 2), 4) = Bit(val, 4)
    BY <1>1, <2>1 DEF Masked, Chosen, Bit
  <2>5. Bit(Masked(val, dat, 1), 4) = Bit(val, 4)
    BY <1>1, <2>1 DEF Masked, Chosen, Bit
  <2> QED
    BY <2>2, <2>3, <2>4, <2>5
<1> QED
  BY <1>2, <1>3, <1>4, <1>5

\* The three fields of an exposure, and the two of a gain, are read back as they were.
LEMMA ExposureFields ==
  ASSUME NEW time \in Nat, time < 65536
  PROVE  /\ (time \div 1024) \in Byte /\ time \div 1024 < 64
         /\ (time % 4) + ((time \div 4) % 256) * 4 + (time \div 1024) * 1024 = time
BY DEF Byte

Gains == [mantissa : 0 .. 15, exponent : 0 .. 6]

LEMMA GainFields ==
  ASSUME NEW gain \in Gains
  PROVE  /\ gain_bits(gain) \in Byte /\ vref_bits(gain) \in Byte
         /\ gain_bits(gain) % 16 = gain.mantissa
         /\ popcnt(gain_bits(gain) \div 16) + popcnt(vref_bits(gain) \div 64) = gain.exponent
<1> DEFINE m == gain.mantissa
           e == gain.exponent
<1>1. m \in Nat /\ m < 16 /\ e \in {0, 1, 2, 3, 4, 5, 6}
  BY DEF Gains
<1>2. /\ gain_bits(gain) = ((2^e - 1) * 16 + (m % 16)) % 256
      /\ vref_bits(gain) = ((2^e - 1) * 4) % 256
  BY DEF gain_bits, vref_bits
<1> HIDE DEF m, e
<1>3. 2^0 = 1 /\ 2^1 = 2 /\ 2^2 = 4 /\ 2^3 = 8 /\ 2^4 = 16 /\ 2^5 = 32 /\ 2^6 = 64
  BY SMT
<1>4. PICK p \in Nat : /\ p = 2^e
                       /\ \/ e = 0 /\ p = 1
                          \/ e = 1 /\ p = 2
                          \/ e = 2 /\ p = 4
                          \/ e = 3 /\ p = 8
                          \/ e = 4 /\ p = 16
                          \/ e = 5 /\ p = 32
                          \/ e = 6 /\ p = 64
  <2>1. PICK p0 \in Nat, p1 \in Nat, p2 \in Nat, p3 \in Nat, p4 \in Nat, p5 \in Nat,
             p6 \in Nat :
          /\ p0 = 2^0 /\ p1 = 2^1 /\ p2 = 2^2 /\ p3 = 2^3 /\ p4 = 2^4 /\ p5 = 2^5 /\ p6 = 2^6
          /\ p0 = 1 /\ p1 = 2 /\ p2 = 4 /\ p3 = 8 /\ p4 = 16 /\ p5 = 32 /\ p6 = 64
    BY <1>3
  <2>2. CASE e = 0
    BY <2>1, <2>2
  <2>3. CASE e = 1
    BY <2>1, <2>3
  <2>4. CASE e = 2
    BY <2>1, <2>4
  <2>5. CASE e = 3
    BY <2>1, <2>5
  <2>6. CASE e = 4
    BY <2>1, <2>6
  <2>7. CASE e = 5
    BY <2>1, <2>7
  <2>8. CASE e = 6
    BY <2>1, <2>8
  <2> QED
    BY <1>1, <2>2, <2>3, <2>4, <2>5, <2>6, <2>7, <2>8
<1> DEFINE g == ((p - 1) * 16 + m) % 256
           v == ((p - 1) * 4) % 256
<1>5. gain_bits(gain) = g /\ vref_bits(gain) = v
  <2>1. m % 16 = m
    BY <1>1
  <2> QED
    BY <1>2, <1>4, <2>1
<1>6. g \in Nat /\ g < 256 /\ g % 16 = m /\ v \in Nat /\ v < 256
  BY <1>1, <1>4
<1>7. popcnt(g \div 16) + popcnt(v \div 64) = e
  BY <1>1, <1>4 DEF popcnt, Bit
<1> QED
  BY <1>5, <1>6, <1>7, Bytes DEF m, e

-----------------------------------------------------------------------------
(* The setting up of the sensor *)

\* Its transfers are numbered from the last, 1, to the first, 21; those of a gain, 6 and 7,
\* and of an exposure, 9 to 11, are left out where the sensor controls it.  Where the one is
\* that has m - 1 after it, in a capture with configuration c:
GainsLeftOut(c) == IF c.agc THEN 2 ELSE 0
TimesLeftOut(c) == IF c.aec THEN 3 ELSE 0
Place(c, m) == IF m <= 7 - GainsLeftOut(c) THEN m
               ELSE IF m <= 11 - GainsLeftOut(c) - TimesLeftOut(c) THEN m + GainsLeftOut(c)
               ELSE m + GainsLeftOut(c) + TimesLeftOut(c)

Reads(t, reg) == t.op = "read" /\ t.reg = reg
Masks(t, reg, dat, msk) == t.op = "modify" /\ t.reg = reg /\ t.dat = dat /\ t.msk = msk

\* The transfer in each place.
SetupAt(c, w, t, k) ==
  /\ t \in Transfers
  /\ k = 1 => Reads(t, "VREF")
  /\ k = 2 => Reads(t, "GAIN")
  /\ k = 3 => Reads(t, "AECHH")
  /\ k = 4 => Reads(t, "AECH")
  /\ k = 5 => Reads(t, "COM1")
  /\ k = 6 => Masks(t, "VREF", vref_bits(c.gain), 192)
  /\ k = 7 => Masks(t, "GAIN", gain_bits(c.gain), 255)
  /\ k = 8 => Masks(t, "COM8", IF c.agc THEN 4 ELSE 0, 4)
  /\ k = 9 => Masks(t, "AECHH", c.exposure \div 1024, 63)
  /\ k = 10 => Masks(t, "AECH", (c.exposure \div 4) % 256, 255)
  /\ k = 11 => Masks(t, "COM1", c.exposure % 256, 3)
  /\ k = 12 => Masks(t, "COM8", IF c.aec THEN 1 ELSE 0, 1)
  /\ k = 13 => Masks(t, "VREF", WindowBits(w), 15)
  /\ k >= 14 => t.op = "write"

\* Transfers in their places, with n after them.
Plan(c, w, s, n) ==
  /\ s \in Seq(Transfers) /\ n \in Nat
  /\ \A i \in 1 .. Len(s) : SetupAt(c, w, s[i], Place(c, n + Len(s) - i + 1))

LEMMA PlanJoin ==
  ASSUME NEW c, NEW w, NEW s, NEW t, NEW n, NEW m, Plan(c, w, t, n), Plan(c, w, s, m),
         m = n + Len(t)
  PROVE  Plan(c, w, s \o t, n) /\ n + Len(s \o t) = m + Len(s)
<1>1. /\ s \in Seq(Transfers) /\ t \in Seq(Transfers) /\ n \in Nat /\ m \in Nat
      /\ Len(s) \in Nat /\ Len(t) \in Nat
  BY DEF Plan
<1>2. s \o t \in Seq(Transfers) /\ Len(s \o t) = Len(s) + Len(t)
  BY <1>1, Joined
<1>3. ASSUME NEW i \in 1 .. Len(s) + Len(t)
      PROVE  SetupAt(c, w, (s \o t)[i], Place(c, n + (Len(s) + Len(t)) - i + 1))
  <2>1. CASE i <= Len(s)
    <3>1. (s \o t)[i] = s[i] /\ i \in 1 .. Len(s)
      BY <1>1, <2>1, Joined
    <3>2. n + (Len(s) + Len(t)) - i + 1 = m + Len(s) - i + 1
      BY <1>1
    <3> QED
      BY <3>1, <3>2 DEF Plan
  <2>2. CASE i > Len(s)
    <3>1. PICK j \in 1 .. Len(t) : j = i - Len(s)
      <4>1. i - Len(s) \in 1 .. Len(t)
        BY <1>1, <2>2
      <4> QED
        BY <4>1
    <3>2. (s \o t)[Len(s) + j] = t[j]
      BY <1>1, <3>1, Joined
    <3>3. Len(s) + j = i /\ n + (Len(s) + Len(t)) - i + 1 = n + Len(t) - j + 1
      BY <1>1, <2>2, <3>1
    <3> QED
      BY <3>1, <3>2, <3>3 DEF Plan
  <2> QED
    BY <1>1, <2>1, <2>2
<1>4. n + Len(s \o t) = m + Len(s)
  BY <1>1, <1>2
<1> QED
  BY <1>1, <1>2, <1>3, <1>4 DEF Plan

\* The exposure and the gain of a configuration.
Fixes(c) == /\ c.aec \in BOOLEAN /\ c.agc \in BOOLEAN /\ c.gain \in Gains
            /\ c.exposure \in Nat /\ c.exposure < 65536
IsWindow(w) == w.vstart \in Nat /\ w.vstop \in Nat

LEMMA ConfigFixes ==
  ASSUME NEW c \in Configs
  PROVE  Fixes(c)
<1>1. MaxExposure \in Nat /\ \A n \in Nat : n <= MaxExposure => n < 65536
  BY DEF MaxExposure
<1>2. c.exposure \in 0 .. MaxExposure
  BY DEF Configs
<1>3. c.exposure \in Nat /\ c.exposure < 65536
  BY <1>1, <1>2
<1>4. c.aec \in BOOLEAN /\ c.agc \in BOOLEAN /\ c.gain \in Gains
  BY DEF Configs, Gains
<1> QED
  BY <1>3, <1>4 DEF Fixes

LEMMA IsTransfer ==
  /\ \A reg \in Registers : /\ rd_reg(reg) \in Transfers /\ rd_reg(reg).op = "read"
                            /\ rd_reg(reg).reg = reg
  /\ \A reg \in Registers : \A dat \in Int :
       /\ wr_reg(reg, dat) \in Transfers /\ wr_reg(reg, dat).op = "write"
       /\ wr_reg(reg, dat).reg = reg /\ wr_reg(reg, dat).dat = dat % 256
  /\ \A reg \in Registers : \A dat \in Int : \A msk \in Byte :
       /\ wr_msk_reg(reg, dat, msk) \in Transfers /\ wr_msk_reg(reg, dat, msk).op = "modify"
       /\ wr_msk_reg(reg, dat, msk).reg = reg /\ wr_msk_reg(reg, dat, msk).dat = dat % 256
       /\ wr_msk_reg(reg, dat, msk).msk = msk
  /\ Vsync \in Transfers /\ Vsync.op = "vsync"
<1> USE DEF Byte
<1>1. \A n \in Int : n % 256 \in 0 .. 255
  BY Bytes
<1>2. ASSUME NEW reg \in Registers
      PROVE  rd_reg(reg) \in Transfers /\ rd_reg(reg).op = "read" /\ rd_reg(reg).reg = reg
  BY DEF rd_reg, Transfers
<1>3. ASSUME NEW reg \in Registers, NEW dat \in Int
      PROVE  /\ wr_reg(reg, dat) \in Transfers /\ wr_reg(reg, dat).op = "write"
             /\ wr_reg(reg, dat).reg = reg /\ wr_reg(reg, dat).dat = dat % 256
  <2>1. PICK d \in 0 .. 255 : d = dat % 256
    BY <1>1
  <2>2. wr_reg(reg, dat) = [op |-> "write", reg |-> reg, dat |-> d]
    BY <2>1 DEF wr_reg
  <2> QED
    BY <2>1, <2>2 DEF Transfers
<1>4. ASSUME NEW reg \in Registers, NEW dat \in Int, NEW msk \in Byte
      PROVE  /\ wr_msk_reg(reg, dat, msk) \in Transfers /\ wr_msk_reg(reg, dat, msk).op = "modify"
             /\ wr_msk_reg(reg, dat, msk).reg = reg /\ wr_msk_reg(reg, dat, msk).dat = dat % 256
             /\ wr_msk_reg(reg, dat, msk).msk = msk
  <2>1. PICK d \in 0 .. 255 : d = dat % 256
    BY <1>1
  <2>2. wr_msk_reg(reg, dat, msk) = [op |-> "modify", reg |-> reg, dat |-> d, msk |-> msk]
    BY <2>1 DEF wr_msk_reg
  <2> QED
    BY <2>1, <2>2 DEF Transfers
<1>5. Vsync \in Transfers /\ Vsync.op = "vsync"
  BY DEF Vsync, Transfers
<1> QED
  BY <1>2, <1>3, <1>4, <1>5

LEMMA LeftOut ==
  ASSUME NEW c, Fixes(c)
  PROVE  GainsLeftOut(c) \in {0, 2} /\ TimesLeftOut(c) \in {0, 3}
BY DEF Fixes, GainsLeftOut, TimesLeftOut

\* The pieces of the setup, each with as many transfers after it as there are.
LEMMA ReadPlan ==
  ASSUME NEW c, NEW w, Fixes(c)
  PROVE  Plan(c, w, ReadBack, 0) /\ Len(ReadBack) = 5
<1> DEFINE s == ReadBack
<1>1. /\ s \in Seq(Transfers) /\ Len(s) = 5
      /\ Reads(s[1], "COM1") /\ Reads(s[2], "AECH") /\ Reads(s[3], "AECHH")
      /\ Reads(s[4], "GAIN") /\ Reads(s[5], "VREF")
  <2> DEFINE a == rd_reg("COM1")
             b == rd_reg("AECH")
             d == rd_reg("AECHH")
             e == rd_reg("GAIN")
             f == rd_reg("VREF")
  <2>1. /\ a \in Transfers /\ b \in Transfers /\ d \in Transfers /\ e \in Transfers
        /\ f \in Transfers
        /\ Reads(a, "COM1") /\ Reads(b, "AECH") /\ Reads(d, "AECHH") /\ Reads(e, "GAIN")
        /\ Reads(f, "VREF")
    BY DEF rd_reg, Transfers, Registers, Reads
  <2>2. s = <<a, b, d, e, f>>
    BY DEF ReadBack
  <2> HIDE DEF a, b, d, e, f, s
  <2> QED
    BY <2>1, <2>2
<1> HIDE DEF s
<1>2. ASSUME NEW i \in 1 .. 5 PROVE SetupAt(c, w, s[i], Place(c, 0 + 5 - i + 1))
  <2>1. PICK k \in Nat : k = 6 - i
    OBVIOUS
  <2>2. Place(c, 0 + 5 - i + 1) = k
    BY <2>1 DEF Place, GainsLeftOut, TimesLeftOut, Fixes
  <2>3. /\ i = 1 => k = 5
        /\ i = 2 => k = 4
        /\ i = 3 => k = 3
        /\ i = 4 => k = 2
        /\ i = 5 => k = 1
    BY <2>1
  <2>4. k <= 5 /\ s[i] \in Transfers
    <3>1. k <= 5
      BY <2>1
    <3>2. s[i] \in Transfers
      <4>1. s \in Seq(Transfers) /\ i \in 1 .. Len(s)
        BY <1>1
      <4> QED
        BY <4>1
    <3> QED
      BY <3>1, <3>2
  <2>5. SetupAt(c, w, s[i], k)
    BY <1>1, <2>3, <2>4 DEF SetupAt
  <2> QED
    BY <2>2, <2>5
<1>3. Plan(c, w, s, 0)
  BY <1>1, <1>2 DEF Plan
<1> QED
  BY <1>1, <1>3 DEF s

\* One transfer, or none.
LEMMA OnePlan ==
  ASSUME NEW c, NEW w, NEW t \in Transfers, NEW n \in Nat, SetupAt(c, w, t, Place(c, n + 1))
  PROVE  Plan(c, w, <<t>>, n) /\ Len(<<t>>) = 1
<1> DEFINE s == <<t>>
<1>1. s \in Seq(Transfers) /\ Len(s) = 1 /\ s[1] = t
  OBVIOUS
<1> HIDE DEF s
<1>2. \A i \in 1 .. 1 : SetupAt(c, w, s[i], Place(c, n + 1 - i + 1))
  <2>1. n + 1 - 1 + 1 = n + 1
    OBVIOUS
  <2> QED
    BY <1>1, <2>1
<1>3. Plan(c, w, s, n)
  BY <1>1, <1>2 DEF Plan
<1> QED
  BY <1>1, <1>3 DEF s

LEMMA NonePlan ==
  ASSUME NEW c, NEW w, NEW n \in Nat, NEW s, s = <<>>
  PROVE  Plan(c, w, s, n) /\ Len(s) = 0
BY DEF Plan

LEMMA GainPlan ==
  ASSUME NEW c, NEW w, Fixes(c), ~c.agc
  PROVE  Plan(c, w, wr_gain(c.gain), 5) /\ Len(wr_gain(c.gain)) = 2
<1> DEFINE s == wr_gain(c.gain)
           g == gain_bits(c.gain)
           v == vref_bits(c.gain)
           a == wr_msk_reg("GAIN", g, 255)
           b == wr_msk_reg("VREF", v, 192)
<1>1. g \in Byte /\ v \in Byte
  BY GainFields DEF Fixes
<1>2. g \in 0 .. 255 /\ v \in 0 .. 255 /\ g % 256 = g /\ v % 256 = v
  BY <1>1 DEF Byte
<1>3. s = <<a, b>>
  BY DEF wr_gain
<1> HIDE DEF g, v
<1>4. a \in Transfers /\ b \in Transfers /\ Masks(a, "GAIN", g, 255) /\ Masks(b, "VREF", v, 192)
  <2>1. /\ a = [op |-> "modify", reg |-> "GAIN", dat |-> g, msk |-> 255]
        /\ b = [op |-> "modify", reg |-> "VREF", dat |-> v, msk |-> 192]
    BY <1>2 DEF wr_msk_reg
  <2> HIDE DEF a, b
  <2>2. Masks(a, "GAIN", g, 255) /\ Masks(b, "VREF", v, 192)
    BY <2>1 DEF Masks
  <2>3. a \in [op : {"modify"}, reg : Registers, dat : 0 .. 255, msk : 0 .. 255]
    BY <1>2, <2>1 DEF Registers
  <2>4. b \in [op : {"modify"}, reg : Registers, dat : 0 .. 255, msk : 0 .. 255]
    BY <1>2, <2>1 DEF Registers
  <2> QED
    BY <2>2, <2>3, <2>4 DEF Transfers
<1> HIDE DEF a, b, s
<1>5. s \in Seq(Transfers) /\ Len(s) = 2 /\ s[1] = a /\ s[2] = b
  BY <1>3, <1>4
<1>6. ASSUME NEW i \in 1 .. 2 PROVE SetupAt(c, w, s[i], Place(c, 5 + 2 - i + 1))
  <2>1. PICK k \in Nat : k = 8 - i
    OBVIOUS
  <2>2. Place(c, 5 + 2 - i + 1) = k
    BY <2>1 DEF Place, GainsLeftOut, TimesLeftOut, Fixes
  <2>3. (i = 1 /\ k = 7) \/ (i = 2 /\ k = 6)
    BY <2>1
  <2>4. SetupAt(c, w, s[i], k)
    BY <1>4, <1>5, <2>3 DEF SetupAt, g, v
  <2> QED
    BY <2>2, <2>4
<1>7. Plan(c, w, s, 5)
  BY <1>5, <1>6 DEF Plan
<1> QED
  BY <1>5, <1>7 DEF s

LEMMA Modifies ==
  ASSUME NEW reg \in Registers, NEW dat \in Byte, NEW msk \in Byte
  PROVE  /\ wr_msk_reg(reg, dat, msk) \in Transfers
         /\ Masks(wr_msk_reg(reg, dat, msk), reg, dat, msk)
<1>1. dat \in 0 .. 255 /\ dat % 256 = dat /\ msk \in 0 .. 255
  BY DEF Byte
<1>2. wr_msk_reg(reg, dat, msk) = [op |-> "modify", reg |-> reg, dat |-> dat, msk |-> msk]
  BY <1>1 DEF wr_msk_reg
<1> QED
  BY <1>1, <1>2 DEF Transfers, Masks

LEMMA TimePlan ==
  ASSUME NEW c, NEW w, Fixes(c), ~c.aec
  PROVE  /\ Plan(c, w, wr_exposure(c.exposure), 8 - GainsLeftOut(c))
         /\ Len(wr_exposure(c.exposure)) = 3
<1> DEFINE s == wr_exposure(c.exposure)
           x == c.exposure % 256
           y1 == (c.exposure \div 4) % 256
           z == c.exposure \div 1024
           a == wr_msk_reg("COM1", x, 3)
           b == wr_msk_reg("AECH", y1, 255)
           d == wr_msk_reg("AECHH", z, 63)
<1>1. x \in Byte /\ y1 \in Byte /\ z \in Byte
  <2>1. PICK e \in Nat : e = c.exposure /\ e < 65536
    BY DEF Fixes
  <2>2. e \div 4 \in Int /\ z \in Byte
    BY <2>1, ExposureFields
  <2> QED
    BY <2>1, <2>2, Bytes
<1>2. x \in 0 .. 255 /\ y1 \in 0 .. 255 /\ z \in 0 .. 255 /\ x % 256 = x /\ y1 % 256 = y1 /\ z % 256 = z
  BY <1>1 DEF Byte
<1>3. a = [op |-> "modify", reg |-> "COM1", dat |-> x, msk |-> 3]
      /\ b = [op |-> "modify", reg |-> "AECH", dat |-> y1, msk |-> 255]
      /\ d = [op |-> "modify", reg |-> "AECHH", dat |-> z, msk |-> 63]
  <2> HIDE DEF x, y1, z
  <2> QED
    BY <1>2 DEF wr_msk_reg
<1>4. s = <<a, b, d>>
  <2>1. /\ wr_msk_reg("COM1", c.exposure, 3) = [op |-> "modify", reg |-> "COM1", dat |-> x, msk |-> 3]
        /\ wr_msk_reg("AECH", c.exposure \div 4, 255)
             = [op |-> "modify", reg |-> "AECH", dat |-> y1, msk |-> 255]
        /\ wr_msk_reg("AECHH", c.exposure \div 1024, 63) = d
    BY DEF wr_msk_reg
  <2> QED
    BY <1>3, <2>1 DEF wr_exposure
<1> HIDE DEF x, y1, z, a, b, d, s
<1>5. Masks(a, "COM1", x, 3) /\ Masks(b, "AECH", y1, 255) /\ Masks(d, "AECHH", z, 63)
  BY <1>3 DEF Masks
<1>6. a \in Transfers /\ b \in Transfers /\ d \in Transfers
  <2>1. a \in [op : {"modify"}, reg : Registers, dat : 0 .. 255, msk : 0 .. 255]
    BY <1>2, <1>3 DEF Registers
  <2>2. b \in [op : {"modify"}, reg : Registers, dat : 0 .. 255, msk : 0 .. 255]
    BY <1>2, <1>3 DEF Registers
  <2>3. d \in [op : {"modify"}, reg : Registers, dat : 0 .. 255, msk : 0 .. 255]
    BY <1>2, <1>3 DEF Registers
  <2> QED
    BY <2>1, <2>2, <2>3 DEF Transfers
<1>7. s \in Seq(Transfers) /\ Len(s) = 3 /\ s[1] = a /\ s[2] = b /\ s[3] = d
  BY <1>4, <1>6
<1>8. PICK n \in Nat : n = 8 - GainsLeftOut(c)
  BY DEF GainsLeftOut, Fixes
<1>9. ASSUME NEW i \in 1 .. 3 PROVE SetupAt(c, w, s[i], Place(c, n + 3 - i + 1))
  <2>1. PICK k \in Nat : k = 12 - i
    OBVIOUS
  <2>2. Place(c, n + 3 - i + 1) = k
    BY <1>8, <2>1 DEF Place, GainsLeftOut, TimesLeftOut, Fixes
  <2>3. \/ i = 1 /\ k = 11
        \/ i = 2 /\ k = 10
        \/ i = 3 /\ k = 9
    BY <2>1
  <2>4. SetupAt(c, w, s[i], k)
    BY <1>5, <1>6, <1>7, <2>3 DEF SetupAt, x, y1, z
  <2> QED
    BY <2>2, <2>4
<1>10. Plan(c, w, s, n)
  BY <1>7, <1>8, <1>9 DEF Plan
<1> QED
  BY <1>7, <1>8, <1>10 DEF s

LEMMA FlagPlans ==
  ASSUME NEW c, NEW w, Fixes(c)
  PROVE  \A n \in Nat :
           /\ n = 7 - GainsLeftOut(c) => Plan(c, w, <<agc(c.agc)>>, n) /\ Len(<<agc(c.agc)>>) = 1
           /\ n = 11 - GainsLeftOut(c) - TimesLeftOut(c)
                => Plan(c, w, <<aec(c.aec)>>, n) /\ Len(<<aec(c.aec)>>) = 1
<1>1. TAKE n \in Nat
<1>2. /\ n = 7 - GainsLeftOut(c) => Place(c, n + 1) = 8
      /\ n = 11 - GainsLeftOut(c) - TimesLeftOut(c) => Place(c, n + 1) = 12
  BY LeftOut DEF Place
<1> DEFINE a == agc(c.agc)
           b == aec(c.aec)
           x == IF c.agc THEN 4 ELSE 0
           z == IF c.aec THEN 1 ELSE 0
<1>3. x \in 0 .. 255 /\ z \in 0 .. 255 /\ c.agc \in BOOLEAN /\ c.aec \in BOOLEAN
  BY DEF Fixes
<1>4. /\ a = [op |-> "modify", reg |-> "COM8", dat |-> x, msk |-> 4]
      /\ b = [op |-> "modify", reg |-> "COM8", dat |-> z, msk |-> 1]
  BY <1>3 DEF agc, aec, write_flag, se_reg, cl_reg, wr_msk_reg, COM8_AGC, COM8_AEC
<1> HIDE DEF a, b, x, z
<1>5. Masks(a, "COM8", x, 4) /\ Masks(b, "COM8", z, 1)
  BY <1>4 DEF Masks
<1>6. a \in [op : {"modify"}, reg : Registers, dat : 0 .. 255, msk : 0 .. 255]
      /\ b \in [op : {"modify"}, reg : Registers, dat : 0 .. 255, msk : 0 .. 255]
  BY <1>3, <1>4 DEF Registers
<1>7. a \in Transfers /\ b \in Transfers
  BY <1>6 DEF Transfers
<1>8. PICK k \in Nat, l \in Nat : k = 8 /\ l = 12
  OBVIOUS
<1>9. SetupAt(c, w, a, k) /\ SetupAt(c, w, b, l)
  BY <1>5, <1>7, <1>8 DEF SetupAt, x, z
<1>10. n = 7 - GainsLeftOut(c) => Plan(c, w, <<a>>, n) /\ Len(<<a>>) = 1
  BY <1>2, <1>7, <1>8, <1>9, OnePlan
<1>11. n = 11 - GainsLeftOut(c) - TimesLeftOut(c) => Plan(c, w, <<b>>, n) /\ Len(<<b>>) = 1
  BY <1>2, <1>7, <1>8, <1>9, OnePlan
<1> QED
  BY <1>10, <1>11 DEF a, b

LEMMA WindowPlans ==
  ASSUME NEW c, NEW w, Fixes(c), IsWindow(w)
  PROVE  \A n \in Nat :
           /\ n = 12 - GainsLeftOut(c) - TimesLeftOut(c)
                => Plan(c, w, set_hw(w), n) /\ Len(set_hw(w)) = 1
           /\ n = 13 - GainsLeftOut(c) - TimesLeftOut(c)
                => Plan(c, w, fmt_rgb565, n) /\ Len(fmt_rgb565) = 1
<1>1. TAKE n \in Nat
<1>2. /\ n = 12 - GainsLeftOut(c) - TimesLeftOut(c) => Place(c, n + 1) = 13
      /\ n = 13 - GainsLeftOut(c) - TimesLeftOut(c) => Place(c, n + 1) = 14
  BY LeftOut DEF Place
<1> DEFINE a == wr_msk_reg("VREF", WindowBits(w), 15)
           b == wr_reg("COM1", 0)
           x == WindowBits(w)
<1>3. x \in 0 .. 255 /\ x % 256 = x
  <2>1. PICK v \in Nat, u \in Nat : v = w.vstop % 4 /\ u = w.vstart % 4 /\ v < 4 /\ u < 4
    BY DEF IsWindow
  <2>2. x = v * 4 + u
    BY <2>1 DEF WindowBits
  <2>3. v * 4 + u \in Nat /\ v * 4 + u < 16 /\ (v * 4 + u) % 256 = v * 4 + u
    BY <2>1, SMT
  <2> QED
    BY <2>2, <2>3
<1> HIDE DEF x
<1>4. /\ a = [op |-> "modify", reg |-> "VREF", dat |-> x, msk |-> 15]
      /\ b = [op |-> "write", reg |-> "COM1", dat |-> 0]
  BY <1>3 DEF wr_msk_reg, wr_reg, x
<1>0. set_hw(w) = <<a>> /\ fmt_rgb565 = <<b>>
  BY DEF set_hw, fmt_rgb565
<1> HIDE DEF a, b
<1>5. Masks(a, "VREF", x, 15) /\ b.op = "write"
  BY <1>4 DEF Masks
<1>6. a \in [op : {"modify"}, reg : Registers, dat : 0 .. 255, msk : 0 .. 255]
      /\ b \in [op : {"write"}, reg : Registers, dat : 0 .. 255]
  BY <1>3, <1>4 DEF Registers
<1>7. a \in Transfers /\ b \in Transfers
  BY <1>6 DEF Transfers
<1>8. PICK k \in Nat, l \in Nat : k = 13 /\ l = 14
  OBVIOUS
<1>9. SetupAt(c, w, a, k) /\ SetupAt(c, w, b, l)
  BY <1>5, <1>7, <1>8 DEF SetupAt, x
<1>10. n = 12 - GainsLeftOut(c) - TimesLeftOut(c) => Plan(c, w, <<a>>, n) /\ Len(<<a>>) = 1
  BY <1>2, <1>7, <1>8, <1>9, OnePlan
<1>11. n = 13 - GainsLeftOut(c) - TimesLeftOut(c) => Plan(c, w, <<b>>, n) /\ Len(<<b>>) = 1
  BY <1>2, <1>7, <1>8, <1>9, OnePlan
<1> QED
  BY <1>0, <1>10, <1>11

LEMMA DefaultPlan ==
  ASSUME NEW c, NEW w, Fixes(c), NEW n \in Nat, n = 14 - GainsLeftOut(c) - TimesLeftOut(c)
  PROVE  Plan(c, w, default_regs, n) /\ Len(default_regs) = 7
<1> DEFINE s == default_regs
<1>2. s \in Seq(Transfers) /\ Len(s) = 7 /\ \A i \in 1 .. 7 : s[i].op = "write"
  <2> DEFINE a1 == wr_reg("VREF", 10)
             a2 == wr_reg("COM8", COM8_FAST)
             a3 == wr_reg("GAIN", 0)
             a4 == wr_reg("AECH", 0)
             a5 == wr_reg("COM8", COM8_FAST + COM8_AGC + COM8_AEC)
             a6 == wr_reg("RED", 96)
             a7 == wr_reg("COM8", COM8_FAST + COM8_AGC + COM8_AEC + COM8_AWB)
             W == [op : {"write"}, reg : Registers, dat : 0 .. 255]
  <2>1. /\ a1 \in W /\ a2 \in W /\ a3 \in W /\ a4 \in W
    BY DEF wr_reg, Registers, COM8_FAST
  <2>2. /\ a5 \in W /\ a6 \in W /\ a7 \in W
    BY DEF wr_reg, Registers, COM8_FAST, COM8_AGC, COM8_AEC, COM8_AWB
  <2>3. \A t \in W : t \in Transfers /\ t.op = "write"
    BY DEF Transfers
  <2>4. s = <<a1, a2, a3, a4, a5, a6, a7>>
    BY DEF default_regs
  <2> HIDE DEF a1, a2, a3, a4, a5, a6, a7, W, s
  <2>5. \A i \in 1 .. 7 : s[i] \in W
    BY <2>1, <2>2, <2>4
  <2>6. s \in Seq(Transfers) /\ Len(s) = 7
    BY <2>1, <2>2, <2>3, <2>4
  <2> QED
    BY <2>3, <2>5, <2>6
<1> HIDE DEF s
<1>3. ASSUME NEW i \in 1 .. 7 PROVE SetupAt(c, w, s[i], Place(c, n + 7 - i + 1))
  <2>1. PICK k \in Nat : k = 22 - i /\ k >= 15
    OBVIOUS
  <2>2. Place(c, n + 7 - i + 1) = k
    BY <2>1, LeftOut DEF Place
  <2>3. s[i] \in Transfers /\ s[i].op = "write"
    <3>1. s \in Seq(Transfers) /\ i \in 1 .. Len(s)
      BY <1>2
    <3>2. s[i] \in Transfers
      BY <3>1
    <3>3. s[i].op = "write"
      BY <1>2
    <3> QED
      BY <3>2, <3>3
  <2>4. SetupAt(c, w, s[i], k)
    BY <2>1, <2>3 DEF SetupAt
  <2> QED
    BY <2>2, <2>4
<1>4. Plan(c, w, s, n)
  BY <1>2, <1>3 DEF Plan
<1> QED
  BY <1>2, <1>4 DEF s

\* All of ov7675_init, in its places.
LEMMA InitPlan ==
  ASSUME NEW c, NEW w, Fixes(c), IsWindow(w)
  PROVE  Plan(c, w, ov7675_init(c, w), 0) /\ Place(c, Len(ov7675_init(c, w))) = 21
<1> DEFINE E == IF c.aec THEN <<>> ELSE wr_exposure(c.exposure)
           G == IF c.agc THEN <<>> ELSE wr_gain(c.gain)
           A == <<aec(c.aec)>>
           B == <<agc(c.agc)>>
<1>1. ov7675_init(c, w)
        = ((((((default_regs \o fmt_rgb565) \o set_hw(w)) \o A) \o E) \o B) \o G) \o ReadBack
  BY DEF ov7675_init
<1>2. PICK g \in {0, 2}, e \in {0, 3} : g = GainsLeftOut(c) /\ e = TimesLeftOut(c)
  BY LeftOut
<1> DEFINE n0 == 0
           n1 == 5
           n2 == 7 - g
           n3 == 8 - g
           n4 == 11 - g - e
           n5 == 12 - g - e
           n6 == 13 - g - e
           n7 == 14 - g - e
<1>3. /\ n0 \in Nat /\ n1 \in Nat /\ n2 \in Nat /\ n3 \in Nat /\ n4 \in Nat /\ n5 \in Nat
      /\ n6 \in Nat /\ n7 \in Nat
      /\ n1 = n0 + 5 /\ n3 = n2 + 1 /\ n5 = n4 + 1 /\ n6 = n5 + 1 /\ n7 = n6 + 1
      /\ n0 = 0 /\ n1 = 5 /\ n2 = 7 - g /\ n3 = 8 - g /\ n4 = 11 - g - e
      /\ n5 = 12 - g - e /\ n6 = 13 - g - e /\ n7 = 14 - g - e
  BY <1>2
<1> HIDE DEF n0, n1, n2, n3, n4, n5, n6, n7
<1>4. Plan(c, w, ReadBack, n0) /\ n1 = n0 + Len(ReadBack)
  BY <1>3, ReadPlan
<1>5. Plan(c, w, G, n1) /\ n2 = n1 + Len(G)
  <2>1. CASE c.agc
    <3>1. G = <<>> /\ g = 2
      BY <1>2, <2>1 DEF GainsLeftOut
    <3> HIDE DEF G
    <3>2. Plan(c, w, G, n1) /\ Len(G) = 0
      BY <1>3, <3>1, NonePlan
    <3>3. n2 = n1 + 0
      BY <1>3, <3>1
    <3> QED
      BY <3>2, <3>3
  <2>2. CASE ~c.agc
    <3>1. G = wr_gain(c.gain) /\ g = 0
      BY <1>2, <2>2 DEF GainsLeftOut
    <3> HIDE DEF G
    <3>2. Plan(c, w, G, n1) /\ Len(G) = 2
      BY <1>3, <2>2, <3>1, GainPlan
    <3>3. n2 = n1 + 2
      BY <1>3, <3>1
    <3> QED
      BY <3>2, <3>3
  <2> QED
    BY <2>1, <2>2
<1>6. Plan(c, w, B, n2) /\ n3 = n2 + Len(B)
  BY <1>2, <1>3, FlagPlans
<1>7. Plan(c, w, E, n3) /\ n4 = n3 + Len(E)
  <2>1. CASE c.aec
    <3>1. E = <<>> /\ e = 3
      BY <1>2, <2>1 DEF TimesLeftOut
    <3> HIDE DEF E
    <3>2. Plan(c, w, E, n3) /\ Len(E) = 0
      BY <1>3, <3>1, NonePlan
    <3>3. n4 = n3 + 0
      BY <1>3, <3>1
    <3> QED
      BY <3>2, <3>3
  <2>2. CASE ~c.aec
    <3>1. E = wr_exposure(c.exposure) /\ e = 0
      BY <1>2, <2>2 DEF TimesLeftOut
    <3> HIDE DEF E
    <3>2. Plan(c, w, E, n3) /\ Len(E) = 3
      BY <1>2, <1>3, <2>2, <3>1, TimePlan
    <3>3. n4 = n3 + 3
      BY <1>3, <3>1
    <3> QED
      BY <3>2, <3>3
  <2> QED
    BY <2>1, <2>2
<1>8. Plan(c, w, A, n4) /\ n5 = n4 + Len(A)
  BY <1>2, <1>3, FlagPlans
<1>9. /\ Plan(c, w, set_hw(w), n5) /\ n6 = n5 + Len(set_hw(w))
      /\ Plan(c, w, fmt_rgb565, n6) /\ n7 = n6 + Len(fmt_rgb565)
  BY <1>2, <1>3, WindowPlans
<1>10. Plan(c, w, default_regs, n7) /\ Len(default_regs) = 7
  BY <1>2, <1>3, DefaultPlan
<1> HIDE DEF E, G, A, B
<1> DEFINE s6 == default_regs \o fmt_rgb565
           s5 == s6 \o set_hw(w)
           s4 == s5 \o A
           s3 == s4 \o E
           s2 == s3 \o B
           s1 == s2 \o G
           s0 == s1 \o ReadBack
<1>11. Plan(c, w, s6, n6) /\ n6 + Len(s6) = n7 + Len(default_regs)
  <2> DEFINE d == default_regs
             f == fmt_rgb565
  <2>1. Plan(c, w, d, n7) /\ Plan(c, w, f, n6) /\ n7 = n6 + Len(f)
    BY <1>9, <1>10
  <2> HIDE DEF d, f
  <2>2. Plan(c, w, d \o f, n6) /\ n6 + Len(d \o f) = n7 + Len(d)
    BY <2>1, PlanJoin
  <2> QED
    BY <2>2 DEF d, f
<1> HIDE DEF s6
<1>12. Plan(c, w, s5, n5) /\ n5 + Len(s5) = n6 + Len(s6)
  BY <1>9, <1>11, PlanJoin
<1> HIDE DEF s5
<1>13. Plan(c, w, s4, n4) /\ n4 + Len(s4) = n5 + Len(s5)
  BY <1>8, <1>12, PlanJoin
<1> HIDE DEF s4
<1>14. Plan(c, w, s3, n3) /\ n3 + Len(s3) = n4 + Len(s4)
  BY <1>7, <1>13, PlanJoin
<1> HIDE DEF s3
<1>15. Plan(c, w, s2, n2) /\ n2 + Len(s2) = n3 + Len(s3)
  BY <1>6, <1>14, PlanJoin
<1> HIDE DEF s2
<1>16. Plan(c, w, s1, n1) /\ n1 + Len(s1) = n2 + Len(s2)
  BY <1>5, <1>15, PlanJoin
<1> HIDE DEF s1
<1>17. Plan(c, w, s0, n0) /\ n0 + Len(s0) = n1 + Len(s1)
  BY <1>4, <1>16, PlanJoin
<1> HIDE DEF s0
<1>18. Place(c, Len(s0)) = 21
  <2>1. Len(s0) \in Nat
    BY <1>17 DEF Plan
  <2>2. 0 + Len(s0) = 14 - g - e + 7
    BY <1>3, <1>10, <1>11, <1>12, <1>13, <1>14, <1>15, <1>16, <1>17
  <2>3. Len(s0) = 21 - g - e
    BY <1>2, <2>1, <2>2
  <2> QED
    BY <1>2, <2>3 DEF Place
<1>19. s0 = ov7675_init(c, w)
  BY <1>1 DEF s0, s1, s2, s3, s4, s5, s6
<1> QED
  BY <1>3, <1>17, <1>18, <1>19

-----------------------------------------------------------------------------
(* What the setup has done, with k places to go *)

\* The registers r and the bytes read back b: what the configuration fixes is there once
\* its transfers are through, and the loop that could change it is off.
SetUp(c, w, r, b, k) ==
  /\ k < 13 => r.VREF % 16 = WindowBits(w)
  /\ ~c.aec => /\ k < 12 => Bit(r.COM8, 1) = 0
               /\ k < 11 => r.COM1 % 4 = c.exposure % 4
               /\ k < 10 => r.AECH = (c.exposure \div 4) % 256
               /\ k < 9 => r.AECHH % 64 = c.exposure \div 1024
               /\ k < 5 => b.COM1 % 4 = c.exposure % 4
               /\ k < 4 => b.AECH = (c.exposure \div 4) % 256
               /\ k < 3 => b.AECHH % 64 = c.exposure \div 1024
  /\ ~c.agc => /\ k < 8 => Bit(r.COM8, 4) = 0
               /\ k < 7 => r.GAIN = gain_bits(c.gain)
               /\ k < 6 => r.VREF \div 64 = vref_bits(c.gain) \div 64
               /\ k < 2 => b.GAIN = gain_bits(c.gain)
               /\ k < 1 => b.VREF \div 64 = vref_bits(c.gain) \div 64

\* The write that a masked write in a place has left to do, whatever the sensor has done to
\* the other bits of the register since it was read.
HalfAt(c, w, t, k) ==
  /\ t \in Transfers /\ t.op = "write" /\ k \in 6 .. 13
  /\ k = 13 => t.reg = "VREF" /\ t.dat % 16 = WindowBits(w)
  /\ k = 12 => t.reg = "COM8" /\ (~c.aec => Bit(t.dat, 1) = 0)
  /\ k = 11 => t.reg = "COM1" /\ t.dat % 4 = c.exposure % 4
  /\ k = 10 => t.reg = "AECH" /\ t.dat = (c.exposure \div 4) % 256
  /\ k = 9 => t.reg = "AECHH" /\ t.dat % 64 = c.exposure \div 1024
  /\ k = 8 => /\ t.reg = "COM8"
              /\ ~c.agc => Bit(t.dat, 4) = 0
              /\ ~c.aec => Bit(t.dat, 1) = 0
  /\ k = 7 => t.reg = "GAIN" /\ t.dat = gain_bits(c.gain)
  /\ k = 6 => /\ t.reg = "VREF" /\ t.dat % 16 = WindowBits(w)
              /\ t.dat \div 64 = vref_bits(c.gain) \div 64

\* A place of a transfer, and the place of the next.
Follows(c, k, l) ==
  /\ k \in Nat /\ l \in Nat /\ k >= 1
  /\ k = l + 1 \/ (c.agc /\ k = 8 /\ l = 5) \/ (c.aec /\ k = 12 /\ l = 8)
  /\ c.agc => k # 6 /\ k # 7
  /\ c.aec => k # 9 /\ k # 10 /\ k # 11

LEMMA PlaceNext ==
  ASSUME NEW c, Fixes(c), NEW n \in Nat, n >= 1
  PROVE  Follows(c, Place(c, n), Place(c, n - 1))
<1>1. CASE c.aec /\ c.agc
  BY <1>1 DEF Place, GainsLeftOut, TimesLeftOut, Follows
<1>2. CASE c.aec /\ ~c.agc
  BY <1>2 DEF Place, GainsLeftOut, TimesLeftOut, Follows
<1>3. CASE ~c.aec /\ c.agc
  BY <1>3 DEF Place, GainsLeftOut, TimesLeftOut, Follows
<1>4. CASE ~c.aec /\ ~c.agc
  BY <1>4 DEF Place, GainsLeftOut, TimesLeftOut, Follows
<1> QED
  BY <1>1, <1>2, <1>3, <1>4 DEF Fixes

LEMMA PlaceNone ==
  ASSUME NEW c, Fixes(c)
  PROVE  Place(c, 0) = 0
BY LeftOut DEF Place

LEMMA WindowFits ==
  ASSUME NEW w, IsWindow(w)
  PROVE  WindowBits(w) \in Byte /\ WindowBits(w) % 16 = WindowBits(w)
<1>1. PICK v \in Nat, u \in Nat : v = w.vstop % 4 /\ u = w.vstart % 4 /\ v < 4 /\ u < 4
  BY DEF IsWindow
<1>2. WindowBits(w) = v * 4 + u
  BY <1>1 DEF WindowBits
<1>3. v * 4 + u \in Nat /\ v * 4 + u < 16 /\ (v * 4 + u) % 16 = v * 4 + u
  BY <1>1, SMT
<1> QED
  BY <1>2, <1>3, Bytes

\* A masked write has read its register: what it writes.
LEMMA ModifyInPlace ==
  ASSUME NEW c, NEW w, NEW r \in [Registers -> Byte], NEW b, NEW k \in Nat, NEW l, NEW t,
         Fixes(c), IsWindow(w), Follows(c, k, l), SetUp(c, w, r, b, k), SetupAt(c, w, t, k),
         t.op = "modify"
  PROVE  HalfAt(c, w, wr_reg(t.reg, Masked(r[t.reg], t.dat, t.msk)), k)
<1>1. k \in 6 .. 13 /\ t \in Transfers
  BY DEF SetupAt, Follows, Reads
<1>2. t.reg \in Registers /\ t.dat \in Byte /\ t.msk \in Byte /\ r[t.reg] \in Byte
  BY <1>1 DEF Transfers, Byte
<1> DEFINE d == Masked(r[t.reg], t.dat, t.msk)
           h == wr_reg(t.reg, d)
<1>3. d \in Byte
  BY <1>2, MaskedByte
<1>4. d % 256 = d /\ d \in Int
  BY <1>3 DEF Byte
<1>5. h \in Transfers /\ h.op = "write" /\ h.reg = t.reg /\ h.dat = d
  BY <1>2, <1>4, IsTransfer
<1>6. /\ r["VREF"] \in Byte /\ r["COM8"] \in Byte /\ r["COM1"] \in Byte /\ r["AECH"] \in Byte
      /\ r["AECHH"] \in Byte /\ r["GAIN"] \in Byte
  BY DEF Registers
<1>0. SUFFICES HalfAt(c, w, h, k)
  OBVIOUS
<1> HIDE DEF h, d
<1>7. CASE k = 13
  <2>1. t.reg = "VREF" /\ d = Masked(r["VREF"], WindowBits(w), 15)
    BY <1>7 DEF SetupAt, Masks, d
  <2>2. d % 16 = WindowBits(w)
    BY <1>6, <2>1, MaskedFields, WindowFits
  <2> QED
    BY <1>1, <1>5, <1>7, <2>1, <2>2 DEF HalfAt
<1>8. CASE k = 12
  <2>1. t.reg = "COM8" /\ d = Masked(r["COM8"], IF c.aec THEN 1 ELSE 0, 1)
    BY <1>8 DEF SetupAt, Masks, d
  <2>2. ~c.aec => Bit(d, 1) = 0
    BY <1>6, <2>1, MaskedFlags
  <2> QED
    BY <1>1, <1>5, <1>8, <2>1, <2>2 DEF HalfAt
<1>9. CASE k = 11
  <2>1. t.reg = "COM1" /\ d = Masked(r["COM1"], c.exposure % 256, 3)
    BY <1>9 DEF SetupAt, Masks, d
  <2>2. PICK e \in Nat : e = c.exposure
    BY DEF Fixes
  <2>3. e % 256 \in Byte /\ (e % 256) % 4 = e % 4
    BY DEF Byte
  <2>4. d % 4 = c.exposure % 4
    BY <1>6, <2>1, <2>2, <2>3, MaskedFields
  <2> QED
    BY <1>1, <1>5, <1>9, <2>1, <2>4 DEF HalfAt
<1>10. CASE k = 10
  <2>1. t.reg = "AECH" /\ d = Masked(r["AECH"], (c.exposure \div 4) % 256, 255)
    BY <1>10 DEF SetupAt, Masks, d
  <2>2. PICK e \in Nat : e = c.exposure
    BY DEF Fixes
  <2>3. e \div 4 \in Int
    BY SMT
  <2>4. (c.exposure \div 4) % 256 \in Byte
    BY <2>2, <2>3, Bytes
  <2>5. d = (c.exposure \div 4) % 256
    BY <1>6, <2>1, <2>4, MaskedFields
  <2> QED
    BY <1>1, <1>5, <1>10, <2>1, <2>5 DEF HalfAt
<1>11. CASE k = 9
  <2>1. t.reg = "AECHH" /\ d = Masked(r["AECHH"], c.exposure \div 1024, 63)
    BY <1>11 DEF SetupAt, Masks, d
  <2>2. PICK e \in Nat : e = c.exposure /\ e < 65536
    BY DEF Fixes
  <2>3. e \div 1024 \in Byte /\ e \div 1024 < 64
    BY <2>2, ExposureFields
  <2>4. (e \div 1024) % 64 = e \div 1024
    BY <2>3 DEF Byte
  <2>5. d % 64 = c.exposure \div 1024
    BY <1>6, <2>1, <2>2, <2>3, <2>4, MaskedFields
  <2> QED
    BY <1>1, <1>5, <1>11, <2>1, <2>5 DEF HalfAt
<1>12. CASE k = 8
  <2>1. t.reg = "COM8" /\ d = Masked(r["COM8"], IF c.agc THEN 4 ELSE 0, 4)
    BY <1>12 DEF SetupAt, Masks, d
  <2>2. ~c.agc => Bit(d, 4) = 0
    BY <1>6, <2>1, MaskedFlags
  <2>3. (IF c.agc THEN 4 ELSE 0) \in Byte
    BY DEF Byte
  <2>4. Bit(d, 1) = Bit(r["COM8"], 1)
    BY <1>6, <2>1, <2>3, MaskedFlags
  <2>5. ~c.aec => Bit(d, 1) = 0
    BY <1>12, <2>4 DEF SetUp
  <2> QED
    BY <1>1, <1>5, <1>12, <2>1, <2>2, <2>5 DEF HalfAt
<1>13. CASE k = 7
  <2>1. t.reg = "GAIN" /\ d = Masked(r["GAIN"], gain_bits(c.gain), 255)
    BY <1>13 DEF SetupAt, Masks, d
  <2>2. d = gain_bits(c.gain)
    BY <1>6, <2>1, MaskedFields, GainFields DEF Fixes
  <2> QED
    BY <1>1, <1>5, <1>13, <2>1, <2>2 DEF HalfAt
<1>14. CASE k = 6
  <2>1. t.reg = "VREF" /\ d = Masked(r["VREF"], vref_bits(c.gain), 192)
    BY <1>14 DEF SetupAt, Masks, d
  <2>2. d % 16 = r["VREF"] % 16 /\ d \div 64 = vref_bits(c.gain) \div 64
    BY <1>6, <2>1, MaskedFields, GainFields DEF Fixes
  <2>3. r["VREF"] % 16 = WindowBits(w)
    BY <1>14 DEF SetUp
  <2> QED
    BY <1>1, <1>5, <1>14, <2>1, <2>2, <2>3 DEF HalfAt
<1> QED
  BY <1>1, <1>7, <1>8, <1>9, <1>10, <1>11, <1>12, <1>13, <1>14

\* A write in its place.
LEMMA WriteInPlace ==
  ASSUME NEW c, NEW w, NEW r \in [Registers -> Byte], NEW b, NEW k \in Nat, NEW l \in Nat, NEW t,
         Fixes(c), Follows(c, k, l), SetUp(c, w, r, b, k),
         SetupAt(c, w, t, k) \/ HalfAt(c, w, t, k), t.op = "write"
  PROVE  SetUp(c, w, [r EXCEPT ![t.reg] = t.dat], b, l)
<1> DEFINE s == [r EXCEPT ![t.reg] = t.dat]
<1>1. /\ t.reg \in Registers
      /\ s[t.reg] = t.dat /\ \A reg \in Registers : reg # t.reg => s[reg] = r[reg]
  <2>1. t \in Transfers
    BY DEF SetupAt, HalfAt
  <2>2. t.reg \in Registers
    BY <2>1 DEF Transfers
  <2> QED
    BY <2>2
<1> SUFFICES SetUp(c, w, s, b, l)
  OBVIOUS
<1> HIDE DEF s
<1>2. k >= 14 \/ (k \in 6 .. 13 /\ HalfAt(c, w, t, k))
  BY DEF SetupAt, HalfAt, Reads, Masks, Follows
<1>3. CASE k >= 14
  <2>1. l >= 13
    BY <1>3 DEF Follows
  <2> QED
    BY <2>1 DEF SetUp
<1>4. /\ s["VREF"] = IF t.reg = "VREF" THEN t.dat ELSE r["VREF"]
      /\ s["COM8"] = IF t.reg = "COM8" THEN t.dat ELSE r["COM8"]
      /\ s["COM1"] = IF t.reg = "COM1" THEN t.dat ELSE r["COM1"]
      /\ s["AECH"] = IF t.reg = "AECH" THEN t.dat ELSE r["AECH"]
      /\ s["AECHH"] = IF t.reg = "AECHH" THEN t.dat ELSE r["AECHH"]
      /\ s["GAIN"] = IF t.reg = "GAIN" THEN t.dat ELSE r["GAIN"]
  BY <1>1 DEF Registers
<1>5. CASE k = 13 /\ HalfAt(c, w, t, k)
  BY <1>4, <1>5 DEF HalfAt, SetUp, Follows
<1>6. CASE k = 12 /\ HalfAt(c, w, t, k)
  BY <1>4, <1>6 DEF HalfAt, SetUp, Follows
<1>7. CASE k = 11 /\ HalfAt(c, w, t, k)
  BY <1>4, <1>7 DEF HalfAt, SetUp, Follows
<1>8. CASE k = 10 /\ HalfAt(c, w, t, k)
  BY <1>4, <1>8 DEF HalfAt, SetUp, Follows
<1>9. CASE k = 9 /\ HalfAt(c, w, t, k)
  BY <1>4, <1>9 DEF HalfAt, SetUp, Follows
<1>10. CASE k = 8 /\ HalfAt(c, w, t, k)
  BY <1>4, <1>10 DEF HalfAt, SetUp, Follows
<1>11. CASE k = 7 /\ HalfAt(c, w, t, k)
  BY <1>4, <1>11 DEF HalfAt, SetUp, Follows
<1>12. CASE k = 6 /\ HalfAt(c, w, t, k)
  BY <1>4, <1>12 DEF HalfAt, SetUp, Follows
<1> QED
  BY <1>2, <1>3, <1>5, <1>6, <1>7, <1>8, <1>9, <1>10, <1>11, <1>12

\* A read in its place.
LEMMA ReadInPlace ==
  ASSUME NEW c, NEW w, NEW r \in [Registers -> Byte], NEW b \in [Registers -> Byte],
         NEW k \in Nat, NEW l \in Nat, NEW t,
         Fixes(c), Follows(c, k, l), SetUp(c, w, r, b, k), SetupAt(c, w, t, k), t.op = "read"
  PROVE  SetUp(c, w, r, [b EXCEPT ![t.reg] = r[t.reg]], l)
<1> DEFINE s == [b EXCEPT ![t.reg] = r[t.reg]]
<1>1. k \in 1 .. 5
  BY DEF SetupAt, Masks, Follows
<1>2. l = k - 1
  BY <1>1 DEF Follows
<1>3. t.reg = IF k = 1 THEN "VREF" ELSE IF k = 2 THEN "GAIN" ELSE IF k = 3 THEN "AECHH"
              ELSE IF k = 4 THEN "AECH" ELSE "COM1"
  BY <1>1 DEF SetupAt, Reads
<1>4. /\ s["VREF"] = IF t.reg = "VREF" THEN r["VREF"] ELSE b["VREF"]
      /\ s["GAIN"] = IF t.reg = "GAIN" THEN r["GAIN"] ELSE b["GAIN"]
      /\ s["AECHH"] = IF t.reg = "AECHH" THEN r["AECHH"] ELSE b["AECHH"]
      /\ s["AECH"] = IF t.reg = "AECH" THEN r["AECH"] ELSE b["AECH"]
      /\ s["COM1"] = IF t.reg = "COM1" THEN r["COM1"] ELSE b["COM1"]
  BY DEF Registers
<1> SUFFICES SetUp(c, w, r, s, l)
  OBVIOUS
<1> HIDE DEF s
<1>5. CASE k = 5
  BY <1>2, <1>3, <1>4, <1>5 DEF SetUp
<1>6. CASE k = 4
  BY <1>2, <1>3, <1>4, <1>6 DEF SetUp
<1>7. CASE k = 3
  BY <1>2, <1>3, <1>4, <1>7 DEF SetUp
<1>8. CASE k = 2
  BY <1>2, <1>3, <1>4, <1>8 DEF SetUp
<1>9. CASE k = 1
  BY <1>2, <1>3, <1>4, <1>9 DEF SetUp
<1> QED
  BY <1>1, <1>5, <1>6, <1>7, <1>8, <1>9

\* What the sensor sets by itself, once the loop is off, is none of what the configuration
\* fixes, nor the window in the low bits of VREF.
Adjusts(r, s) ==
  \/ /\ Bit(r.COM8, 1) = 1
     /\ \E x \in Byte, y1 \in Byte, z \in Byte :
          s = [r EXCEPT !.COM1 = Masked(@, x, 3), !.AECH = y1, !.AECHH = Masked(@, z, 63)]
  \/ /\ Bit(r.COM8, 4) = 1
     /\ \E x \in Byte, y1 \in Byte : s = [r EXCEPT !.GAIN = x, !.VREF = Masked(@, y1, 192)]
  \/ /\ Bit(r.COM8, 2) = 1
     /\ \E x \in Byte : s = [r EXCEPT !.RED = x]

LEMMA AdjustFields ==
  ASSUME NEW r \in [Registers -> Byte], NEW s, Adjusts(r, s)
  PROVE  /\ s \in [Registers -> Byte] /\ s.COM8 = r.COM8
         /\ s.VREF % 16 = r.VREF % 16
         /\ Bit(r.COM8, 1) = 0 => s.COM1 = r.COM1 /\ s.AECH = r.AECH /\ s.AECHH = r.AECHH
         /\ Bit(r.COM8, 4) = 0 => s.GAIN = r.GAIN /\ s.VREF = r.VREF
<1>1. /\ r["VREF"] \in Byte /\ r["COM8"] \in Byte /\ r["COM1"] \in Byte /\ r["AECH"] \in Byte
      /\ r["AECHH"] \in Byte /\ r["GAIN"] \in Byte
  BY DEF Registers
<1>2. ASSUME NEW x \in Byte, NEW y1 \in Byte, NEW z \in Byte, Bit(r.COM8, 1) = 1,
             s = [r EXCEPT !.COM1 = Masked(@, x, 3), !.AECH = y1, !.AECHH = Masked(@, z, 63)]
      PROVE  /\ s \in [Registers -> Byte] /\ s.COM8 = r.COM8 /\ s.VREF = r.VREF
             /\ s.GAIN = r.GAIN
  <2>1. Masked(r["COM1"], x, 3) \in Byte /\ Masked(r["AECHH"], z, 63) \in Byte
    <3>1. 3 \in Byte /\ 63 \in Byte
      BY DEF Byte
    <3> QED
      BY <1>1, <3>1, MaskedByte
  <2> QED
    BY <1>2, <2>1 DEF Registers
<1>3. ASSUME NEW x \in Byte, NEW y1 \in Byte, Bit(r.COM8, 4) = 1,
             s = [r EXCEPT !.GAIN = x, !.VREF = Masked(@, y1, 192)]
      PROVE  /\ s \in [Registers -> Byte] /\ s.COM8 = r.COM8 /\ s.VREF % 16 = r.VREF % 16
             /\ s.COM1 = r.COM1 /\ s.AECH = r.AECH /\ s.AECHH = r.AECHH
  <2>1. Masked(r["VREF"], y1, 192) \in Byte
    <3>1. 192 \in Byte
      BY DEF Byte
    <3> QED
      BY <1>1, <3>1, MaskedByte
  <2>2. Masked(r["VREF"], y1, 192) % 16 = r["VREF"] % 16
    BY <1>1, MaskedFields
  <2> QED
    BY <1>3, <2>1, <2>2 DEF Registers
<1>4. ASSUME NEW x \in Byte, s = [r EXCEPT !.RED = x]
      PROVE  /\ s \in [Registers -> Byte] /\ s.COM8 = r.COM8 /\ s.VREF = r.VREF
             /\ s.GAIN = r.GAIN /\ s.COM1 = r.COM1 /\ s.AECH = r.AECH /\ s.AECHH = r.AECHH
  BY <1>4 DEF Registers
<1>5. CASE /\ Bit(r.COM8, 1) = 1
           /\ \E x \in Byte, y1 \in Byte, z \in Byte :
                s = [r EXCEPT !.COM1 = Masked(@, x, 3), !.AECH = y1, !.AECHH = Masked(@, z, 63)]
  <2>1. PICK x \in Byte, y1 \in Byte, z \in Byte :
          s = [r EXCEPT !.COM1 = Masked(@, x, 3), !.AECH = y1, !.AECHH = Masked(@, z, 63)]
    BY <1>5
  <2>2. /\ s \in [Registers -> Byte] /\ s.COM8 = r.COM8 /\ s.VREF = r.VREF
        /\ s.GAIN = r.GAIN
    BY <1>2, <1>5, <2>1
  <2> QED
    BY <1>5, <2>2
<1>6. CASE /\ Bit(r.COM8, 4) = 1
           /\ \E x \in Byte, y1 \in Byte :
                s = [r EXCEPT !.GAIN = x, !.VREF = Masked(@, y1, 192)]
  <2>1. PICK x \in Byte, y1 \in Byte : s = [r EXCEPT !.GAIN = x, !.VREF = Masked(@, y1, 192)]
    BY <1>6
  <2>2. /\ s \in [Registers -> Byte] /\ s.COM8 = r.COM8 /\ s.VREF % 16 = r.VREF % 16
        /\ s.COM1 = r.COM1 /\ s.AECH = r.AECH /\ s.AECHH = r.AECHH
    BY <1>3, <1>6, <2>1
  <2> QED
    BY <1>6, <2>2
<1>7. CASE \E x \in Byte : s = [r EXCEPT !.RED = x]
  BY <1>4, <1>7
<1> QED
  BY <1>5, <1>6, <1>7 DEF Adjusts

LEMMA AdjustInPlace ==
  ASSUME NEW c, NEW w, NEW r \in [Registers -> Byte], NEW s, NEW b, NEW k \in Nat,
         Adjusts(r, s), SetUp(c, w, r, b, k)
  PROVE  SetUp(c, w, s, b, k)
<1>1. /\ s.COM8 = r.COM8 /\ s.VREF % 16 = r.VREF % 16
      /\ Bit(r.COM8, 1) = 0 => s.COM1 = r.COM1 /\ s.AECH = r.AECH /\ s.AECHH = r.AECHH
      /\ Bit(r.COM8, 4) = 0 => s.GAIN = r.GAIN /\ s.VREF = r.VREF
  BY AdjustFields
<1> QED
  BY <1>1 DEF SetUp

LEMMA RestOfQueue ==
  ASSUME NEW S, NEW s \in Seq(S), s # <<>>
  PROVE  /\ Len(s) \in Nat /\ Len(s) >= 1 /\ Head(s) = s[1] /\ s[1] \in S
         /\ Tail(s) \in Seq(S) /\ Len(Tail(s)) = Len(s) - 1
         /\ \A i \in 1 .. Len(s) - 1 : Tail(s)[i] = s[i + 1]
OBVIOUS

LEMMA Replaced ==
  ASSUME NEW S, NEW s \in Seq(S), s # <<>>, NEW t \in S
  PROVE  /\ <<t>> \o Tail(s) \in Seq(S) /\ Len(<<t>> \o Tail(s)) = Len(s)
         /\ (<<t>> \o Tail(s))[1] = t
         /\ \A i \in 2 .. Len(s) : (<<t>> \o Tail(s))[i] = s[i]
<1> DEFINE a == <<t>>
           u == Tail(s)
<1>1. a \in Seq(S) /\ Len(a) = 1 /\ a[1] = t
  OBVIOUS
<1>2. /\ Len(s) \in Nat /\ Len(s) >= 1 /\ u \in Seq(S) /\ Len(u) = Len(s) - 1
      /\ \A i \in 1 .. Len(s) - 1 : u[i] = s[i + 1]
  BY RestOfQueue
<1> HIDE DEF a, u
<1>0. a \in Seq(S) /\ u \in Seq(S)
  BY <1>1, <1>2
<1>5. /\ a \o u \in Seq(S) /\ Len(a \o u) = Len(a) + Len(u)
      /\ \A i \in 1 .. Len(a) : (a \o u)[i] = a[i]
      /\ \A i \in 1 .. Len(u) : (a \o u)[Len(a) + i] = u[i]
  BY <1>0, Joined
<1>3. a \o u \in Seq(S) /\ Len(a \o u) = Len(s) /\ (a \o u)[1] = t
  BY <1>1, <1>2, <1>5
<1>4. ASSUME NEW i \in 2 .. Len(s) PROVE (a \o u)[i] = s[i]
  <2>1. PICK j \in 1 .. Len(u) : j = i - 1
    <3>1. i - 1 \in 1 .. Len(u)
      BY <1>2
    <3> QED
      BY <3>1
  <2>2. (a \o u)[Len(a) + j] = u[j]
    BY <1>5, <2>1
  <2>3. Len(a) + j = i /\ j + 1 = i /\ j \in 1 .. Len(s) - 1
    BY <1>1, <1>2, <2>1
  <2> QED
    BY <1>2, <2>2, <2>3
<1> QED
  BY <1>3, <1>4 DEF a, u

-----------------------------------------------------------------------------
(* The setup and the freezing, transfer by transfer *)

\* What is left of the setup, s, when the registers are r and b has been read back.
InSetup(c, w, s, r, b) ==
  /\ s \in Seq(Transfers)
  /\ \A i \in 2 .. Len(s) : SetupAt(c, w, s[i], Place(c, Len(s) - i + 1))
  /\ s # <<>> => \/ SetupAt(c, w, s[1], Place(c, Len(s)))
                 \/ HalfAt(c, w, s[1], Place(c, Len(s)))
  /\ SetUp(c, w, r, b, Place(c, Len(s)))

LEMMA SetupBegins ==
  ASSUME NEW c, NEW w, NEW r, NEW b, Fixes(c), IsWindow(w)
  PROVE  InSetup(c, w, ov7675_init(c, w), r, b)
<1> DEFINE s == ov7675_init(c, w)
<1>1. s \in Seq(Transfers) /\ Len(s) \in Nat
      /\ \A i \in 1 .. Len(s) : SetupAt(c, w, s[i], Place(c, 0 + Len(s) - i + 1))
  BY InitPlan DEF Plan
<1>2. Place(c, Len(s)) = 21
  BY InitPlan
<1> HIDE DEF s
<1>3. ASSUME NEW i \in 1 .. Len(s) PROVE SetupAt(c, w, s[i], Place(c, Len(s) - i + 1))
  <2>1. 0 + Len(s) - i + 1 = Len(s) - i + 1
    BY <1>1
  <2> QED
    BY <1>1, <2>1
<1>4. s # <<>> => SetupAt(c, w, s[1], Place(c, Len(s)))
  <2> SUFFICES ASSUME s # <<>> PROVE SetupAt(c, w, s[1], Place(c, Len(s)))
    OBVIOUS
  <2>1. Len(s) >= 1
    BY <1>1, RestOfQueue
  <2>2. 1 \in 1 .. Len(s) /\ Len(s) - 1 + 1 = Len(s)
    BY <1>1, <2>1
  <2> QED
    BY <1>3, <2>2
<1>5. PICK k \in Nat : k = Place(c, Len(s)) /\ k >= 13
  BY <1>2
<1>6. SetUp(c, w, r, b, k)
  BY <1>5 DEF SetUp
<1>7. InSetup(c, w, s, r, b)
  BY <1>1, <1>3, <1>4, <1>5, <1>6 DEF InSetup
<1> QED
  BY <1>7 DEF s

LEMMA SetupTransfer ==
  ASSUME NEW c, NEW w, NEW s, NEW r \in [Registers -> Byte], NEW b \in [Registers -> Byte],
         Fixes(c), IsWindow(w), InSetup(c, w, s, r, b), s # <<>>, NEW t, t = Head(s)
  PROVE  /\ t.op = "write" => InSetup(c, w, Tail(s), [r EXCEPT ![t.reg] = t.dat], b)
         /\ t.op = "modify"
              => InSetup(c, w, <<wr_reg(t.reg, Masked(r[t.reg], t.dat, t.msk))>> \o Tail(s), r, b)
         /\ t.op = "read" => InSetup(c, w, Tail(s), r, [b EXCEPT ![t.reg] = r[t.reg]])
         /\ t.op # "vsync"
<1>1. s \in Seq(Transfers)
  BY DEF InSetup
<1>2. /\ Len(s) \in Nat /\ Len(s) >= 1 /\ t = s[1] /\ t \in Transfers
      /\ Tail(s) \in Seq(Transfers) /\ Len(Tail(s)) = Len(s) - 1
      /\ \A i \in 1 .. Len(s) - 1 : Tail(s)[i] = s[i + 1]
  BY <1>1, RestOfQueue
<1> DEFINE k == Place(c, Len(s))
           l == Place(c, Len(s) - 1)
<1>3. /\ Follows(c, k, l)
      /\ SetupAt(c, w, t, k) \/ HalfAt(c, w, t, k)
      /\ SetUp(c, w, r, b, k)
      /\ \A i \in 2 .. Len(s) : SetupAt(c, w, s[i], Place(c, Len(s) - i + 1))
  BY <1>2, PlaceNext DEF InSetup
<1>4. k \in Nat /\ l \in Nat /\ k >= 1
  BY <1>3 DEF Follows
<1>5. ASSUME NEW r2, NEW b2, SetUp(c, w, r2, b2, l)
      PROVE  InSetup(c, w, Tail(s), r2, b2)
  <2>1. PICK u \in Seq(Transfers) : u = Tail(s) /\ Len(u) = Len(s) - 1
    BY <1>2
  <2>2. ASSUME NEW i \in 1 .. Len(u) PROVE SetupAt(c, w, u[i], Place(c, Len(u) - i + 1))
    <3>1. PICK j \in 2 .. Len(s) : j = i + 1
      <4>1. i + 1 \in 2 .. Len(s)
        BY <1>2, <2>1
      <4> QED
        BY <4>1
    <3>2. i \in 1 .. Len(s) - 1 /\ Len(s) - j + 1 = Len(u) - i + 1
      BY <1>2, <2>1, <3>1
    <3>3. u[i] = s[j]
      BY <1>2, <2>1, <3>1, <3>2
    <3> QED
      BY <1>3, <3>1, <3>2, <3>3
  <2>3. u # <<>> => SetupAt(c, w, u[1], Place(c, Len(u)))
    <3> SUFFICES ASSUME u # <<>> PROVE SetupAt(c, w, u[1], Place(c, Len(u)))
      OBVIOUS
    <3>1. Len(u) \in Nat /\ Len(u) >= 1
      BY RestOfQueue
    <3>2. 1 \in 1 .. Len(u) /\ Len(u) - 1 + 1 = Len(u)
      BY <3>1
    <3> QED
      BY <2>2, <3>2
  <2>4. InSetup(c, w, u, r2, b2)
    BY <1>5, <2>1, <2>2, <2>3 DEF InSetup
  <2> QED
    BY <2>1, <2>4
<1>6. ASSUME t.op = "modify"
      PROVE  InSetup(c, w, <<wr_reg(t.reg, Masked(r[t.reg], t.dat, t.msk))>> \o Tail(s), r, b)
  <2>1. SetupAt(c, w, t, k)
    BY <1>3, <1>6 DEF HalfAt
  <2> DEFINE h == wr_reg(t.reg, Masked(r[t.reg], t.dat, t.msk))
             u == <<h>> \o Tail(s)
  <2>2. HalfAt(c, w, h, k)
    BY <1>3, <1>4, <1>6, <2>1, ModifyInPlace
  <2>3. h \in Transfers
    BY <2>2 DEF HalfAt
  <2> HIDE DEF h
  <2>4. /\ u \in Seq(Transfers) /\ Len(u) = Len(s) /\ u[1] = h
        /\ \A i \in 2 .. Len(s) : u[i] = s[i]
    BY <1>1, <2>3, Replaced
  <2> HIDE DEF u
  <2>5. InSetup(c, w, u, r, b)
    BY <1>3, <2>2, <2>4 DEF InSetup
  <2> QED
    BY <2>5 DEF u, h
<1>7. ASSUME t.op = "write"
      PROVE  InSetup(c, w, Tail(s), [r EXCEPT ![t.reg] = t.dat], b)
  <2>1. SetUp(c, w, [r EXCEPT ![t.reg] = t.dat], b, l)
    BY <1>3, <1>4, <1>7, WriteInPlace
  <2> QED
    BY <1>5, <2>1
<1>8. ASSUME t.op = "read"
      PROVE  InSetup(c, w, Tail(s), r, [b EXCEPT ![t.reg] = r[t.reg]])
  <2>1. SetupAt(c, w, t, k)
    BY <1>3, <1>8 DEF HalfAt
  <2>2. SetUp(c, w, r, [b EXCEPT ![t.reg] = r[t.reg]], l)
    BY <1>3, <1>4, <1>8, <2>1, ReadInPlace
  <2> QED
    BY <1>5, <2>2
<1>9. t.op # "vsync"
  <2>1. CASE HalfAt(c, w, t, k)
    BY <2>1 DEF HalfAt
  <2>2. CASE SetupAt(c, w, t, k)
    <3> HIDE DEF k
    <3>1. k \in 1 .. 5 \/ k \in 6 .. 13 \/ k >= 14
      BY <1>4
    <3>2. t.op = "read" \/ t.op = "modify" \/ t.op = "write"
      BY <2>2, <3>1 DEF SetupAt, Reads, Masks
    <3> QED
      BY <3>2
  <2> QED
    BY <1>3, <2>1, <2>2
<1> QED
  BY <1>6, <1>7, <1>8, <1>9

\* The freezing has four transfers: with n to go, the loops of the ones through are off.
Stopped(r, n) ==
  /\ n < 4 => Bit(r.COM8, 1) = 0
  /\ n < 3 => Bit(r.COM8, 4) = 0
  /\ n < 2 => Bit(r.COM8, 2) = 0

FreezeAt(t, n) ==
  /\ t \in Transfers
  /\ n = 4 => Masks(t, "COM8", 0, 1)
  /\ n = 3 => Masks(t, "COM8", 0, 4)
  /\ n = 2 => Masks(t, "COM8", 0, 2)
  /\ n = 1 => t.op = "vsync"

HalfFrozen(c, t, n) ==
  /\ t \in Transfers /\ t.op = "write" /\ t.reg = "COM8" /\ n \in 2 .. 4
  /\ Bit(t.dat, 1) = 0
  /\ n < 4 \/ ~c.agc => Bit(t.dat, 4) = 0
  /\ n < 3 => Bit(t.dat, 2) = 0

InFreeze(c, w, s, r, b) ==
  /\ s \in Seq(Transfers) /\ Len(s) <= 4
  /\ \A i \in 2 .. Len(s) : FreezeAt(s[i], Len(s) - i + 1)
  /\ s # <<>> => FreezeAt(s[1], Len(s)) \/ HalfFrozen(c, s[1], Len(s))
  /\ SetUp(c, w, r, b, 0)
  /\ Stopped(r, Len(s))

LEMMA FreezeBegins ==
  ASSUME NEW c, NEW w, NEW r, NEW b, SetUp(c, w, r, b, 0)
  PROVE  InFreeze(c, w, Freeze, r, b)
<1> DEFINE a1 == aec(FALSE)
           a2 == agc(FALSE)
           a3 == awb(FALSE)
           s == Freeze
<1>1. /\ a1 \in Transfers /\ Masks(a1, "COM8", 0, 1)
      /\ a2 \in Transfers /\ Masks(a2, "COM8", 0, 4)
      /\ a3 \in Transfers /\ Masks(a3, "COM8", 0, 2)
  <2>1. 0 \in Byte /\ 1 \in Byte /\ 2 \in Byte /\ 4 \in Byte /\ "COM8" \in Registers
    BY DEF Byte, Registers
  <2>2. /\ a1 = wr_msk_reg("COM8", 0, 1)
        /\ a2 = wr_msk_reg("COM8", 0, 4)
        /\ a3 = wr_msk_reg("COM8", 0, 2)
    BY DEF aec, agc, awb, write_flag, cl_reg, COM8_AEC, COM8_AGC, COM8_AWB
  <2> HIDE DEF a1, a2, a3
  <2> QED
    BY <2>1, <2>2, Modifies
<1>2. Vsync \in Transfers /\ Vsync.op = "vsync"
  BY IsTransfer
<1>3. s = <<a1, a2, a3, Vsync>>
  BY DEF Freeze
<1> HIDE DEF a1, a2, a3, s
<1>4. s \in Seq(Transfers) /\ Len(s) = 4 /\ s[1] = a1 /\ s[2] = a2 /\ s[3] = a3 /\ s[4] = Vsync
  BY <1>1, <1>2, <1>3
<1>5. ASSUME NEW i \in 1 .. 4 PROVE FreezeAt(s[i], 4 - i + 1)
  <2>1. PICK n \in Nat : n = 4 - i + 1
    OBVIOUS
  <2>2. \/ i = 1 /\ n = 4
        \/ i = 2 /\ n = 3
        \/ i = 3 /\ n = 2
        \/ i = 4 /\ n = 1
    BY <2>1
  <2>3. FreezeAt(s[i], n)
    BY <1>1, <1>2, <1>4, <2>2 DEF FreezeAt
  <2> QED
    BY <2>1, <2>3
<1>6. FreezeAt(s[1], Len(s)) /\ Stopped(r, Len(s)) /\ Len(s) <= 4
  <2>1. PICK n \in Nat : n = 4
    OBVIOUS
  <2>2. FreezeAt(s[1], n) /\ Stopped(r, n)
    BY <1>1, <1>4, <2>1 DEF FreezeAt, Stopped
  <2> QED
    BY <1>4, <2>1, <2>2
<1>7. \A i \in 2 .. Len(s) : FreezeAt(s[i], Len(s) - i + 1)
  BY <1>4, <1>5
<1> QED
  BY <1>4, <1>6, <1>7 DEF InFreeze, s

LEMMA FreezeWrites ==
  ASSUME NEW c, NEW w, NEW r \in [Registers -> Byte], NEW b, NEW n \in Nat, NEW t,
         SetUp(c, w, r, b, 0), Stopped(r, n), HalfFrozen(c, t, n)
  PROVE  /\ SetUp(c, w, [r EXCEPT ![t.reg] = t.dat], b, 0)
         /\ Stopped([r EXCEPT ![t.reg] = t.dat], n - 1)
<1> DEFINE s == [r EXCEPT ![t.reg] = t.dat]
<1>1. /\ s["COM8"] = t.dat /\ s["VREF"] = r["VREF"] /\ s["COM1"] = r["COM1"]
      /\ s["AECH"] = r["AECH"] /\ s["AECHH"] = r["AECHH"] /\ s["GAIN"] = r["GAIN"]
  BY DEF HalfFrozen, Registers
<1> HIDE DEF s
<1>2. SetUp(c, w, s, b, 0)
  BY <1>1 DEF SetUp, HalfFrozen
<1>3. Stopped(s, n - 1)
  BY <1>1 DEF Stopped, HalfFrozen
<1> QED
  BY <1>2, <1>3 DEF s

LEMMA FreezeModifies ==
  ASSUME NEW c, NEW w, NEW r \in [Registers -> Byte], NEW b, NEW n \in 1 .. 4, NEW t,
         SetUp(c, w, r, b, 0), Stopped(r, n), FreezeAt(t, n), t.op = "modify"
  PROVE  HalfFrozen(c, wr_reg(t.reg, Masked(r[t.reg], t.dat, t.msk)), n)
<1> DEFINE d == Masked(r[t.reg], t.dat, t.msk)
           h == wr_reg(t.reg, d)
<1>1. n \in 2 .. 4 /\ t.reg = "COM8" /\ t.dat = 0 /\ (n = 4 => t.msk = 1) /\ (n = 3 => t.msk = 4)
      /\ (n = 2 => t.msk = 2)
  BY DEF FreezeAt, Masks
<1>2. "COM8" \in Registers /\ r["COM8"] \in Byte /\ 0 \in Byte /\ t.msk \in Byte
  BY <1>1 DEF Registers, Byte
<1>3. d \in Byte
  BY <1>1, <1>2, MaskedByte
<1>4. d % 256 = d /\ d \in Int
  BY <1>3 DEF Byte
<1>5. /\ n = 4 => d = Masked(r["COM8"], 0, 1)
      /\ n = 3 => d = Masked(r["COM8"], 0, 4)
      /\ n = 2 => d = Masked(r["COM8"], 0, 2)
  BY <1>1
<1> HIDE DEF d
<1>6. h \in Transfers /\ h.op = "write" /\ h.reg = "COM8" /\ h.dat = d
  BY <1>1, <1>2, <1>4, IsTransfer
<1>0. SUFFICES HalfFrozen(c, h, n)
  BY DEF d
<1> HIDE DEF h
<1>7. CASE n = 4
  <2>1. Bit(d, 1) = 0 /\ Bit(d, 4) = Bit(r["COM8"], 4)
    BY <1>2, <1>5, <1>7, MaskedFlags
  <2> QED
    BY <1>6, <1>7, <2>1 DEF HalfFrozen, SetUp
<1>8. CASE n = 3
  <2>1. Bit(d, 4) = 0 /\ Bit(d, 1) = Bit(r["COM8"], 1)
    BY <1>2, <1>5, <1>8, MaskedFlags
  <2> QED
    BY <1>6, <1>8, <2>1 DEF HalfFrozen, Stopped
<1>9. CASE n = 2
  <2>1. Bit(d, 2) = 0 /\ Bit(d, 1) = Bit(r["COM8"], 1) /\ Bit(d, 4) = Bit(r["COM8"], 4)
    BY <1>2, <1>5, <1>9, MaskedFlags
  <2> QED
    BY <1>6, <1>9, <2>1 DEF HalfFrozen, Stopped
<1> QED
  BY <1>1, <1>7, <1>8, <1>9

LEMMA FreezeTransfer ==
  ASSUME NEW c, NEW w, NEW s, NEW r \in [Registers -> Byte], NEW b,
         InFreeze(c, w, s, r, b), s # <<>>, NEW t, t = Head(s)
  PROVE  /\ t.op = "write" => /\ InFreeze(c, w, Tail(s), [r EXCEPT ![t.reg] = t.dat], b)
                              /\ Tail(s) # <<>>
         /\ t.op = "modify"
              => LET u == <<wr_reg(t.reg, Masked(r[t.reg], t.dat, t.msk))>> \o Tail(s)
                 IN  InFreeze(c, w, u, r, b) /\ u # <<>>
         /\ t.op # "read"
         /\ t.op = "vsync" => InFreeze(c, w, Tail(s), r, b)
<1>1. s \in Seq(Transfers)
  BY DEF InFreeze
<1>2. /\ Len(s) \in Nat /\ Len(s) >= 1 /\ t = s[1] /\ t \in Transfers
      /\ Tail(s) \in Seq(Transfers) /\ Len(Tail(s)) = Len(s) - 1
      /\ \A i \in 1 .. Len(s) - 1 : Tail(s)[i] = s[i + 1]
  BY <1>1, RestOfQueue
<1>3. PICK n \in 1 .. 4 : n = Len(s)
  BY <1>2 DEF InFreeze
<1>4. /\ FreezeAt(t, n) \/ HalfFrozen(c, t, n)
      /\ SetUp(c, w, r, b, 0) /\ Stopped(r, n)
      /\ \A i \in 2 .. Len(s) : FreezeAt(s[i], Len(s) - i + 1)
  BY <1>2, <1>3 DEF InFreeze
<1>5. ASSUME NEW r2, SetUp(c, w, r2, b, 0), Stopped(r2, n - 1)
      PROVE  InFreeze(c, w, Tail(s), r2, b)
  <2>1. PICK u \in Seq(Transfers) : u = Tail(s) /\ Len(u) = Len(s) - 1
    BY <1>2
  <2>2. ASSUME NEW i \in 1 .. Len(u) PROVE FreezeAt(u[i], Len(u) - i + 1)
    <3>1. PICK j \in 2 .. Len(s) : j = i + 1
      <4>1. i + 1 \in 2 .. Len(s)
        BY <1>2, <2>1
      <4> QED
        BY <4>1
    <3>2. i \in 1 .. Len(s) - 1 /\ Len(s) - j + 1 = Len(u) - i + 1
      BY <1>2, <2>1, <3>1
    <3>3. u[i] = s[j]
      BY <1>2, <2>1, <3>1, <3>2
    <3> QED
      BY <1>4, <3>1, <3>2, <3>3
  <2>3. u # <<>> => FreezeAt(u[1], Len(u))
    <3> SUFFICES ASSUME u # <<>> PROVE FreezeAt(u[1], Len(u))
      OBVIOUS
    <3>1. Len(u) \in Nat /\ Len(u) >= 1
      BY RestOfQueue
    <3>2. 1 \in 1 .. Len(u) /\ Len(u) - 1 + 1 = Len(u)
      BY <3>1
    <3> QED
      BY <2>2, <3>2
  <2>4. Len(u) = n - 1 /\ Len(u) <= 4
    <3>1. Len(u) = n - 1
      BY <1>3, <2>1
    <3> QED
      BY <3>1
  <2>5. \A i \in 2 .. Len(u) : FreezeAt(u[i], Len(u) - i + 1)
    BY <2>2, <2>4, <1>3
  <2>6. InFreeze(c, w, u, r2, b)
    BY <1>5, <2>1, <2>3, <2>4, <2>5 DEF InFreeze
  <2> QED
    BY <2>1, <2>6
<1>6. ASSUME t.op = "modify"
      PROVE  LET u == <<wr_reg(t.reg, Masked(r[t.reg], t.dat, t.msk))>> \o Tail(s)
             IN  InFreeze(c, w, u, r, b) /\ u # <<>>
  <2>1. FreezeAt(t, n)
    BY <1>4, <1>6 DEF HalfFrozen
  <2> DEFINE h == wr_reg(t.reg, Masked(r[t.reg], t.dat, t.msk))
             u == <<h>> \o Tail(s)
  <2>2. HalfFrozen(c, h, n)
    BY <1>4, <1>6, <2>1, FreezeModifies
  <2>3. h \in Transfers
    BY <2>2 DEF HalfFrozen
  <2> HIDE DEF h
  <2>4. /\ u \in Seq(Transfers) /\ Len(u) = Len(s) /\ u[1] = h
        /\ \A i \in 2 .. Len(s) : u[i] = s[i]
    BY <1>1, <2>3, Replaced
  <2> HIDE DEF u
  <2>5. InFreeze(c, w, u, r, b)
    BY <1>3, <1>4, <2>2, <2>4 DEF InFreeze
  <2>6. u # <<>>
    <3>1. Len(<<>>) = 0 /\ Len(u) # 0
      BY <1>2, <2>4
    <3> QED
      BY <3>1, Zenon
  <2> QED
    BY <2>5, <2>6 DEF u, h
<1>7. ASSUME t.op = "write"
      PROVE  InFreeze(c, w, Tail(s), [r EXCEPT ![t.reg] = t.dat], b) /\ Tail(s) # <<>>
  <2>1. HalfFrozen(c, t, n)
    BY <1>3, <1>4, <1>7 DEF FreezeAt, Masks
  <2>2. /\ SetUp(c, w, [r EXCEPT ![t.reg] = t.dat], b, 0)
        /\ Stopped([r EXCEPT ![t.reg] = t.dat], n - 1)
    <3>1. n \in Nat
      OBVIOUS
    <3> QED
      BY <1>4, <2>1, <3>1, FreezeWrites, Zenon
  <2>3. n >= 2
    BY <2>1 DEF HalfFrozen
  <2>4. Len(Tail(s)) # 0
    BY <1>2, <1>3, <2>3
  <2>5. Tail(s) # <<>>
    <3>1. Len(<<>>) = 0
      OBVIOUS
    <3> QED
      BY <2>4, <3>1, Zenon
  <2> QED
    BY <1>5, <2>2, <2>5
<1>8. t.op # "read"
  BY <1>3, <1>4 DEF FreezeAt, HalfFrozen, Masks
<1>9. ASSUME t.op = "vsync"
      PROVE  InFreeze(c, w, Tail(s), r, b)
  <2>1. n = 1
    BY <1>3, <1>4, <1>9 DEF FreezeAt, HalfFrozen, Masks
  <2>2. Stopped(r, n - 1)
    BY <1>4, <2>1 DEF Stopped
  <2> QED
    BY <1>4, <1>5, <2>2
<1> QED
  BY <1>6, <1>7, <1>8, <1>9

-----------------------------------------------------------------------------
(* The sensor in a capture *)

LEMMA SettingsAreKnown ==
  ASSUME regs \in [Registers -> Byte]
  PROVE  Settings \in KnownSettings /\ Settings # Unknown
<1>1. /\ regs["VREF"] \in Byte /\ regs["COM1"] \in Byte /\ regs["AECH"] \in Byte
      /\ regs["AECHH"] \in Byte /\ regs["GAIN"] \in Byte /\ regs["RED"] \in Byte
  BY DEF Registers
<1>2. PICK a \in Nat, b \in Nat, d \in Nat, g \in Nat, v \in Nat :
        /\ a = regs["COM1"] /\ b = regs["AECH"] /\ d = regs["AECHH"] /\ g = regs["GAIN"]
        /\ v = regs["VREF"]
        /\ a < 256 /\ b < 256 /\ d < 256 /\ g < 256 /\ v < 256
  BY <1>1, Bytes, SMTT(40)
<1>3. rd_exposure(regs) \in 0 .. MaxExposure
  <2>1. rd_exposure(regs) = (a % 4) + b * 4 + (d % 64) * 1024
    BY <1>2 DEF rd_exposure
  <2>2. (a % 4) + b * 4 + (d % 64) * 1024 \in Nat
    BY <1>2
  <2>3. (a % 4) + b * 4 + (d % 64) * 1024 < 65536
    BY <1>2
  <2>4. MaxExposure \in Nat /\ \A n \in Nat : n < 65536 => n <= MaxExposure
    BY DEF MaxExposure
  <2> QED
    BY <2>1, <2>2, <2>3, <2>4
<1>4. rd_gain(regs) \in [mantissa : 0 .. 15, exponent : 0 .. 6]
  <2>1. g % 16 \in 0 .. 15
    BY <1>2
  <2>2. popcnt(g \div 16) + popcnt(v \div 64) \in 0 .. 6
    <3>1. PICK m \in Nat, n \in Nat : m = g \div 16 /\ n = v \div 64 /\ m < 16 /\ n < 4
      BY <1>2
    <3>2. \A x \in Nat : x < 16 => /\ Bit(x, 1) \in {0, 1} /\ Bit(x, 2) \in {0, 1}
                                  /\ Bit(x, 4) \in {0, 1} /\ Bit(x, 8) \in {0, 1}
                                  /\ Bit(x, 16) = 0 /\ Bit(x, 32) = 0
                                  /\ Bit(x, 64) = 0 /\ Bit(x, 128) = 0
      BY DEF Bit
    <3>3. n < 16 /\ Bit(n, 4) = 0 /\ Bit(n, 8) = 0
      BY <3>1 DEF Bit
    <3>4. popcnt(m) \in 0 .. 4
      BY <3>1, <3>2 DEF popcnt
    <3>5. popcnt(n) \in 0 .. 2
      BY <3>1, <3>2, <3>3 DEF popcnt
    <3> QED
      BY <3>1, <3>4, <3>5
  <2>3. rd_gain(regs) = [mantissa |-> g % 16, exponent |-> popcnt(g \div 16) + popcnt(v \div 64)]
    BY <1>2 DEF rd_gain
  <2> QED
    BY <2>1, <2>2, <2>3
<1>5. regs.RED \in 0 .. 255
  BY <1>1 DEF Byte
<1>6. Settings \in KnownSettings
  BY <1>3, <1>4, <1>5 DEF Settings, KnownSettings
<1> QED
  BY <1>6, UnknownAssumption

LEMMA CallsAreTransfers ==
  /\ Freeze \in Seq(Transfers)
  /\ \A c \in Configs : Unfreeze(c) \in Seq(Transfers)
<1>1. 0 \in Byte /\ 1 \in Byte /\ 2 \in Byte /\ 4 \in Byte /\ "COM8" \in Registers
  BY DEF Byte, Registers
<1>2. \A on \in BOOLEAN : aec(on) \in Transfers /\ agc(on) \in Transfers /\ awb(on) \in Transfers
  BY <1>1, Modifies DEF aec, agc, awb, write_flag, cl_reg, se_reg, COM8_AEC, COM8_AGC, COM8_AWB
<1>3. Vsync \in Transfers
  BY IsTransfer
<1>4. Freeze \in Seq(Transfers)
  <2> DEFINE a == aec(FALSE)
             b == agc(FALSE)
             d == awb(FALSE)
             e == Vsync
  <2>1. a \in Transfers /\ b \in Transfers /\ d \in Transfers /\ e \in Transfers
    BY <1>2, <1>3
  <2>2. Freeze = <<a, b, d, e>>
    BY DEF Freeze
  <2> HIDE DEF a, b, d, e
  <2> QED
    BY <2>1, <2>2
<1>5. ASSUME NEW c \in Configs PROVE Unfreeze(c) \in Seq(Transfers)
  <2> DEFINE a == aec(c.aec)
             b == agc(c.agc)
             d == awb(TRUE)
  <2>1. a \in Transfers /\ b \in Transfers /\ d \in Transfers
    BY <1>2 DEF Configs
  <2>2. Unfreeze(c) = <<a, b, d>>
    BY DEF Unfreeze
  <2> HIDE DEF a, b, d
  <2> QED
    BY <2>1, <2>2
<1> QED
  BY <1>4, <1>5

LEMMA SensorMayAdjust ==
  ASSUME regs \in [Registers -> Byte], SensorAdjusts
  PROVE  Adjusts(regs, regs')
<1>1. CASE AdjustExposure
  <2>1. PICK time \in SensorExposures :
          regs' = [regs EXCEPT !.COM1 = Masked(@, time % 256, 3), !.AECH = (time \div 4) % 256,
                               !.AECHH = Masked(@, time \div 1024, 63)]
    BY <1>1 DEF AdjustExposure
  <2>2. time \in Nat /\ time < 65536
    <3>1. MaxExposure \in Nat /\ \A n \in Nat : n <= MaxExposure => n < 65536
      BY DEF MaxExposure
    <3>2. time \in 0 .. MaxExposure
      BY SensorAssumption
    <3> QED
      BY <3>1, <3>2
  <2>3. PICK x \in Byte, y1 \in Byte, z \in Byte :
          x = time % 256 /\ y1 = (time \div 4) % 256 /\ z = time \div 1024
    <3>1. time \div 4 \in Int
      BY <2>2
    <3> QED
      BY <2>2, <3>1, ExposureFields, Bytes
  <2>4. Bit(regs.COM8, 1) = 1
    BY <1>1 DEF AdjustExposure, On, COM8_AEC
  <2>5. regs' = [regs EXCEPT !.COM1 = Masked(@, x, 3), !.AECH = y1, !.AECHH = Masked(@, z, 63)]
    BY <2>1, <2>3
  <2> QED
    BY <2>4, <2>5, Zenon DEF Adjusts
<1>2. CASE AdjustGain
  <2>1. PICK gain \in SensorGains :
          regs' = [regs EXCEPT !.GAIN = gain_bits(gain),
                               !.VREF = Masked(@, vref_bits(gain), 192)]
    BY <1>2 DEF AdjustGain
  <2>2. gain \in Gains
    BY SensorAssumption DEF Gains
  <2>3. gain_bits(gain) \in Byte /\ vref_bits(gain) \in Byte
    BY <2>2, GainFields
  <2>4. Bit(regs.COM8, 4) = 1
    BY <1>2 DEF AdjustGain, On, COM8_AGC
  <2> QED
    BY <2>1, <2>3, <2>4, ZenonT(40) DEF Adjusts
<1>3. CASE AdjustWhite
  <2>1. PICK red \in SensorReds : regs' = [regs EXCEPT !.RED = red]
    BY <1>3 DEF AdjustWhite
  <2>2. red \in Byte
    BY SensorAssumption DEF Byte
  <2>3. Bit(regs.COM8, 2) = 1
    BY <1>3 DEF AdjustWhite, On, COM8_AWB
  <2> QED
    BY <2>1, <2>2, <2>3 DEF Adjusts
<1> QED
  BY <1>1, <1>2, <1>3 DEF SensorAdjusts

\* The configuration, and the types of what the sensor and its driver hold.
IShot == shot \in Shots /\ resolution \in Resolutions /\ resolution = shot.cfg.resolution

LEMMA ShotFixes ==
  ASSUME IShot
  PROVE  Fixes(shot.cfg) /\ IsWindow(resolution) /\ shot.cfg \in Configs
BY ConfigFixes, ShotAssumption, WindowAssumption DEF IShot, IsWindow

LEMMA ShotStep ==
  ASSUME IShot, [ImageNext]_imageVars
  PROVE  IShot'
<1>1. UNCHANGED shot
  BY DEF ImageNext, imageVars, BusTransfer, Adjusting, FreezeSensor, StartFrames, EndFrames, Call,
         WaitForVsync, FrameStep, Deinit, WriteStatus, EncodeStep
<1>2. UNCHANGED resolution
  BY ReadingSteps DEF Next, SkipLine, ReadLine, WriteBuffer, vars
<1> QED
  BY <1>1, <1>2 DEF IShot

LEMMA TypesOfTransfer ==
  ASSUME SensorTypeOK, SensorTransfer
  PROVE  SensorTypeOK'
<1>1. /\ regs \in [Registers -> Byte] /\ reading \in [Registers -> Byte]
      /\ todo \in Seq(Transfers) /\ latched \in SettingsSet /\ in_effect \in SettingsSet
  BY DEF SensorTypeOK, Byte
<1>2. todo # <<>>
  BY DEF SensorTransfer, SensorWrite, SensorModify, SensorRead, SensorVsync, Transfer
<1>3. Tail(todo) \in Seq(Transfers) /\ Head(todo) \in Transfers
  BY <1>1, <1>2, RestOfQueue
<1>4. /\ Head(todo).op = "write" => Head(todo).reg \in Registers /\ Head(todo).dat \in Byte
      /\ Head(todo).op = "modify" => /\ Head(todo).reg \in Registers /\ Head(todo).dat \in Byte
                                     /\ Head(todo).msk \in Byte
      /\ Head(todo).op = "read" => Head(todo).reg \in Registers
  <2>1. PICK t \in Transfers : t = Head(todo)
    BY <1>3
  <2>2. /\ t.op = "write" => t.reg \in Registers /\ t.dat \in Byte
        /\ t.op = "modify" => t.reg \in Registers /\ t.dat \in Byte /\ t.msk \in Byte
        /\ t.op = "read" => t.reg \in Registers
    BY DEF Transfers, Byte
  <2> QED
    BY <2>1, <2>2
<1>5. CASE SensorWrite
  <2>1. regs' \in [Registers -> Byte]
    BY <1>1, <1>4, <1>5 DEF SensorWrite, Transfer
  <2> QED
    BY <1>1, <1>3, <1>5, <2>1 DEF SensorWrite, SensorTypeOK, Byte
<1>6. CASE SensorModify
  <2> DEFINE t == Head(todo)
             m == Masked(regs[t.reg], t.dat, t.msk)
  <2>1. t.reg \in Registers /\ t.dat \in Byte /\ t.msk \in Byte
    BY <1>4, <1>6 DEF SensorModify, Transfer
  <2>2. m \in Byte
    BY <1>1, <2>1, MaskedByte
  <2>3. m \in Int
    BY <2>2, Bytes
  <2>4. wr_reg(t.reg, m) \in Transfers
    BY <2>1, <2>3, IsTransfer
  <2>5. <<wr_reg(t.reg, m)>> \o Tail(todo) \in Seq(Transfers)
    BY <1>1, <1>2, <2>4, Replaced
  <2>6. todo' = <<wr_reg(t.reg, m)>> \o Tail(todo)
    BY <1>6 DEF SensorModify
  <2>7. todo' \in Seq(Transfers)
    BY <2>5, <2>6
  <2> QED
    BY <1>1, <1>6, <2>7 DEF SensorModify, SensorTypeOK, Byte
<1>7. CASE SensorRead
  <2>1. reading' \in [Registers -> Byte]
    BY <1>1, <1>4, <1>7 DEF SensorRead, Transfer
  <2> QED
    BY <1>1, <1>3, <1>7, <2>1 DEF SensorRead, SensorTypeOK, Byte
<1>8. CASE SensorVsync
  <2>1. latched' \in SettingsSet /\ in_effect' \in SettingsSet
    BY <1>1, <1>8, SettingsAreKnown DEF SensorVsync, NextFrame, SettingsSet
  <2> QED
    BY <1>1, <1>3, <1>8, <2>1 DEF SensorVsync, SensorTypeOK, Byte
<1> QED
  BY <1>5, <1>6, <1>7, <1>8 DEF SensorTransfer

LEMMA ResetTypes ==
  ResetRegs \in [Registers -> 0 .. 255] /\ Unknown \in SettingsSet /\ <<>> \in Seq(Transfers)
BY DEF ResetRegs, Registers, SettingsSet

LEMMA SensorTypeStep ==
  ASSUME SensorTypeOK, IShot, [ImageNext]_imageVars
  PROVE  SensorTypeOK'
<1>1. regs \in [Registers -> Byte]
  BY DEF SensorTypeOK, Byte
<1>2. CASE BusTransfer
  BY <1>2, TypesOfTransfer DEF BusTransfer
<1>3. CASE Adjusting
  <2>1. regs' \in [Registers -> Byte]
    BY <1>1, <1>3, SensorMayAdjust, AdjustFields DEF Adjusting
  <2> QED
    BY <1>3, <2>1 DEF Adjusting, SensorAdjusts, SensorTypeOK, Byte
<1>4. CASE FreezeSensor \/ StartFrames \/ EndFrames
  <2>1. todo' \in Seq(Transfers)
    BY <1>4, CallsAreTransfers, ShotFixes, ResetTypes
    DEF FreezeSensor, StartFrames, EndFrames, Call
  <2> QED
    BY <1>4, <2>1 DEF FreezeSensor, StartFrames, EndFrames, Call, SensorTypeOK
<1>5. CASE WaitForVsync
  <2>1. latched' \in SettingsSet /\ in_effect' \in SettingsSet
    BY <1>1, <1>5, SettingsAreKnown DEF WaitForVsync, NextFrame, SettingsSet, SensorTypeOK
  <2> QED
    BY <1>5, <2>1 DEF WaitForVsync, SensorTypeOK
<1>6. CASE Deinit
  BY <1>6, ResetTypes DEF Deinit, SensorTypeOK
<1>7. CASE FrameStep \/ WriteStatus \/ EncodeStep \/ UNCHANGED imageVars
  BY <1>7 DEF FrameStep, WriteStatus, EncodeStep, imageVars, sensorVars, SensorTypeOK
<1> QED
  BY <1>2, <1>3, <1>4, <1>5, <1>6, <1>7 DEF ImageNext

\* How far the sensor is, by the stage of the capture: when the frames begin, no loop is on,
\* and what was latched with the loops off is what the registers keep saying.
ISetting == stage = "init" => InSetup(shot.cfg, resolution, todo, regs, reading)
IFreezing == stage = "freeze" => /\ InFreeze(shot.cfg, resolution, todo, regs, reading)
                                 /\ todo = <<>> => latched = Settings
IFrozen == stage = "frames" => /\ todo = <<>>
                               /\ SetUp(shot.cfg, resolution, regs, reading, 0)
                               /\ Stopped(regs, 0)
                               /\ latched = Settings
                               /\ synced => in_effect = Settings
                               /\ exposed \subseteq {Settings}
IExposed == /\ stage \in {"init", "freeze"} => exposed = {} /\ ~synced
            /\ Unknown \notin exposed
            /\ \E v : exposed \subseteq {v}
ISensor == ISetting /\ IFreezing /\ IFrozen /\ IExposed

LEMMA SensorByBus ==
  ASSUME SensorTypeOK, IShot, ISensor, BusTransfer
  PROVE  ISensor'
<1>1. /\ regs \in [Registers -> Byte] /\ reading \in [Registers -> Byte]
      /\ Fixes(shot.cfg) /\ IsWindow(resolution)
  BY ShotFixes DEF SensorTypeOK, Byte
<1>2. /\ UNCHANGED <<stage, shot, resolution, synced, exposed>> /\ todo # <<>>
      /\ SensorTransfer
  BY DEF BusTransfer, vars, SensorTransfer, SensorWrite, SensorModify, SensorRead, SensorVsync,
         Transfer
<1>0. PICK t : t = Head(todo)
  OBVIOUS
<1>3. \/ /\ t.op = "write" /\ regs' = [regs EXCEPT ![t.reg] = t.dat]
         /\ todo' = Tail(todo) /\ reading' = reading /\ latched' = latched
      \/ /\ t.op = "modify" /\ regs' = regs /\ reading' = reading /\ latched' = latched
         /\ todo' = <<wr_reg(t.reg, Masked(regs[t.reg], t.dat, t.msk))>> \o Tail(todo)
      \/ /\ t.op = "read" /\ regs' = regs /\ reading' = [reading EXCEPT ![t.reg] = regs[t.reg]]
         /\ todo' = Tail(todo) /\ latched' = latched
      \/ /\ t.op = "vsync" /\ regs' = regs /\ reading' = reading /\ latched' = Settings
         /\ todo' = Tail(todo)
  BY <1>0, <1>2 DEF SensorTransfer, SensorWrite, SensorModify, SensorRead, SensorVsync,
                    Transfer, NextFrame
<1>4. CASE stage = "init"
  <2>1. InSetup(shot.cfg, resolution, todo, regs, reading)
    BY <1>4 DEF ISensor, ISetting
  <2>2. InSetup(shot.cfg, resolution, todo', regs', reading')
    <3>1. CASE t.op = "write"
      <4>1. InSetup(shot.cfg, resolution, Tail(todo), [regs EXCEPT ![t.reg] = t.dat], reading)
        BY <1>0, <1>1, <1>2, <2>1, <3>1, SetupTransfer
      <4>2. todo' = Tail(todo) /\ regs' = [regs EXCEPT ![t.reg] = t.dat] /\ reading' = reading
        BY <1>3, <3>1
      <4> QED
        BY <4>1, <4>2
    <3>2. CASE t.op = "modify"
      <4>1. InSetup(shot.cfg, resolution, <<wr_reg(t.reg, Masked(regs[t.reg], t.dat, t.msk))>> \o Tail(todo),
                    regs, reading)
        BY <1>0, <1>1, <1>2, <2>1, <3>2, SetupTransfer
      <4>2. /\ regs' = regs /\ reading' = reading
            /\ todo' = <<wr_reg(t.reg, Masked(regs[t.reg], t.dat, t.msk))>> \o Tail(todo)
        BY <1>3, <3>2
      <4> QED
        BY <4>1, <4>2
    <3>3. CASE t.op = "read"
      <4>1. InSetup(shot.cfg, resolution, Tail(todo), regs,
                    [reading EXCEPT ![t.reg] = regs[t.reg]])
        BY <1>0, <1>1, <1>2, <2>1, <3>3, SetupTransfer
      <4>2. /\ todo' = Tail(todo) /\ regs' = regs
            /\ reading' = [reading EXCEPT ![t.reg] = regs[t.reg]]
        BY <1>3, <3>3
      <4> QED
        BY <4>1, <4>2
    <3>4. t.op # "vsync"
      BY <1>1, <1>2, <1>0, <2>1, SetupTransfer
    <3> QED
      BY <1>3, <3>1, <3>2, <3>3, <3>4
  <2> QED
    BY <1>2, <1>4, <2>2 DEF ISensor, ISetting, IFreezing, IFrozen, IExposed
<1>5. CASE stage = "freeze"
  <2>1. InFreeze(shot.cfg, resolution, todo, regs, reading)
    BY <1>5 DEF ISensor, IFreezing
  <2>2. /\ InFreeze(shot.cfg, resolution, todo', regs', reading')
        /\ todo' = <<>> => t.op = "vsync"
    <3>1. CASE t.op = "write"
      <4>1. /\ InFreeze(shot.cfg, resolution, Tail(todo), [regs EXCEPT ![t.reg] = t.dat], reading)
            /\ Tail(todo) # <<>>
        BY <1>0, <1>1, <1>2, <2>1, <3>1, FreezeTransfer
      <4>2. todo' = Tail(todo) /\ regs' = [regs EXCEPT ![t.reg] = t.dat] /\ reading' = reading
        BY <1>3, <3>1
      <4> QED
        BY <4>1, <4>2
    <3>2. CASE t.op = "modify"
      <4>1. LET u == <<wr_reg(t.reg, Masked(regs[t.reg], t.dat, t.msk))>> \o Tail(todo)
           IN  InFreeze(shot.cfg, resolution, u, regs, reading) /\ u # <<>>
        BY <1>0, <1>1, <1>2, <2>1, <3>2, FreezeTransfer
      <4>2. /\ regs' = regs /\ reading' = reading
            /\ todo' = <<wr_reg(t.reg, Masked(regs[t.reg], t.dat, t.msk))>> \o Tail(todo)
        BY <1>3, <3>2
      <4> QED
        BY <4>1, <4>2
    <3>3. CASE t.op = "vsync"
      <4>1. InFreeze(shot.cfg, resolution, Tail(todo), regs, reading)
        BY <1>0, <1>1, <1>2, <2>1, <3>3, FreezeTransfer
      <4>2. todo' = Tail(todo) /\ regs' = regs /\ reading' = reading
        BY <1>3, <3>3
      <4> QED
        BY <3>3, <4>1, <4>2
    <3>4. t.op # "read"
      BY <1>1, <1>2, <1>0, <2>1, FreezeTransfer
    <3> QED
      BY <1>3, <3>1, <3>2, <3>3, <3>4
  <2>4. todo' = <<>> => latched' = Settings'
    <3>1. CASE t.op = "vsync"
      BY <1>3, <3>1 DEF Settings
    <3>2. CASE t.op # "vsync"
      BY <2>2, <3>2
    <3> QED
      BY <3>1, <3>2
  <2> QED
    BY <1>2, <1>5, <2>2, <2>4 DEF ISensor, ISetting, IFreezing, IFrozen, IExposed
<1>6. CASE stage \notin {"init", "freeze"}
  <2>1. stage # "frames"
    BY <1>2, <1>6 DEF ISensor, IFrozen
  <2> QED
    BY <1>2, <1>6, <2>1 DEF ISensor, ISetting, IFreezing, IFrozen, IExposed
<1> QED
  BY <1>4, <1>5, <1>6

LEMMA SensorByItself ==
  ASSUME SensorTypeOK, IShot, ISensor, Adjusting
  PROVE  ISensor'
<1>1. regs \in [Registers -> Byte]
  BY DEF SensorTypeOK, Byte
<1>2. /\ UNCHANGED <<stage, shot, resolution, synced, exposed, todo, reading, latched>>
      /\ SensorAdjusts
  BY DEF Adjusting, vars, SensorAdjusts
<1>3. Adjusts(regs, regs')
  BY <1>1, <1>2, SensorMayAdjust
<1>4. regs'.COM8 = regs.COM8
  BY <1>1, <1>3, AdjustFields
<1>5. \A n \in Nat : SetUp(shot.cfg, resolution, regs, reading, n)
                       => SetUp(shot.cfg, resolution, regs', reading, n)
  BY <1>1, <1>3, AdjustInPlace
<1>6. ~Stopped(regs, 0)
  <2>1. Bit(regs.COM8, 1) = 1 \/ Bit(regs.COM8, 4) = 1 \/ Bit(regs.COM8, 2) = 1
    BY <1>3, Zenon DEF Adjusts
  <2> QED
    BY <2>1 DEF Stopped
<1>7. CASE stage = "init"
  <2>1. InSetup(shot.cfg, resolution, todo, regs, reading)
    BY <1>7 DEF ISensor, ISetting
  <2>2. Place(shot.cfg, Len(todo)) \in Nat
    <3>1. Len(todo) \in Nat
      BY <2>1 DEF InSetup
    <3> QED
      BY <3>1, ShotFixes, LeftOut DEF Place
  <2>3. InSetup(shot.cfg, resolution, todo, regs', reading)
    BY <1>5, <2>1, <2>2 DEF InSetup
  <2> QED
    BY <1>2, <1>7, <2>3 DEF ISensor, ISetting, IFreezing, IFrozen, IExposed
<1>8. CASE stage = "freeze"
  <2>1. InFreeze(shot.cfg, resolution, todo, regs, reading) /\ (todo = <<>> => latched = Settings)
    BY <1>8 DEF ISensor, IFreezing
  <2>2. Stopped(regs', Len(todo)) /\ SetUp(shot.cfg, resolution, regs', reading, 0)
    BY <1>4, <1>5, <2>1 DEF InFreeze, Stopped
  <2>3. InFreeze(shot.cfg, resolution, todo, regs', reading)
    BY <2>1, <2>2 DEF InFreeze
  <2>4. todo # <<>>
    <3>1. Len(<<>>) = 0
      OBVIOUS
    <3> QED
      BY <1>6, <2>1, <3>1 DEF InFreeze
  <2> QED
    BY <1>2, <1>8, <2>3, <2>4 DEF ISensor, ISetting, IFreezing, IFrozen, IExposed
<1>9. CASE stage \notin {"init", "freeze"}
  <2>1. stage # "frames"
    BY <1>6 DEF ISensor, IFrozen
  <2> QED
    BY <1>2, <1>9, <2>1 DEF ISensor, ISetting, IFreezing, IFrozen, IExposed
<1> QED
  BY <1>7, <1>8, <1>9

LEMMA SensorStep ==
  ASSUME SensorTypeOK, IShot, ISensor, [ImageNext]_imageVars
  PROVE  ISensor'
<1>1. /\ regs \in [Registers -> Byte] /\ reading \in [Registers -> Byte]
      /\ Fixes(shot.cfg) /\ IsWindow(resolution) /\ Settings # Unknown
  BY ShotFixes, SettingsAreKnown DEF SensorTypeOK, Byte
<1>2. CASE BusTransfer
  BY <1>2, SensorByBus
<1>3. CASE Adjusting
  BY <1>3, SensorByItself
<1>4. CASE FreezeSensor
  <2>1. /\ stage = "init" /\ todo = <<>> /\ stage' = "freeze" /\ todo' = Freeze
        /\ UNCHANGED <<shot, resolution, synced, exposed, regs, reading>>
    BY <1>4 DEF FreezeSensor, Call, vars
  <2>2. SetUp(shot.cfg, resolution, regs, reading, 0)
    <3>1. SetUp(shot.cfg, resolution, regs, reading, Place(shot.cfg, Len(todo)))
      BY <2>1 DEF ISensor, ISetting, InSetup
    <3>2. Len(todo) = 0
      BY <2>1
    <3> QED
      BY <1>1, <3>1, <3>2, PlaceNone
  <2>3. InFreeze(shot.cfg, resolution, Freeze, regs, reading)
    BY <2>2, FreezeBegins
  <2>4. Freeze # <<>>
    <3>1. Len(Freeze) = 4
      BY DEF Freeze
    <3> QED
      BY <3>1
  <2> QED
    BY <2>1, <2>3, <2>4 DEF ISensor, ISetting, IFreezing, IFrozen, IExposed
<1>5. CASE StartFrames
  <2>1. /\ stage = "freeze" /\ todo = <<>> /\ stage' = "frames" /\ todo' = <<>>
        /\ UNCHANGED <<shot, resolution, synced, exposed, regs, reading, latched>>
    BY <1>5 DEF StartFrames, Call, vars
  <2>2. /\ SetUp(shot.cfg, resolution, regs, reading, 0) /\ Stopped(regs, Len(todo))
        /\ latched = Settings /\ exposed = {} /\ ~synced
    BY <2>1 DEF ISensor, IFreezing, IExposed, InFreeze
  <2>3. Len(todo) = 0 /\ Settings' = Settings
    BY <2>1 DEF Settings
  <2> QED
    BY <2>1, <2>2, <2>3 DEF ISensor, ISetting, IFreezing, IFrozen, IExposed
<1>6. CASE WaitForVsync
  <2>1. /\ stage = "frames" /\ latched' = Settings /\ in_effect' = latched /\ Settings' = Settings
        /\ UNCHANGED <<stage, shot, resolution, exposed, regs, reading, todo>>
    BY <1>6 DEF WaitForVsync, NextFrame, vars, Settings
  <2> QED
    BY <2>1 DEF ISensor, ISetting, IFreezing, IFrozen, IExposed
<1>7. CASE FrameStep
  <2>1. /\ stage = "frames" /\ synced /\ Settings' = Settings
        /\ exposed' \subseteq exposed \union {in_effect}
        /\ UNCHANGED <<stage, shot, sensorVars>>
    BY <1>7 DEF FrameStep, sensorVars, Settings
  <2>2. UNCHANGED resolution
    BY <1>7 DEF FrameStep, Next, SkipLine, ReadLine, WriteBuffer
  <2>3. in_effect = Settings /\ exposed \subseteq {Settings}
    BY <2>1 DEF ISensor, IFrozen
  <2>4. exposed' \subseteq {Settings}
    BY <2>1, <2>3
  <2>5. IExposed'
    BY <1>1, <2>1, <2>4 DEF IExposed
  <2> QED
    BY <2>1, <2>2, <2>3, <2>4, <2>5 DEF ISensor, ISetting, IFreezing, IFrozen, sensorVars
<1>8. CASE EndFrames \/ WriteStatus \/ EncodeStep
  <2>1. stage' \notin {"init", "freeze", "frames"} /\ UNCHANGED exposed
    BY <1>8 DEF EndFrames, WriteStatus, EncodeStep, Call
  <2> QED
    BY <2>1 DEF ISensor, ISetting, IFreezing, IFrozen, IExposed
<1>9. CASE Deinit
  <2>1. stage' = "status" /\ exposed' = {}
    BY <1>9 DEF Deinit
  <2> QED
    BY <2>1 DEF ISensor, ISetting, IFreezing, IFrozen, IExposed
<1>10. CASE UNCHANGED imageVars
  BY <1>10 DEF imageVars, vars, sensorVars, ISensor, ISetting, IFreezing, IFrozen, IExposed, Settings
<1> QED
  BY <1>2, <1>3, <1>4, <1>5, <1>6, <1>7, <1>8, <1>9, <1>10 DEF ImageNext

LEMMA SensorStarts ==
  ASSUME ImageInit
  PROVE  IShot /\ SensorTypeOK /\ ISensor
<1>1. IShot
  BY DEF ImageInit, Init, IShot
<1>2. Fixes(shot.cfg) /\ IsWindow(resolution)
  BY <1>1, ShotFixes
<1>3. /\ stage = "init" /\ exposed = {} /\ ~synced /\ todo = ov7675_init(shot.cfg, resolution)
      /\ regs = ResetRegs /\ reading = ResetRegs /\ latched = Unknown /\ in_effect = Unknown
  BY DEF ImageInit, SensorInit
<1>4. InSetup(shot.cfg, resolution, todo, regs, reading)
  BY <1>2, <1>3, SetupBegins
<1>5. todo \in Seq(Transfers)
  BY <1>4 DEF InSetup
<1>6. SensorTypeOK
  BY <1>3, <1>5, ResetTypes DEF SensorTypeOK
<1>7. ISensor
  BY <1>3, <1>4 DEF ISensor, ISetting, IFreezing, IFrozen, IExposed
<1> QED
  BY <1>1, <1>6, <1>7

LEMMA SensorIsKept == ImageSpec => [](IShot /\ SensorTypeOK /\ ISensor)
<1>1. IShot /\ SensorTypeOK /\ ISensor /\ [ImageNext]_imageVars
        => (IShot /\ SensorTypeOK /\ ISensor)'
  BY ShotStep, SensorTypeStep, SensorStep
<1> QED
  BY <1>1, SensorStarts, PTL DEF ImageSpec

\* All frames an image is read from were taken with the same exposure, gain and white
\* balance: the sensor cannot change them once its loops are off, and what it latched at the
\* last vsync of the freezing it keeps latching (ov7675.c:375-381).
THEOREM FramesExposedAlike == ImageSpec => []OneExposure
<1>1. IExposed => OneExposure
  <2> SUFFICES ASSUME IExposed PROVE Cardinality(exposed) <= 1
    BY DEF OneExposure, IExposed
  <2>1. PICK v : exposed \subseteq {v}
    BY DEF IExposed
  <2>2. IsFiniteSet({v}) /\ Cardinality({v}) = 1
    BY FS_Singleton
  <2>3. Cardinality(exposed) <= Cardinality({v})
    BY <2>1, <2>2, FS_Subset
  <2> QED
    BY <2>2, <2>3
<1> QED
  BY <1>1, SensorIsKept, PTL DEF ISensor

\* The image is taken with the exposure and the gain the configuration sets, and these are
\* read back, whatever the sensor did to the same registers between two transfers while its
\* loops were on (ov7675.c:110-113, 279-294).
THEOREM ConfiguredIsUsed == ImageSpec => []ManualAsConfigured
<1>1. IShot /\ SensorTypeOK /\ ISensor => ManualAsConfigured
  <2> SUFFICES ASSUME IShot, ISensor, stage \in {"freeze", "frames"}
               PROVE  AsConfigured(shot.cfg, resolution)
    BY DEF ManualAsConfigured
  <2>1. SetUp(shot.cfg, resolution, regs, reading, 0)
    BY DEF ISensor, IFreezing, IFrozen, InFreeze
  <2>2. Fixes(shot.cfg)
    BY ShotFixes
  <2>3. PICK c : c = shot.cfg
    OBVIOUS
  <2>4. ASSUME ~c.aec PROVE rd_exposure(regs) = c.exposure /\ rd_exposure(reading) = c.exposure
    <3>1. PICK e \in Nat : e = c.exposure /\ e < 65536
      BY <2>2, <2>3 DEF Fixes
    <3>2. (e % 4) + ((e \div 4) % 256) * 4 + (e \div 1024) * 1024 = e
      BY <3>1, ExposureFields
    <3>3. /\ regs.COM1 % 4 = e % 4 /\ regs.AECH = (e \div 4) % 256
          /\ regs.AECHH % 64 = e \div 1024
          /\ reading.COM1 % 4 = e % 4 /\ reading.AECH = (e \div 4) % 256
          /\ reading.AECHH % 64 = e \div 1024
      BY <2>1, <2>3, <2>4, <3>1 DEF SetUp
    <3> QED
      BY <3>1, <3>2, <3>3 DEF rd_exposure
  <2>5. ASSUME ~c.agc PROVE rd_gain(regs) = c.gain /\ rd_gain(reading) = c.gain
    <3>1. PICK g \in Gains : g = c.gain
      BY <2>2, <2>3 DEF Fixes
    <3>2. /\ gain_bits(g) % 16 = g.mantissa
          /\ popcnt(gain_bits(g) \div 16) + popcnt(vref_bits(g) \div 64) = g.exponent
      BY GainFields
    <3>3. /\ regs.GAIN = gain_bits(g) /\ regs.VREF \div 64 = vref_bits(g) \div 64
          /\ reading.GAIN = gain_bits(g) /\ reading.VREF \div 64 = vref_bits(g) \div 64
      BY <2>1, <2>3, <2>5, <3>1 DEF SetUp
    <3>4. g = [mantissa |-> g.mantissa, exponent |-> g.exponent]
      BY DEF Gains
    <3> QED
      BY <3>1, <3>2, <3>3, <3>4 DEF rd_gain
  <2>6. regs.VREF % 16 = WindowBits(resolution)
    BY <2>1 DEF SetUp
  <2> QED
    BY <2>3, <2>4, <2>5, <2>6 DEF AsConfigured
<1> QED
  BY <1>1, SensorIsKept, PTL

-----------------------------------------------------------------------------
(* Types *)

\* The units of a sample are counted while they are encoded.
IUnits == /\ sample \in Seq([1 .. 64 -> Int])
          /\ unit \in Nat /\ unit <= Len(sample)
          /\ jpc # "units" => unit = 0

LEMMA UnitsStep ==
  ASSUME IStage, IUnits, [ImageNext]_imageVars
  PROVE  IUnits'
<1>1. CASE JpegRow
  <2>1. jpc # "units" /\ unit' = unit /\ unit = 0
    BY <1>1 DEF JpegRow, IUnits
  <2>2. sample' \in Seq([1 .. 64 -> Int])
    <3>1. sample' \in Samples \/ sample' = sample
      BY <1>1 DEF JpegRow
    <3> QED
      BY <3>1, SampleAssumption DEF IUnits
  <2>3. Len(sample') \in Nat
    BY <2>2
  <2> QED
    BY <2>1, <2>2, <2>3 DEF IUnits
<1>2. CASE JpegUnit
  <2>1. jpc' = jpc /\ jpc = "units" /\ sample' = sample /\ unit < Len(sample) /\ unit' = unit + 1
    BY <1>2 DEF JpegUnit
  <2>2. Len(sample) \in Nat
    BY DEF IUnits
  <2> QED
    BY <2>1, <2>2 DEF IUnits
<1>3. CASE JpegUnitsDone
  <2>1. sample' = <<>> /\ unit' = 0 /\ Len(<<>>) = 0
    BY <1>3 DEF JpegUnitsDone
  <2> QED
    BY <2>1 DEF IUnits
<1>4. CASE UNCHANGED <<sample, unit, jpc>>
  BY <1>4 DEF IUnits
<1>5. ASSUME JpegNext
      PROVE  \/ JpegRow \/ JpegUnit \/ JpegUnitsDone
             \/ UNCHANGED <<sample, unit>> /\ jpc # "units"
  BY <1>5 DEF JpegNext, JpegOpen, JpegNew, JpegForget, JpegWrite, JpegStart, JpegFill,
              JpegFillFails, JpegKeep, ToRow, Step, BandFrame, JpegEnd
<1>6. ASSUME UNCHANGED <<sample, unit>> /\ jpc # "units" PROVE IUnits'
  BY <1>6 DEF IUnits
<1> QED
  BY <1>1, <1>2, <1>3, <1>4, <1>5, <1>6, EncoderSteps DEF Encodes, LeavesEncoder

LEMMA JpegTypes ==
  ASSUME IStage, IRead, IJpeg, IOutput, IPool, IUnits
  PROVE  JpegTypeOK
<1>1. logical_lines \in Nat
  BY BlockSizes DEF IRead, ReadTypeOK
<1>2. /\ jpc \in {"idle", "setup", "band", "row", "units", "done"}
      /\ y \in 0 .. logical_lines /\ yindex \in 0 .. logical_lines
      /\ buffered_lines \in Nat /\ buffered_lines < 65536
  BY <1>1 DEF IJpeg, IRows, Is16
<1>3. lines_read \in 0 .. Len(file)
  <2>1. Len(file) \in Nat /\ lines_read \in Nat
    BY DEF IRead, ReadTypeOK, IJpeg, IRows
  <2>2. CASE jpc = "idle"
    BY <2>1, <2>2 DEF IJpeg, IRows
  <2>3. CASE jpc # "idle"
    <3>1. pc = "done"
      BY <2>3 DEF IStage
    <3>2. Len(file) = logical_lines
      BY <3>1 DEF IRead, IRemaining
    <3>3. lines_read <= logical_lines
      BY <2>3 DEF IJpeg, IRows
    <3> QED
      BY <2>1, <3>2, <3>3
  <2> QED
    BY <2>2, <2>3
<1>4. unit \in 0 .. Len(sample)
  BY DEF IUnits
<1>5. output_buffer_count \in 0 .. TJEI_BUFFER_SIZE - 1
  BY DEF IOutput, TJEI_BUFFER_SIZE
<1>6. pool_top <= pool_end
  BY DEF IPool
<1> QED
  BY <1>2, <1>3, <1>4, <1>5, <1>6 DEF JpegTypeOK

IExposures == /\ stage \in {"init", "freeze", "frames", "unfreeze", "status", "jpg", "done"}
              /\ synced \in BOOLEAN
              /\ exposed \subseteq SettingsSet

LEMMA ExposuresStep ==
  ASSUME SensorTypeOK, IExposures, [ImageNext]_imageVars
  PROVE  IExposures'
<1>1. stage' \in {"init", "freeze", "frames", "unfreeze", "status", "jpg", "done"}
  BY DEF IExposures, ImageNext, imageVars, BusTransfer, Adjusting, FreezeSensor, StartFrames,
         EndFrames, Call, WaitForVsync, FrameStep, Deinit, WriteStatus, EncodeStep
<1>2. synced' \in {synced, TRUE, ~(pc = "write")}
  BY Zenon DEF ImageNext, imageVars, BusTransfer, Adjusting, FreezeSensor, StartFrames,
         EndFrames, Call, WaitForVsync, FrameStep, Deinit, WriteStatus, EncodeStep
<1>3. synced' \in BOOLEAN
  BY <1>2, Zenon DEF IExposures
<1>4. exposed' \in {exposed, {}, exposed \union {in_effect}}
  BY DEF ImageNext, imageVars, BusTransfer, Adjusting, FreezeSensor, StartFrames,
         EndFrames, Call, WaitForVsync, FrameStep, Deinit, WriteStatus, EncodeStep
<1>5. exposed' \subseteq SettingsSet
  BY <1>4 DEF IExposures, SensorTypeOK
<1> QED
  BY <1>1, <1>3, <1>5, Zenon DEF IExposures

\* The types of everything a capture keeps, the counters of the encoder within the image,
\* the file and the buffer they count in.
THEOREM CaptureTypeCorrect == ImageSpec => []ImageTypeOK
<1> DEFINE Inv == IStage /\ IJpeg /\ ISteps /\ IOutput /\ IPool /\ IUnits /\ IExposures
           Known == IRead /\ TypeOK /\ IShot /\ SensorTypeOK
<1>1. ImageInit => Inv
  <2> SUFFICES ASSUME ImageInit PROVE Inv
    OBVIOUS
  <2>1. sample = <<>> /\ unit = 0 /\ Len(<<>>) = 0
    BY DEF ImageInit, JpegInit
  <2>2. IUnits
    BY <2>1 DEF IUnits
  <2>3. stage = "init" /\ synced = FALSE /\ exposed = {}
    BY Zenon DEF ImageInit
  <2>4. IExposures
    BY <2>3, Zenon DEF IExposures
  <2> QED
    BY <2>2, <2>4, JpegStarts, PoolStarts
<1>2. Inv /\ Known /\ [ImageNext]_imageVars => Inv'
  BY StageStep, RowsStep, OutputStep, PoolStep, UnitsStep, ExposuresStep
<1>3. Inv /\ Known => ImageTypeOK
  BY JpegTypes, Zenon DEF ImageTypeOK, IShot, IExposures
<1>4. ImageSpec => []Known
  BY CaptureReadsFrames, IReadHolds, FrameTypes, SensorIsKept, PTL
<1> HIDE DEF Inv, Known
<1> QED
  BY <1>1, <1>2, <1>3, <1>4, PTL DEF ImageSpec

-----------------------------------------------------------------------------
(***************************************************************************)
(* The dates of the status lines.  What the recursive functions for year   *)
(* and month come to is proved by the least number of days (of months      *)
(* left) for which they would not; that there are such functions, by       *)
(* giving one.                                                             *)
(***************************************************************************)

LEMMA LeastNumber ==
  ASSUME NEW S \in SUBSET Nat, S # {}
  PROVE  \E m \in S : \A n \in S : m <= n
<1>1. PICK m \in S : \A n \in S : <<n, m>> \notin OpToRel(<, Nat)
  BY NatLessThanWellFounded, WFMin
<1>2. \A n \in S : ~(n < m)
  BY <1>1 DEF OpToRel
<1> QED
  BY <1>2

\* The days of all years before, from some day on.
DaysTo(year) == 365 * year + LeapYearsBefore(year)

LEMMA YearsFollow ==
  ASSUME NEW yr \in Nat
  PROVE  /\ DaysTo(yr) \in Int /\ DaysInYear(yr) \in {365, 366}
         /\ DaysTo(yr + 1) = DaysTo(yr) + DaysInYear(yr)
<1>1. /\ yr % 4 = 0 => yr \div 4 = (yr - 1) \div 4 + 1
      /\ yr % 4 # 0 => yr \div 4 = (yr - 1) \div 4
  BY SMT
<1>2. /\ yr % 100 = 0 => yr \div 100 = (yr - 1) \div 100 + 1
      /\ yr % 100 # 0 => yr \div 100 = (yr - 1) \div 100
  BY SMT
<1>3. /\ yr % 400 = 0 => yr \div 400 = (yr - 1) \div 400 + 1
      /\ yr % 400 # 0 => yr \div 400 = (yr - 1) \div 400
  BY SMT
<1>4. (yr % 400 = 0 => yr % 100 = 0) /\ (yr % 100 = 0 => yr % 4 = 0)
  BY SMT
<1>5. (yr + 1) - 1 = yr
  BY SMT
<1> QED
  BY <1>1, <1>2, <1>3, <1>4, <1>5 DEF DaysTo, LeapYearsBefore, DaysInYear, leap_year

LEMMA YearsGrow ==
  ASSUME NEW a \in Nat, NEW b \in Nat, a <= b
  PROVE  DaysTo(a) + 365 * (b - a) <= DaysTo(b)
<1>1. LeapYearsBefore(a) <= LeapYearsBefore(b)
  <2>1. PICK x \in Int, x1 \in Int : /\ x = a - 1 /\ x1 = b - 1 /\ x <= x1
    BY SMT
  <2>2. x \div 4 - x \div 100 + x \div 400 <= x1 \div 4 - x1 \div 100 + x1 \div 400
    BY <2>1, SMT
  <2> QED
    BY <2>1, <2>2 DEF LeapYearsBefore
<1>2. LeapYearsBefore(a) \in Int /\ LeapYearsBefore(b) \in Int
  BY DEF LeapYearsBefore
<1> QED
  BY <1>1, <1>2 DEF DaysTo

\* What the search for the year of some days is after.
YearFound(c, r) ==
  /\ r \in YearCounts /\ c.year <= r.year
  /\ DaysTo(r.year) + r.days = DaysTo(c.year) + c.days
  /\ r.days < DaysInYear(r.year)
  /\ (r.wday + r.days) % 7 = (c.wday + c.days) % 7

LEMMA YearCountsHave ==
  ASSUME NEW c \in YearCounts
  PROVE  /\ c.year \in Nat /\ c.days \in Nat /\ c.wday \in Nat /\ c.wday < 7
         /\ c = [year |-> c.year, days |-> c.days, wday |-> c.wday]
BY DEF YearCounts

\* Days of the week.
LEMMA Weeks ==
  ASSUME NEW x \in Int, NEW q \in Int
  PROVE  (x - 7 * q) % 7 = x % 7
BY SMT

LEMMA WeekdayIsOne ==
  ASSUME NEW x \in Nat, NEW z \in Nat, NEW d \in Nat, x < 7, z < 7, (x + d) % 7 = (z + d) % 7
  PROVE  x = z
<1>1. PICK a \in Int, b \in Int, m \in Int : x + d = 7 * a + m /\ z + d = 7 * b + m
  <2>1. \A n \in Int : n = 7 * (n \div 7) + (n % 7) /\ n \div 7 \in Int /\ n % 7 \in Int
    BY SMT
  <2> QED
    BY <2>1
<1> QED
  BY <1>1

LEMMA YearStepFinds ==
  ASSUME NEW c \in YearCounts, c.days >= DaysInYear(c.year)
  PROVE  /\ YearStep(c) \in YearCounts /\ YearStep(c).days < c.days
         /\ \A r : YearFound(YearStep(c), r) => YearFound(c, r)
<1>1. PICK yr \in Nat, d \in Nat, w \in Nat, n \in Nat :
        /\ yr = c.year /\ d = c.days /\ w = c.wday /\ w < 7
        /\ n = DaysInYear(yr) /\ n \in {365, 366} /\ n <= d
  BY YearCountsHave, YearsFollow
<1>2. PICK v \in Nat : /\ v < 7 /\ v = YearStep(c).wday
                       /\ (v + (d - n)) % 7 = (w + d) % 7
  <2> DEFINE v == w + (n - 364)
             u == IF v >= 7 THEN v - 7 ELSE v
  <2>1. u \in Nat /\ u < 7
    BY <1>1
  <2>2. PICK q \in {52, 53} : u + (d - n) = (w + d) - 7 * q
    BY <1>1
  <2>3. (u + (d - n)) % 7 = (w + d) % 7
    <3> HIDE DEF u
    <3> QED
      BY <2>2, Weeks
  <2>4. YearStep(c).wday = u
    BY <1>1 DEF YearStep, DaysInYear
  <2> HIDE DEF u
  <2> QED
    BY <2>1, <2>3, <2>4
<1>3. YearStep(c).year = yr + 1 /\ YearStep(c).days = d - n
  BY <1>1 DEF YearStep
<1>4. YearStep(c) \in YearCounts
  <2>1. YearStep(c) = [year |-> yr + 1, days |-> d - n, wday |-> v]
    BY <1>1, <1>2 DEF YearStep
  <2>2. yr + 1 \in Nat /\ d - n \in Nat
    BY <1>1
  <2>3. v \in 0 .. 6
    BY <1>2
  <2> QED
    BY <2>1, <2>2, <2>3 DEF YearCounts
<1>5. ASSUME NEW r, YearFound(YearStep(c), r) PROVE YearFound(c, r)
  <2>1. DaysTo(yr + 1) = DaysTo(yr) + n /\ DaysTo(yr) \in Int
    BY <1>1, YearsFollow
  <2>2. DaysTo(yr + 1) + (d - n) = DaysTo(yr) + d
    BY <1>1, <2>1
  <2>3. r \in YearCounts /\ yr + 1 <= r.year /\ r.year \in Nat
    BY <1>3, <1>5, YearCountsHave DEF YearFound
  <2> QED
    BY <1>1, <1>2, <1>3, <1>5, <2>2, <2>3 DEF YearFound
<1> QED
  BY <1>1, <1>3, <1>4, <1>5

LEMMA YearIsOne ==
  ASSUME NEW c \in YearCounts, NEW r, NEW s, YearFound(c, r), YearFound(c, s)
  PROVE  r = s
<1>1. /\ r \in YearCounts /\ s \in YearCounts
      /\ r.year \in Nat /\ r.days \in Nat /\ s.year \in Nat /\ s.days \in Nat
      /\ r.wday \in Nat /\ r.wday < 7 /\ s.wday \in Nat /\ s.wday < 7
      /\ DaysTo(r.year) + r.days = DaysTo(s.year) + s.days
      /\ r.days < DaysInYear(r.year) /\ s.days < DaysInYear(s.year)
      /\ (r.wday + r.days) % 7 = (s.wday + s.days) % 7
  BY YearCountsHave DEF YearFound
<1>2. ASSUME NEW a \in YearCounts, NEW b \in YearCounts, a.year < b.year,
             DaysTo(a.year) + a.days = DaysTo(b.year) + b.days,
             a.days < DaysInYear(a.year)
      PROVE  FALSE
  <2>1. a.year \in Nat /\ b.year \in Nat /\ a.days \in Nat /\ b.days \in Nat
    BY YearCountsHave
  <2>2. PICK yr \in Nat, z \in Nat : yr = a.year /\ z = b.year /\ yr + 1 <= z
    BY <1>2, <2>1
  <2>3. DaysTo(yr + 1) = DaysTo(yr) + DaysInYear(yr) /\ DaysInYear(yr) \in Int /\ DaysTo(yr) \in Int
        /\ DaysTo(z) \in Int
    BY YearsFollow
  <2>4. DaysTo(yr + 1) <= DaysTo(z)
    <3>1. PICK x \in Nat : x = yr + 1 /\ x <= z
      BY <2>2
    <3>2. DaysTo(x) + 365 * (z - x) <= DaysTo(z) /\ DaysTo(x) \in Int
      BY <3>1, YearsGrow, YearsFollow
    <3> QED
      BY <2>3, <3>1, <3>2
  <2> QED
    BY <1>2, <2>1, <2>2, <2>3, <2>4
<1>3. r.year = s.year
  BY <1>1, <1>2
<1>4. r.days = s.days
  BY <1>1, <1>3, YearsFollow
<1>5. r.wday = s.wday
  <2>1. PICK x \in Nat, z \in Nat, d \in Nat : x = r.wday /\ z = s.wday /\ d = r.days
    BY <1>1
  <2>2. x < 7 /\ z < 7 /\ (x + d) % 7 = (z + d) % 7
    BY <1>1, <1>4, <2>1
  <2> QED
    BY <2>1, <2>2, WeekdayIsOne
<1> QED
  BY <1>1, <1>3, <1>4, <1>5, YearCountsHave

LEMMA YearExists ==
  ASSUME NEW c \in YearCounts
  PROVE  \E r : YearFound(c, r)
<1>1. PICK yr \in Nat, d \in Nat, w \in Nat : yr = c.year /\ d = c.days /\ w = c.wday
  BY YearCountsHave
<1> DEFINE Later == {n \in Nat : DaysTo(yr) + d < DaysTo(yr + n + 1)}
<1>2. d \in Later
  <2>1. DaysTo(yr) + 365 * (d + 1) <= DaysTo(yr + d + 1)
    <3>1. PICK z \in Nat : z = yr + d + 1
      OBVIOUS
    <3>2. DaysTo(yr) + 365 * (z - yr) <= DaysTo(z)
      BY <3>1, YearsGrow
    <3>3. z - yr = d + 1
      BY <3>1
    <3> QED
      BY <3>1, <3>2, <3>3
  <2>2. DaysTo(yr) \in Int /\ DaysTo(yr + d + 1) \in Int
    BY YearsFollow
  <2> QED
    BY <2>1, <2>2
<1>3. PICK n \in Later : \A k \in Later : n <= k
  <2>1. Later \in SUBSET Nat /\ Later # {}
    BY <1>2
  <2> HIDE DEF Later
  <2> QED
    BY <2>1, LeastNumber
<1>4. DaysTo(yr + n) <= DaysTo(yr) + d
  <2>1. CASE n = 0
    <3>1. yr + n = yr /\ DaysTo(yr) \in Int
      BY <2>1, YearsFollow
    <3> QED
      BY <3>1
  <2>2. CASE n # 0
    <3>1. PICK k \in Nat : k = n - 1 /\ k + 1 = n /\ k < n
      BY <2>2
    <3>2. k \notin Later
      BY <1>3, <3>1
    <3>3. yr + k + 1 = yr + n
      BY <3>1
    <3>4. ~(DaysTo(yr) + d < DaysTo(yr + n))
      BY <3>2, <3>3
    <3>5. DaysTo(yr) \in Int /\ DaysTo(yr + n) \in Int
      BY YearsFollow
    <3> QED
      BY <3>4, <3>5
  <2> QED
    BY <2>1, <2>2
<1>5. PICK z \in Nat, e \in Nat : z = yr + n /\ DaysTo(z) + e = DaysTo(yr) + d
  <2>1. DaysTo(yr) \in Int /\ DaysTo(yr + n) \in Int /\ yr + n \in Nat
    BY YearsFollow
  <2>2. DaysTo(yr) + d - DaysTo(yr + n) \in Nat
    BY <1>4, <2>1
  <2> QED
    BY <2>1, <2>2
<1>6. e < DaysInYear(z)
  <2>1. DaysTo(z + 1) = DaysTo(z) + DaysInYear(z) /\ DaysInYear(z) \in Int /\ DaysTo(z) \in Int
        /\ DaysTo(yr) \in Int
    BY YearsFollow
  <2>2. DaysTo(yr) + d < DaysTo(z + 1)
    BY <1>3, <1>5
  <2> QED
    BY <1>5, <2>1, <2>2
<1>7. PICK v \in 0 .. 6 : (v + e) % 7 = (w + d) % 7
  <2> DEFINE v == (w + d - e) % 7
  <2>1. v \in 0 .. 6 /\ (v + e) % 7 = (w + d) % 7
    BY SMT
  <2> QED
    BY <2>1
<1> DEFINE r == [year |-> z, days |-> e, wday |-> v]
<1>8. r \in YearCounts /\ yr <= z
  BY <1>5 DEF YearCounts
<1>9. YearFound(c, r)
  BY <1>1, <1>5, <1>6, <1>7, <1>8 DEF YearFound
<1> QED
  BY <1>9

\* The function that InYear is defined to be exists: it takes to the year that is found.
LEMMA InYearSolves ==
  InYear = [c \in YearCounts |->
              IF c.days >= DaysInYear(c.year) THEN InYear[YearStep(c)] ELSE c]
<1> DEFINE f == [c \in YearCounts |-> CHOOSE r : YearFound(c, r)]
<1>1. ASSUME NEW c \in YearCounts
      PROVE  f[c] = IF c.days >= DaysInYear(c.year) THEN f[YearStep(c)] ELSE c
  <2>1. YearFound(c, f[c])
    BY YearExists
  <2>2. CASE c.days >= DaysInYear(c.year)
    <3>1. YearStep(c) \in YearCounts /\ YearFound(YearStep(c), f[YearStep(c)])
      BY <2>2, YearStepFinds, YearExists
    <3>2. YearFound(c, f[YearStep(c)])
      BY <2>2, <3>1, YearStepFinds
    <3> QED
      BY <2>1, <2>2, <3>2, YearIsOne
  <2>3. CASE ~(c.days >= DaysInYear(c.year))
    <3>1. YearFound(c, c)
      BY <2>3, YearCountsHave, YearsFollow DEF YearFound
    <3> QED
      BY <2>1, <2>3, <3>1, YearIsOne
  <2> QED
    BY <2>2, <2>3
<1>2. f = [c \in YearCounts |-> IF c.days >= DaysInYear(c.year) THEN f[YearStep(c)] ELSE c]
  BY <1>1
<1> HIDE DEF f
<1> QED
  BY <1>2 DEF InYear

LEMMA InYearFinds ==
  ASSUME NEW c \in YearCounts
  PROVE  YearFound(c, InYear[c])
<1> DEFINE Wrong == {b.days : b \in {a \in YearCounts : ~YearFound(a, InYear[a])}}
<1>1. SUFFICES ASSUME Wrong # {} PROVE FALSE
  OBVIOUS
<1>2. PICK n \in Wrong : \A k \in Wrong : n <= k
  <2>1. Wrong \in SUBSET Nat
    BY YearCountsHave
  <2> HIDE DEF Wrong
  <2> QED
    BY <1>1, <2>1, LeastNumber
<1>3. PICK b \in YearCounts : ~YearFound(b, InYear[b]) /\ n = b.days
  BY <1>2
<1>4. InYear[b] = IF b.days >= DaysInYear(b.year) THEN InYear[YearStep(b)] ELSE b
  BY InYearSolves
<1>5. CASE b.days >= DaysInYear(b.year)
  <2>1. YearStep(b) \in YearCounts /\ YearStep(b).days < n /\ n \in Nat
    BY <1>3, <1>5, YearStepFinds, YearCountsHave
  <2>2. YearStep(b).days \notin Wrong
    <3>1. YearStep(b).days \in Nat
      BY <2>1, YearCountsHave
    <3> QED
      BY <1>2, <2>1, <3>1
  <2>3. YearFound(YearStep(b), InYear[YearStep(b)])
    BY <2>1, <2>2
  <2> QED
    BY <1>3, <1>4, <1>5, <2>3, YearStepFinds
<1>6. CASE ~(b.days >= DaysInYear(b.year))
  BY <1>3, <1>4, <1>6, YearCountsHave, YearsFollow DEF YearFound
<1> QED
  BY <1>5, <1>6

\* The days of all months before, from 0, and of the whole year at 12.
MonthDays(month, leap) ==
  (IF month = 12 THEN 365 ELSE DaysBefore[month + 1]) + (IF month > 1 /\ leap THEN 1 ELSE 0)

LEMMA MonthTables ==
  /\ DaysBefore[1] = 0 /\ DaysBefore[2] = 31 /\ DaysBefore[3] = 59 /\ DaysBefore[4] = 90
  /\ DaysBefore[5] = 120 /\ DaysBefore[6] = 151 /\ DaysBefore[7] = 181 /\ DaysBefore[8] = 212
  /\ DaysBefore[9] = 243 /\ DaysBefore[10] = 273 /\ DaysBefore[11] = 304
  /\ DaysBefore[12] = 334
  /\ days_in_month[1] = 31 /\ days_in_month[2] = 28 /\ days_in_month[3] = 31
  /\ days_in_month[4] = 30 /\ days_in_month[5] = 31 /\ days_in_month[6] = 30
  /\ days_in_month[7] = 31 /\ days_in_month[8] = 31 /\ days_in_month[9] = 30
  /\ days_in_month[10] = 31 /\ days_in_month[11] = 30 /\ days_in_month[12] = 31
BY DEF DaysBefore, days_in_month

LEMMA MonthsFollow ==
  ASSUME NEW m \in 0 .. 11, NEW leap \in BOOLEAN
  PROVE  /\ MonthDays(m, leap) \in Nat /\ DaysInMonth(m, leap) \in 28 .. 31
         /\ MonthDays(m + 1, leap) = MonthDays(m, leap) + DaysInMonth(m, leap)
<1>1. m \in {0, 1, 2, 3, 4, 5, 6, 7, 8, 9, 10, 11}
  OBVIOUS
<1> QED
  BY <1>1, MonthTables DEF MonthDays, DaysInMonth

LEMMA MonthsGrow ==
  ASSUME NEW a \in 0 .. 12, NEW b \in 0 .. 12, a <= b, NEW leap \in BOOLEAN
  PROVE  /\ MonthDays(a, leap) \in Nat /\ MonthDays(b, leap) \in Nat
         /\ MonthDays(a, leap) <= MonthDays(b, leap)
<1>1. PICK l \in 0 .. 1 : \A m \in {0, 1, 2, 3, 4, 5, 6, 7, 8, 9, 10, 11, 12} :
        MonthDays(m, leap) = (IF m = 12 THEN 365 ELSE DaysBefore[m + 1]) + (IF m > 1 THEN l ELSE 0)
  <2>1. CASE leap
    BY <2>1 DEF MonthDays
  <2>2. CASE ~leap
    BY <2>2 DEF MonthDays
  <2> QED
    BY <2>1, <2>2
<1>2. ASSUME NEW m \in {0, 1, 2, 3, 4, 5, 6, 7, 8, 9, 10, 11, 12}
      PROVE  MonthDays(m, leap) = CASE m = 0 -> 0 [] m = 1 -> 31 [] m = 2 -> 59 + l [] m = 3 -> 90 + l
               [] m = 4 -> 120 + l [] m = 5 -> 151 + l [] m = 6 -> 181 + l [] m = 7 -> 212 + l
               [] m = 8 -> 243 + l [] m = 9 -> 273 + l [] m = 10 -> 304 + l [] m = 11 -> 334 + l
               [] OTHER -> 365 + l
  BY <1>1, MonthTables
<1>3. \A m \in 0 .. 12 : m \in {0, 1, 2, 3, 4, 5, 6, 7, 8, 9, 10, 11, 12}
  OBVIOUS
<1> QED
  BY <1>2, <1>3

\* What the search for the month of some days of a year is after.
MonthFound(c, r) ==
  /\ r \in MonthCounts /\ r.leap = c.leap /\ c.month <= r.month
  /\ MonthDays(r.month, c.leap) + r.days = MonthDays(c.month, c.leap) + c.days
  /\ r.month < 12 => r.days < DaysInMonth(r.month, c.leap)

LEMMA MonthCountsHave ==
  ASSUME NEW c \in MonthCounts
  PROVE  /\ c.month \in 0 .. 12 /\ c.month \in Nat /\ c.days \in Nat /\ c.leap \in BOOLEAN
         /\ c = [month |-> c.month, days |-> c.days, leap |-> c.leap]
BY DEF MonthCounts

LEMMA MonthStepFinds ==
  ASSUME NEW c \in MonthCounts, c.month < 12, c.days >= DaysInMonth(c.month, c.leap)
  PROVE  /\ MonthStep(c) \in MonthCounts /\ MonthStep(c).month = c.month + 1
         /\ \A r : MonthFound(MonthStep(c), r) => MonthFound(c, r)
<1>1. PICK m \in 0 .. 11, d \in Nat, leap \in BOOLEAN, n \in Nat :
        /\ m = c.month /\ d = c.days /\ leap = c.leap /\ n = DaysInMonth(m, leap) /\ n <= d
        /\ MonthDays(m, leap) \in Nat /\ MonthDays(m + 1, leap) = MonthDays(m, leap) + n
  BY MonthCountsHave, MonthsFollow
<1>2. MonthStep(c) = [month |-> m + 1, days |-> d - n, leap |-> leap]
  <2> DEFINE b == [month |-> m, days |-> d, leap |-> leap]
  <2>1. c = b
    BY <1>1, MonthCountsHave
  <2>2. MonthStep(b) = [b EXCEPT !.month = m + 1, !.days = d - n]
    BY <1>1 DEF MonthStep
  <2> QED
    BY <2>1, <2>2
<1>3. m + 1 \in 0 .. 12 /\ d - n \in Nat
  BY <1>1
<1>4. MonthStep(c) \in MonthCounts
  BY <1>2, <1>3 DEF MonthCounts
<1>5. ASSUME NEW r, MonthFound(MonthStep(c), r) PROVE MonthFound(c, r)
  <2>1. r \in MonthCounts /\ r.leap = leap /\ m + 1 <= r.month /\ r.month \in Nat
        /\ MonthDays(r.month, leap) + r.days = MonthDays(m + 1, leap) + (d - n)
        /\ (r.month < 12 => r.days < DaysInMonth(r.month, leap))
    BY <1>2, <1>5, MonthCountsHave DEF MonthFound
  <2>2. MonthDays(m + 1, leap) + (d - n) = MonthDays(m, leap) + d /\ m <= r.month
    BY <1>1, <2>1
  <2> QED
    BY <1>1, <2>1, <2>2 DEF MonthFound
<1> QED
  BY <1>1, <1>2, <1>4, <1>5

LEMMA MonthIsOne ==
  ASSUME NEW c \in MonthCounts, NEW r, NEW s, MonthFound(c, r), MonthFound(c, s)
  PROVE  r = s
<1>1. PICK leap \in BOOLEAN : leap = c.leap
  BY MonthCountsHave
<1>2. /\ r \in MonthCounts /\ s \in MonthCounts /\ r.leap = leap /\ s.leap = leap
      /\ r.month \in 0 .. 12 /\ r.days \in Nat /\ s.month \in 0 .. 12 /\ s.days \in Nat
      /\ MonthDays(r.month, leap) + r.days = MonthDays(s.month, leap) + s.days
      /\ (r.month < 12 => r.days < DaysInMonth(r.month, leap))
      /\ (s.month < 12 => s.days < DaysInMonth(s.month, leap))
  BY <1>1, MonthCountsHave DEF MonthFound
<1>3. ASSUME NEW a \in 0 .. 12, NEW b \in 0 .. 12, NEW d \in Nat, NEW e \in Nat, a < b,
             MonthDays(a, leap) + d = MonthDays(b, leap) + e, d < DaysInMonth(a, leap)
      PROVE  FALSE
  <2>1. MonthDays(a + 1, leap) = MonthDays(a, leap) + DaysInMonth(a, leap)
        /\ DaysInMonth(a, leap) \in Int /\ MonthDays(a, leap) \in Int
    BY <1>3, MonthsFollow
  <2>2. PICK k \in 0 .. 12 : k = a + 1 /\ k <= b
    BY <1>3
  <2>3. MonthDays(k, leap) <= MonthDays(b, leap) /\ MonthDays(b, leap) \in Int
    BY <2>2, MonthsGrow
  <2> QED
    BY <1>3, <2>1, <2>2, <2>3
<1>4. ~(r.month < s.month)
  <2>1. SUFFICES ASSUME r.month < s.month PROVE FALSE
    OBVIOUS
  <2>2. r.month < 12
    BY <1>2, <2>1
  <2> QED
    BY <1>2, <1>3, <2>1, <2>2
<1>5. ~(s.month < r.month)
  <2>1. SUFFICES ASSUME s.month < r.month PROVE FALSE
    OBVIOUS
  <2>2. s.month < 12
    BY <1>2, <2>1
  <2> QED
    BY <1>2, <1>3, <2>1, <2>2
<1>6. r.month = s.month
  BY <1>2, <1>4, <1>5
<1>7. r.days = s.days
  <2>1. MonthDays(r.month, leap) \in Nat
    BY <1>2, MonthsGrow
  <2> QED
    BY <1>2, <1>6, <2>1
<1> QED
  BY <1>2, <1>6, <1>7, MonthCountsHave

\* A count that is no longer stepped is what is found.
LEMMA MonthStops ==
  ASSUME NEW c \in MonthCounts, ~(c.month < 12 /\ c.days >= DaysInMonth(c.month, c.leap))
  PROVE  MonthFound(c, c)
<1>1. PICK leap \in BOOLEAN, m \in 0 .. 12 : leap = c.leap /\ m = c.month
  BY MonthCountsHave
<1>2. CASE m < 12
  <2>1. DaysInMonth(m, leap) \in Int
    BY <1>2, MonthsFollow
  <2> QED
    BY <1>1, <1>2, <2>1, MonthCountsHave DEF MonthFound
<1>3. CASE ~(m < 12)
  BY <1>1, <1>3, MonthCountsHave DEF MonthFound
<1> QED
  BY <1>2, <1>3

LEMMA MonthExists ==
  ASSUME NEW c \in MonthCounts
  PROVE  \E r : MonthFound(c, r)
<1> DEFINE Lost == {12 - b.month : b \in {a \in MonthCounts : ~\E r : MonthFound(a, r)}}
<1>1. SUFFICES ASSUME Lost # {} PROVE FALSE
  OBVIOUS
<1>2. PICK n \in Lost : \A k \in Lost : n <= k
  <2>1. Lost \in SUBSET Nat
    BY MonthCountsHave
  <2> HIDE DEF Lost
  <2> QED
    BY <1>1, <2>1, LeastNumber
<1>3. PICK b \in MonthCounts : (~\E r : MonthFound(b, r)) /\ n = 12 - b.month
  BY <1>2
<1>4. b.month < 12 /\ b.days >= DaysInMonth(b.month, b.leap)
  BY <1>3, MonthStops
<1>5. MonthStep(b) \in MonthCounts /\ MonthStep(b).month = b.month + 1
  BY <1>4, MonthStepFinds
<1>6. 12 - MonthStep(b).month \notin Lost
  <2>1. b.month \in Nat
    BY MonthCountsHave
  <2>2. 12 - MonthStep(b).month \in Int /\ 12 - MonthStep(b).month < n /\ n \in Int
    BY <1>3, <1>5, <2>1
  <2> HIDE DEF Lost
  <2> QED
    BY <1>2, <2>2
<1>7. \E r : MonthFound(MonthStep(b), r)
  BY <1>5, <1>6
<1> QED
  BY <1>3, <1>4, <1>7, MonthStepFinds

\* The function that InMonth is defined to be exists: it takes to the month that is found.
LEMMA InMonthSolves ==
  InMonth = [c \in MonthCounts |->
               IF c.month < 12 /\ c.days >= DaysInMonth(c.month, c.leap)
               THEN InMonth[MonthStep(c)] ELSE c]
<1> DEFINE f == [c \in MonthCounts |-> CHOOSE r : MonthFound(c, r)]
<1>1. ASSUME NEW c \in MonthCounts
      PROVE  f[c] = IF c.month < 12 /\ c.days >= DaysInMonth(c.month, c.leap)
                    THEN f[MonthStep(c)] ELSE c
  <2>1. MonthFound(c, f[c])
    BY MonthExists
  <2>2. CASE c.month < 12 /\ c.days >= DaysInMonth(c.month, c.leap)
    <3>1. MonthStep(c) \in MonthCounts /\ MonthFound(MonthStep(c), f[MonthStep(c)])
      BY <2>2, MonthStepFinds, MonthExists
    <3>2. MonthFound(c, f[MonthStep(c)])
      BY <2>2, <3>1, MonthStepFinds
    <3> QED
      BY <2>1, <2>2, <3>2, MonthIsOne
  <2>3. CASE ~(c.month < 12 /\ c.days >= DaysInMonth(c.month, c.leap))
    BY <2>1, <2>3, MonthStops, MonthIsOne
  <2> QED
    BY <2>2, <2>3
<1>2. f = [c \in MonthCounts |->
             IF c.month < 12 /\ c.days >= DaysInMonth(c.month, c.leap)
             THEN f[MonthStep(c)] ELSE c]
  BY <1>1
<1> HIDE DEF f
<1> QED
  BY <1>2 DEF InMonth

LEMMA InMonthFinds ==
  ASSUME NEW c \in MonthCounts
  PROVE  MonthFound(c, InMonth[c])
<1> DEFINE Wrong == {12 - b.month : b \in {a \in MonthCounts : ~MonthFound(a, InMonth[a])}}
<1>1. SUFFICES ASSUME Wrong # {} PROVE FALSE
  OBVIOUS
<1>2. PICK n \in Wrong : \A k \in Wrong : n <= k
  <2>1. Wrong \in SUBSET Nat
    BY MonthCountsHave
  <2> HIDE DEF Wrong
  <2> QED
    BY <1>1, <2>1, LeastNumber
<1>3. PICK b \in MonthCounts : ~MonthFound(b, InMonth[b]) /\ n = 12 - b.month
  BY <1>2
<1>4. InMonth[b] = IF b.month < 12 /\ b.days >= DaysInMonth(b.month, b.leap)
                   THEN InMonth[MonthStep(b)] ELSE b
  BY InMonthSolves
<1>5. b.month < 12 /\ b.days >= DaysInMonth(b.month, b.leap)
  BY <1>3, <1>4, MonthStops
<1>6. MonthStep(b) \in MonthCounts /\ MonthStep(b).month = b.month + 1
  BY <1>5, MonthStepFinds
<1>7. 12 - MonthStep(b).month \notin Wrong
  <2>1. b.month \in Nat
    BY MonthCountsHave
  <2>2. 12 - MonthStep(b).month \in Int /\ 12 - MonthStep(b).month < n /\ n \in Int
    BY <1>3, <1>6, <2>1
  <2> HIDE DEF Wrong
  <2> QED
    BY <1>2, <2>2
<1>8. MonthFound(MonthStep(b), InMonth[MonthStep(b)])
  BY <1>6, <1>7
<1> QED
  BY <1>3, <1>4, <1>5, <1>8, MonthStepFinds

DayInstants == [day : Nat, sec : 0 .. 86399]

\* What lies in a range of numbers.
LEMMA InRange ==
  ASSUME NEW a \in Int, NEW b \in Int
  PROVE  \A x : x \in a .. b <=> x \in Int /\ a <= x /\ x <= b
OBVIOUS

LEMMA Quotient ==
  ASSUME NEW s \in Int, NEW h \in Int, NEW k \in Nat, k < 3600, s = 3600 * h + k
  PROVE  s \div 3600 = h
BY SMT

LEMMA SecondsCarry ==
  ASSUME NEW s \in Nat, s < 86400, NEW q \in Nat, NEW r \in Nat, r < 60, s = 60 * q + r,
         NEW h \in Nat, NEW m \in Nat, m < 60, q = 60 * h + m
  PROVE  /\ 60 * m + r \in Nat /\ 60 * m + r < 3600 /\ s = 3600 * h + (60 * m + r) /\ h < 24
         /\ h * 3600 + m * 60 + r = s
BY SMT

LEMMA Sixty ==
  ASSUME NEW n \in Nat
  PROVE  n \div 60 \in Nat /\ n % 60 \in Nat /\ n % 60 < 60 /\ n = 60 * (n \div 60) + (n % 60)
BY SMT

LEMMA TimeOfDay ==
  ASSUME NEW s \in Nat, s < 86400
  PROVE  /\ s \div 3600 \in 0 .. 23 /\ (s \div 60) % 60 \in 0 .. 59 /\ s % 60 \in 0 .. 59
         /\ (s \div 3600) * 3600 + ((s \div 60) % 60) * 60 + (s % 60) = s
<1>1. PICK q \in Nat, r \in Nat : q = s \div 60 /\ r = s % 60 /\ r < 60 /\ s = 60 * q + r
  BY Sixty
<1>2. PICK h \in Nat, m \in Nat : h = q \div 60 /\ m = q % 60 /\ m < 60 /\ q = 60 * h + m
  BY Sixty
<1>3. 60 * m + r \in Nat /\ 60 * m + r < 3600 /\ s = 3600 * h + (60 * m + r) /\ h < 24
      /\ h * 3600 + m * 60 + r = s
  BY <1>1, <1>2, SecondsCarry
<1>4. s \div 3600 = h
  <2>1. h \in Int /\ s \in Int
    OBVIOUS
  <2> QED
    BY <1>3, <2>1, Quotient
<1>5. (s \div 60) % 60 = m /\ s % 60 = r
  BY <1>1, <1>2
<1>6. h \in 0 .. 23 /\ m \in 0 .. 59 /\ r \in 0 .. 59
  BY <1>1, <1>2, <1>3
<1>7. (s \div 3600) * 3600 + ((s \div 60) % 60) * 60 + (s % 60) = s
  BY <1>3, <1>4, <1>5
<1> QED
  BY <1>4, <1>5, <1>6, <1>7

\* A month has as many days for unix_date as for the calendar.
LEMMA MonthsAreTheCalendars ==
  ASSUME NEW yr \in Nat, NEW m \in 0 .. 11, NEW d \in Nat
  PROVE  /\ DaysInMonth(m, leap_year(yr)) = MonthLength(yr, m + 1)
         /\ DayOfYear(yr, m + 1, d + 1) = MonthDays(m, leap_year(yr)) + d
<1>1. PICK l \in BOOLEAN : l = leap_year(yr)
  BY DEF leap_year
<1>2. l = ~(yr % 4 # 0 \/ (yr % 100 = 0 /\ yr % 400 # 0))
  BY <1>1 DEF leap_year
<1>3. MonthLength(yr, 2) = IF l THEN 29 ELSE 28
  <2> DEFINE common == yr % 4 # 0 \/ (yr % 100 = 0 /\ yr % 400 # 0)
  <2>1. MonthLength(yr, 2) = IF common THEN 28 ELSE 29
    BY DEF MonthLength
  <2>2. l = ~common
    BY <1>2
  <2> HIDE DEF common
  <2>3. CASE common
    BY <2>1, <2>2, <2>3
  <2>4. CASE ~common
    BY <2>1, <2>2, <2>4
  <2> QED
    BY <2>3, <2>4
<1>4. m \in {0, 1, 2, 3, 4, 5, 6, 7, 8, 9, 10, 11}
  OBVIOUS
<1>5. DaysInMonth(m, l) = MonthLength(yr, m + 1)
  <2>1. CASE m = 1
    BY <1>3, <2>1, MonthTables DEF DaysInMonth
  <2>2. CASE m # 1
    BY <1>4, <2>2, MonthTables DEF DaysInMonth, MonthLength
  <2> QED
    BY <2>1, <2>2
<1>6. DayOfYear(yr, m + 1, d + 1) = MonthDays(m, l) + d
  <2>1. DaysBefore[m + 1] \in Int
    BY <1>4, MonthTables
  <2> QED
    BY <1>3, <1>4, <2>1 DEF DayOfYear, MonthDays
<1> QED
  BY <1>1, <1>5, <1>6

\* What unix_date makes of an instant is its date and time.
LEMMA UnixDateDates ==
  ASSUME NEW day \in Nat, NEW sec \in Nat, sec < 86400, NEW t, t.day = day, t.sec = sec
  PROVE  Dates(unix_date(t), t)
<1> DEFINE c0 == [year |-> 1970, days |-> day, wday |-> 4]
           c == InYear[c0]
           m0 == [month |-> 0, days |-> c.days, leap |-> leap_year(c.year)]
           m == InMonth[m0]
<1>1. PICK e \in Nat : e = DaysTo(1970)
  BY DEF DaysTo, LeapYearsBefore
<1>2. /\ c \in YearCounts /\ DaysTo(c.year) + c.days = e + day
      /\ c.days < DaysInYear(c.year) /\ (c.wday + c.days) % 7 = (4 + day) % 7
  <2>1. c0 \in YearCounts
    BY DEF YearCounts
  <2>2. c0.year = 1970 /\ c0.days = day /\ c0.wday = 4
    BY DEF c0
  <2> HIDE DEF c0
  <2>3. YearFound(c0, c)
    BY <2>1, InYearFinds
  <2> HIDE DEF c0, c
  <2> QED
    BY <1>1, <2>2, <2>3 DEF YearFound
<1>3. PICK yr \in Nat, n \in Nat, leap \in BOOLEAN :
        yr = c.year /\ n = c.days /\ leap = leap_year(yr)
  <2> HIDE DEF c
  <2>1. c.year \in Nat /\ c.days \in Nat
    BY <1>2, YearCountsHave
  <2>2. leap_year(c.year) \in BOOLEAN
    BY DEF leap_year
  <2> QED
    BY <2>1, <2>2
<1> HIDE DEF c
<1>4. /\ m \in MonthCounts /\ MonthDays(m.month, leap) + m.days = n
      /\ (m.month < 12 => m.days < DaysInMonth(m.month, leap))
  <2>1. m0 = [month |-> 0, days |-> n, leap |-> leap]
    BY <1>3
  <2>2. m0 \in MonthCounts
    BY <2>1 DEF MonthCounts
  <2>3. m0.month = 0 /\ m0.days = n /\ m0.leap = leap
    BY <2>1
  <2> HIDE DEF m0
  <2>4. MonthFound(m0, m)
    BY <2>2, InMonthFinds
  <2>5. MonthDays(0, leap) = 0
    BY MonthTables DEF MonthDays
  <2> HIDE DEF m
  <2> QED
    BY <2>3, <2>4, <2>5 DEF MonthFound
<1>5. PICK k \in 0 .. 12, d \in Nat : k = m.month /\ d = m.days
  <2> HIDE DEF m
  <2> QED
    BY <1>4, MonthCountsHave
<1>6. k \in 0 .. 11
  <2>1. DaysInYear(yr) = MonthDays(12, leap)
    BY <1>3 DEF DaysInYear, MonthDays
  <2>2. MonthDays(12, leap) \in Nat
    BY MonthsGrow
  <2>3. n < DaysInYear(yr)
    BY <1>2, <1>3
  <2>4. MonthDays(k, leap) + d = n
    BY <1>4, <1>5
  <2>5. k # 12
    BY <2>1, <2>2, <2>3, <2>4
  <2> QED
    BY <2>5
<1>7. unix_date(t) = [tm_sec |-> sec % 60, tm_min |-> (sec \div 60) % 60, tm_hour |-> sec \div 3600,
                      tm_mday |-> d + 1, tm_mon |-> k, tm_year |-> yr - 1900,
                      tm_wday |-> (4 + day) % 7, tm_yday |-> n]
  BY <1>2, <1>3, <1>5 DEF unix_date, c, m
<1> DEFINE cal == unix_date(t)
<1>8. cal.tm_year + 1900 = yr /\ cal.tm_mon + 1 = k + 1 /\ cal.tm_mday = d + 1
      /\ cal.tm_yday = n /\ cal.tm_wday = (4 + day) % 7
      /\ cal.tm_hour = sec \div 3600 /\ cal.tm_min = (sec \div 60) % 60 /\ cal.tm_sec = sec % 60
  BY <1>7
<1>9. DaysInMonth(k, leap) = MonthLength(yr, k + 1)
      /\ DayOfYear(yr, k + 1, d + 1) = MonthDays(k, leap) + d
  BY <1>3, <1>6, MonthsAreTheCalendars
<1>10. DayNumber(yr, k + 1, d + 1) = day
  <2>1. DayOfYear(yr, k + 1, d + 1) = n
    BY <1>4, <1>5, <1>9
  <2>2. DaysTo(yr) + n = DaysTo(1970) + day
    BY <1>1, <1>2, <1>3
  <2>3. LeapYearsBefore(yr) \in Int /\ LeapYearsBefore(1970) \in Int
    BY DEF LeapYearsBefore
  <2>4. 365 * yr + LeapYearsBefore(yr) + n = 365 * 1970 + LeapYearsBefore(1970) + day
    BY <2>2 DEF DaysTo
  <2> QED
    BY <2>1, <2>3, <2>4 DEF DayNumber
<1>11. k + 1 \in 1 .. 12 /\ d + 1 \in 1 .. MonthLength(yr, k + 1)
  <2>1. d < DaysInMonth(k, leap) /\ DaysInMonth(k, leap) \in Nat
    BY <1>4, <1>5, <1>6, MonthsFollow
  <2> QED
    BY <1>6, <1>9, <2>1
<1>12. DayOfYear(yr, k + 1, d + 1) = n
  BY <1>4, <1>5, <1>9
<1> HIDE DEF cal
<1>13. Dates(cal, t)
  BY <1>8, <1>10, <1>11, <1>12, TimeOfDay DEF Dates
<1> QED
  BY <1>13 DEF cal

\* The date of a status line is that of the Gregorian calendar, for every instant the clock
\* can give: unix_date finds the one year, month, day and time there is (util.c:8-60).
THEOREM DatesAreGregorian == ImageSpec => []DateIsGregorian
<1>1. ImageInit => DateIsGregorian
  BY Zenon DEF ImageInit, DateIsGregorian
<1>2. IShot /\ DateIsGregorian /\ [ImageNext]_imageVars => DateIsGregorian'
  <2> SUFFICES ASSUME IShot, DateIsGregorian, [ImageNext]_imageVars PROVE DateIsGregorian'
    OBVIOUS
  <2>1. CASE WriteStatus
    <3>1. PICK t : t = time_wall' /\ t \in shot.instants /\ calendar' = unix_date(t)
      BY <2>1 DEF WriteStatus
    <3>2. t \in Instants
      BY <3>1, ShotAssumption DEF IShot
    <3>3. t.day \in Nat /\ t.sec \in Nat /\ t.sec < 86400
      BY <3>2 DEF Instants
    <3>4. Dates(unix_date(t), t)
      BY <3>3, UnixDateDates
    <3> QED
      BY <3>1, <3>4, Zenon DEF DateIsGregorian
  <2>2. CASE UNCHANGED <<time_wall, calendar>>
    BY <2>2, Zenon DEF DateIsGregorian
  <2> QED
    BY <2>1, <2>2, Zenon DEF ImageNext, imageVars, captureVars, BusTransfer, Adjusting,
       FreezeSensor, StartFrames, EndFrames, Call, WaitForVsync, FrameStep, Deinit, EncodeStep
<1>3. ImageSpec => []IShot
  BY SensorIsKept, PTL
<1> QED
  BY <1>1, <1>2, <1>3, PTL DEF ImageSpec
=============================================================================
