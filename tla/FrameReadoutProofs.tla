------------------------- MODULE FrameReadoutProofs -------------------------
(***************************************************************************)
(* Proofs, for every number of lines, every resolution and every buffer of *)
(* whole lines that an image fits or fills, that the buffer is not         *)
(* overrun, that the file is complete, that an image of one frame is       *)
(* exact, and that the mean is one of the image.                           *)
(***************************************************************************)
EXTENDS FrameReadout, SequenceTheorems, TLAPS

(* Arithmetic of lines and bytes *)

\* The lines of use among 1 .. l, from one line to the next.
LEMMA IndexSteps ==
  ASSUME NEW s \in Nat \ {0}, NEW l \in Nat \ {0}
  PROVE  /\ l \div s \in Nat
         /\ 0 \div s = 0
         /\ l % s = 0 => (l - 1) \div s = (l \div s) - 1 /\ l = (l \div s) * s /\ l \div s >= 1
         /\ l % s # 0 => (l - 1) \div s = l \div s
<1> DEFINE q == l \div s
           m == l % s
<1>1. q \in Nat /\ m \in 0 .. s - 1 /\ m = l - s * q
  BY SMT
<1>2. 0 \div s = 0
  BY SMT
<1>3. ASSUME m = 0 PROVE (l - 1) \div s = q - 1 /\ l = q * s /\ q >= 1
  BY <1>1, <1>3, SMT
<1>4. ASSUME m # 0 PROVE (l - 1) \div s = q
  BY <1>1, <1>4, SMT
<1> QED
  BY <1>1, <1>2, <1>3, <1>4

\* The buffer holds whole lines: bytes compare as lines do.
LEMMA BytesOfLines ==
  ASSUME NEW w \in Nat \ {0}, NEW held \in Nat, NEW n \in Nat
  PROVE  /\ w * n \in Nat
         /\ w * n < w * held <=> n < held
         /\ w * (n + 1) = (w * n) + w
BY SMT

LEMMA WholeLines ==
  ASSUME NEW capacity \in Nat \ {0}, NEW w \in Nat \ {0}, capacity % w = 0
  PROVE  capacity \div w \in Nat \ {0} /\ capacity = w * (capacity \div w)
BY SMT

LEMMA Multiple ==
  ASSUME NEW held \in Nat \ {0}, NEW q \in Int
  PROVE  (held * q) % held = 0
BY SMT

\* Whole buffers remain.
LEMMA BufferLess ==
  ASSUME NEW held \in Nat \ {0}, NEW n \in Int, n > held, n % held = 0
  PROVE  (n - held) % held = 0 /\ n - held >= held
<1> DEFINE q == n \div held
<1>1. q \in Int /\ n = held * q
  BY SMT
<1>2. n - held = held * (q - 1)
  BY <1>1, SMT
<1>3. (held * (q - 1)) % held = 0
  <2>1. q - 1 \in Int
    BY <1>1
  <2> QED
    BY <2>1, Multiple
<1>4. q - 1 >= 1
  <2>1. held * (q - 1) > 0
    BY <1>2
  <2> QED
    BY <1>1, <2>1, SMT
<1>5. held * (q - 1) >= held
  BY <1>1, <1>4, SMT
<1> QED
  BY <1>2, <1>3, <1>5, SMT

-----------------------------------------------------------------------------
(* The invariant *)

\* The lines of use at and below a line.
Index(l) == l \div resolution.line_skip

HeldLines == Len(buffered)

ReadTypeOK ==
  /\ resolution \in Resolutions
  /\ pc \in {"line", "write", "done"}
  /\ line \in 0 .. PhysicalLines
  /\ current_line \in 1 .. PhysicalLines
  /\ lines_remaining \in Int
  /\ buffered \in Seq(1 .. PhysicalLines)
  /\ file \in Seq(1 .. PhysicalLines)
  /\ pc = "line" => line > 0
  /\ pc = "write" => line = 0

IBuffer == buffer_index = LineBytes * HeldLines /\ HeldLines <= buffer_size_lines

\* The lines still of use are those below current_line, and at it before the first of
\* a frame is read; the camera has not sent them yet.
NextOfUse == IF line < current_line THEN Index(line) ELSE Index(current_line)
IFrame ==
  pc # "done" =>
    /\ HeldLines > 0 => /\ current_line = Index(current_line) * resolution.line_skip
                   /\ Index(current_line) >= 1
    /\ HeldLines = 0 => NextOfUse = Index(current_line)
    /\ 0 < HeldLines /\ HeldLines < buffer_size_lines =>
         line < current_line /\ NextOfUse = Index(current_line) - 1

\* There are enough of them for the frame and for those after it; in the first frame
\* no more than the image has.
IEnough ==
  pc # "done" =>
    /\ HeldLines = 0 => Index(current_line) >= lines_remaining
    /\ HeldLines > 0 => Index(current_line) + HeldLines > lines_remaining
    /\ file = <<>> =>
         Index(current_line) + HeldLines = IF HeldLines = 0 THEN logical_lines ELSE logical_lines + 1

\* What remains is an image smaller than a buffer, or whole buffers.
IRemaining ==
  /\ pc # "done" =>
       /\ lines_remaining = logical_lines - Len(file)
       /\ lines_remaining > 0
       /\ \/ file = <<>> /\ logical_lines <= buffer_size_lines
          \/ lines_remaining % buffer_size_lines = 0 /\ lines_remaining >= buffer_size_lines
  /\ pc = "done" => Len(file) = logical_lines

\* The lines of the first frame are the first of the image.
IFirst ==
  /\ pc # "done" /\ file = <<>> => \A i \in 1 .. HeldLines : buffered[i] = ImageLines[i]
  /\ pc # "done" /\ file # <<>> => logical_lines > buffer_size_lines
  /\ pc = "done" /\ buffer_size_lines >= logical_lines => file = ImageLines

IRead == ReadTypeOK /\ IBuffer /\ IFrame /\ IEnough /\ IRemaining /\ IFirst

-----------------------------------------------------------------------------
(* What the constants give *)

LEMMA Sizes ==
  ASSUME ReadTypeOK
  PROVE  /\ resolution.line_skip \in 1 .. PhysicalLines
         /\ LineBytes \in Nat \ {0}
         /\ buffer_size_lines \in Nat \ {0}
         /\ Capacity = LineBytes * buffer_size_lines
         /\ logical_lines \in Nat \ {0}
         /\ logical_lines <= buffer_size_lines \/ logical_lines % buffer_size_lines = 0
<1> DEFINE r == resolution
<1>1. r.width \in Nat \ {0} /\ r.line_skip \in 1 .. PhysicalLines
  BY ResolutionAssumption DEF ReadTypeOK
<1>2. LineBytes \in Nat \ {0}
  BY <1>1 DEF LineBytes
<1>3. Capacity \in Nat \ {0} /\ Capacity % LineBytes = 0
  BY CapacityAssumption DEF ReadTypeOK, LineBytes
<1>4. buffer_size_lines \in Nat \ {0} /\ Capacity = LineBytes * buffer_size_lines
  BY <1>2, <1>3, WholeLines DEF buffer_size_lines
<1>5. logical_lines \in Nat \ {0}
  BY <1>1, LinesAssumption, SMT DEF logical_lines
<1>6. logical_lines <= buffer_size_lines \/ logical_lines % buffer_size_lines = 0
  BY BuffersAssumption DEF ReadTypeOK, logical_lines, buffer_size_lines, LineBytes
<1> QED
  BY <1>1, <1>2, <1>4, <1>5, <1>6

\* Index, as IndexSteps has it for the resolution.
LEMMA Indexes ==
  ASSUME ReadTypeOK
  PROVE  /\ Index(0) = 0
         /\ Index(PhysicalLines) = logical_lines
         /\ \A l \in 1 .. PhysicalLines :
              /\ Index(l) \in Nat
              /\ l % resolution.line_skip = 0 =>
                   /\ Index(l - 1) = Index(l) - 1
                   /\ l = Index(l) * resolution.line_skip /\ Index(l) >= 1
              /\ l % resolution.line_skip # 0 => Index(l - 1) = Index(l)
<1>1. resolution.line_skip \in Nat \ {0}
  BY Sizes, LinesAssumption
<1>2. Index(0) = 0
  BY <1>1, SMT DEF Index
<1>3. ASSUME NEW l \in 1 .. PhysicalLines
      PROVE  /\ Index(l) \in Nat
             /\ l % resolution.line_skip = 0 =>
                  /\ Index(l - 1) = Index(l) - 1
                  /\ l = Index(l) * resolution.line_skip /\ Index(l) >= 1
             /\ l % resolution.line_skip # 0 => Index(l - 1) = Index(l)
  <2>1. l \in Nat \ {0}
    BY LinesAssumption
  <2> QED
    BY <1>1, <2>1, IndexSteps DEF Index
<1> QED
  BY <1>2, <1>3 DEF Index, logical_lines

-----------------------------------------------------------------------------
(* The steps *)

LEMMA Start == Init => IRead
<1> SUFFICES ASSUME Init PROVE IRead
  OBVIOUS
<1>1. ReadTypeOK
  BY LinesAssumption, ResolutionAssumption, SMT DEF Init, ReadTypeOK, logical_lines
<1>2. /\ HeldLines = 0 /\ Index(current_line) = logical_lines
      /\ LineBytes * HeldLines = 0
  BY <1>1, Indexes, Sizes DEF Init, HeldLines
<1>3. IBuffer /\ IFrame /\ IEnough
  BY <1>1, <1>2, Sizes, Indexes DEF Init, IBuffer, IFrame, IEnough, NextOfUse
<1>4. IRemaining /\ IFirst
  BY <1>1, <1>2, Sizes DEF Init, IRemaining, IFirst, HeldLines
<1> QED
  BY <1>1, <1>3, <1>4 DEF IRead

\* No line is taken: those still of use are the same.
LEMMA StepSkip ==
  ASSUME IRead, SkipLine
  PROVE  IRead'
<1> USE DEF IRead
<1>1. /\ UNCHANGED <<resolution, current_line, lines_remaining, buffer_index, buffered, file>>
      /\ pc = "line" /\ line \in 1 .. PhysicalLines /\ line' = line - 1
      /\ pc' = IF line = 1 THEN "write" ELSE "line"
  BY DEF SkipLine, NextLine, ReadTypeOK
<1>2. ReadTypeOK'
  BY <1>1, LinesAssumption DEF ReadTypeOK
<1>3. /\ HeldLines' = HeldLines /\ logical_lines' = logical_lines /\ LineBytes' = LineBytes
      /\ buffer_size_lines' = buffer_size_lines /\ ImageLines' = ImageLines
      /\ \A l : Index(l)' = Index(l)
  BY <1>1 DEF HeldLines, logical_lines, LineBytes, buffer_size_lines, ImageLines, Index
<1>4. IBuffer' /\ IRemaining' /\ IFirst' /\ IEnough'
  BY <1>1, <1>3 DEF IBuffer, IRemaining, IFirst, IEnough
<1>5. CASE HeldLines = buffer_size_lines
  <2>1. IFrame'
    BY <1>1, <1>3, <1>5, Sizes DEF IFrame
  <2> QED
    BY <1>2, <1>4, <2>1
<1>6. CASE HeldLines # buffer_size_lines
  <2>1. HeldLines \in Nat /\ HeldLines < buffer_size_lines
    BY <1>6, Sizes DEF HeldLines, IBuffer, ReadTypeOK
  <2>2. buffer_index \in Nat /\ Capacity \in Nat /\ buffer_index < Capacity
    BY <2>1, Sizes, BytesOfLines, CapacityAssumption DEF IBuffer
  <2>3. line % resolution.line_skip # 0 \/ current_line < line
    BY <2>2, Sizes DEF SkipLine, Skipped, ReadTypeOK
  <2>4. NextOfUse' = NextOfUse /\ (line < current_line => line' < current_line')
    <3>1. /\ line \in 1 .. PhysicalLines /\ current_line \in 1 .. PhysicalLines
          /\ line' = line - 1 /\ current_line' = current_line
      BY <1>1 DEF ReadTypeOK
    <3>2. CASE line <= current_line
      <4>1. Index(line - 1) = Index(line)
        BY <2>3, <3>1, <3>2, Indexes
      <4> QED
        BY <1>3, <3>1, <3>2, <4>1 DEF NextOfUse
    <3>3. CASE current_line < line
      BY <1>3, <3>1, <3>3 DEF NextOfUse
    <3> QED
      BY <3>1, <3>2, <3>3
  <2>5. IFrame'
    BY <1>1, <1>3, <2>4 DEF IFrame
  <2> QED
    BY <1>2, <1>4, <2>5
<1> QED
  BY <1>5, <1>6

\* A line is taken: the next of use.
LEMMA StepRead ==
  ASSUME IRead, ReadLine
  PROVE  IRead'
<1> USE DEF IRead
<1>1. /\ UNCHANGED <<resolution, lines_remaining, file>>
      /\ pc = "line" /\ line \in 1 .. PhysicalLines /\ line' = line - 1
      /\ pc' = IF line = 1 THEN "write" ELSE "line"
      /\ current_line' = line
      /\ buffered' = Append(buffered, line) /\ buffer_index' = buffer_index + LineBytes
      /\ line % resolution.line_skip = 0 /\ line <= current_line /\ buffer_index < Capacity
  BY Sizes DEF ReadLine, NextLine, ReadTypeOK, Skipped, IBuffer, HeldLines
<1>2. ReadTypeOK'
  BY <1>1, LinesAssumption DEF ReadTypeOK
<1>3. /\ logical_lines' = logical_lines /\ LineBytes' = LineBytes
      /\ buffer_size_lines' = buffer_size_lines /\ ImageLines' = ImageLines
      /\ \A l : Index(l)' = Index(l)
  BY <1>1 DEF logical_lines, LineBytes, buffer_size_lines, ImageLines, Index
<1>4. /\ HeldLines \in Nat /\ HeldLines' = HeldLines + 1
      /\ buffered \in Seq(1 .. PhysicalLines)
  BY <1>1, LinesAssumption DEF HeldLines, ReadTypeOK
<1>5. HeldLines < buffer_size_lines
  BY <1>1, <1>4, Sizes, BytesOfLines DEF IBuffer
<1>6. IBuffer'
  BY <1>1, <1>3, <1>4, <1>5, Sizes, BytesOfLines DEF IBuffer
<1>7. /\ Index(line - 1) = Index(line) - 1 /\ Index(line) \in Nat /\ Index(line) >= 1
      /\ line = Index(line) * resolution.line_skip
      /\ Index(current_line) \in Nat
  BY <1>1, Indexes DEF ReadTypeOK
<1>8. Index(line) = IF HeldLines = 0 THEN Index(current_line) ELSE Index(current_line) - 1
  BY <1>1, <1>4, <1>5, <1>7 DEF IFrame, NextOfUse, ReadTypeOK
<1>9. IFrame'
  BY <1>1, <1>3, <1>4, <1>7 DEF IFrame, NextOfUse
<1>10. IEnough'
  <2>1. /\ Index(current_line)' = Index(line) /\ pc # "done"
        /\ lines_remaining \in Int /\ lines_remaining' = lines_remaining
        /\ file' = file /\ logical_lines \in Nat /\ logical_lines' = logical_lines
    BY <1>1, <1>3, Sizes DEF ReadTypeOK
  <2>2. CASE HeldLines = 0
    BY <1>4, <1>7, <1>8, <2>1, <2>2 DEF IEnough
  <2>3. CASE HeldLines > 0
    BY <1>4, <1>7, <1>8, <2>1, <2>3 DEF IEnough
  <2> QED
    BY <1>4, <2>2, <2>3
<1>11. IRemaining'
  BY <1>1, <1>3 DEF IRemaining
<1>12. IFirst'
  <2>1. ASSUME file = <<>> PROVE buffered'[HeldLines + 1] = ImageLines[HeldLines + 1]
    <3>1. Index(line) = logical_lines - HeldLines
      <4>1. logical_lines \in Nat /\ pc # "done"
        BY <1>1, Sizes
      <4>2. CASE HeldLines = 0
        BY <1>4, <1>7, <1>8, <2>1, <4>1, <4>2 DEF IEnough
      <4>3. CASE HeldLines > 0
        BY <1>4, <1>7, <1>8, <2>1, <4>1, <4>3 DEF IEnough
      <4> QED
        BY <1>4, <4>2, <4>3
    <3>2. HeldLines + 1 \in 1 .. logical_lines
      BY <1>4, <1>7, <3>1, Sizes
    <3>3. ImageLines[HeldLines + 1] = Index(line) * resolution.line_skip
      BY <1>4, <1>7, <3>1, <3>2, Sizes DEF ImageLines
    <3> QED
      BY <1>1, <1>4, <1>7, <3>3 DEF HeldLines
  <2>2. \A i \in 1 .. HeldLines : buffered'[i] = buffered[i]
    BY <1>1, <1>4 DEF HeldLines
  <2>3. /\ pc # "done" /\ pc' # "done" /\ file' = file
        /\ \A i \in 1 .. HeldLines + 1 : i \in 1 .. HeldLines \/ i = HeldLines + 1
    BY <1>1, <1>4
  <2> QED
    BY <1>3, <1>4, <2>1, <2>2, <2>3 DEF IFirst
<1> QED
  BY <1>2, <1>6, <1>9, <1>10, <1>11, <1>12

\* The end of a frame: its lines are those of a buffer, or of the image.
LEMMA FrameFull ==
  ASSUME IRead, pc = "write"
  PROVE  /\ HeldLines \in Nat /\ HeldLines > 0
         /\ \/ HeldLines = buffer_size_lines
            \/ file = <<>> /\ HeldLines = logical_lines
         /\ file = <<>> => HeldLines <= logical_lines
         /\ Index(current_line) \in Nat
<1> USE DEF IRead
<1>1. /\ HeldLines \in Nat /\ HeldLines <= buffer_size_lines /\ line = 0
      /\ Index(current_line) \in Nat /\ current_line \in 1 .. PhysicalLines
      /\ NextOfUse = 0
  BY Indexes DEF ReadTypeOK, IBuffer, HeldLines, NextOfUse
<1>2. HeldLines > 0
  <2>1. lines_remaining \in Int /\ lines_remaining > 0
    BY DEF IRemaining, ReadTypeOK
  <2>2. HeldLines # 0
    BY <1>1, <2>1 DEF IFrame, IEnough
  <2> QED
    BY <1>1, <2>2
<1>3. CASE HeldLines = buffer_size_lines
  BY <1>1, <1>2, <1>3, Sizes DEF IFrame, IEnough
<1>4. CASE HeldLines < buffer_size_lines
  <2>1. Index(current_line) = 1
    BY <1>1, <1>2, <1>4 DEF IFrame
  <2>2. HeldLines >= lines_remaining
    BY <1>1, <1>2, <2>1 DEF IEnough, ReadTypeOK
  <2>3. file = <<>>
    BY <1>1, <1>4, <2>2, Sizes DEF IRemaining, ReadTypeOK
  <2> QED
    BY <1>1, <1>2, <2>1, <2>3, Sizes DEF IEnough
<1> QED
  BY <1>1, <1>3, <1>4, Sizes

LEMMA StepWrite ==
  ASSUME IRead, WriteBuffer
  PROVE  IRead'
<1> USE DEF IRead
<1>1. /\ pc = "write" /\ UNCHANGED <<resolution, current_line>>
      /\ file' = file \o buffered /\ buffered' = <<>> /\ buffer_index' = 0
      /\ lines_remaining' = lines_remaining - buffer_size_lines
      /\ IF lines_remaining' > 0 THEN pc' = "line" /\ line' = PhysicalLines
                                 ELSE pc' = "done" /\ line' = line
  BY DEF WriteBuffer
<1>2. ReadTypeOK'
  BY <1>1, LinesAssumption, Sizes DEF ReadTypeOK
<1>3. /\ logical_lines' = logical_lines /\ LineBytes' = LineBytes
      /\ buffer_size_lines' = buffer_size_lines /\ ImageLines' = ImageLines
      /\ \A l : Index(l)' = Index(l)
  BY <1>1 DEF logical_lines, LineBytes, buffer_size_lines, ImageLines, Index
<1>4. /\ HeldLines' = 0
      /\ Len(file) \in Nat /\ Len(file') = Len(file) + HeldLines /\ (file = <<>> <=> Len(file) = 0)
  BY <1>1 DEF HeldLines, ReadTypeOK
<1>5. HeldLines \in Nat /\ HeldLines > 0 /\ file' # <<>>
  BY <1>1, <1>4, FrameFull
<1>6. IBuffer'
  BY <1>1, <1>3, <1>4, Sizes DEF IBuffer
<1>7. IFrame'
  <2>1. HeldLines' = 0 /\ ~(HeldLines' > 0)
    BY <1>4
  <2>2. pc' = "line" => NextOfUse' = Index(current_line)'
    BY <1>1, <1>3, LinesAssumption DEF NextOfUse, ReadTypeOK
  <2> QED
    BY <1>1, <2>1, <2>2 DEF IFrame
<1>8. IEnough'
  <2>1. /\ Index(current_line)' = Index(current_line) /\ Index(current_line) \in Nat
        /\ Index(current_line) + HeldLines > lines_remaining
        /\ lines_remaining \in Int /\ buffer_size_lines \in Nat /\ HeldLines <= buffer_size_lines
    BY <1>1, <1>3, <1>5, FrameFull, Sizes DEF IEnough, IBuffer, ReadTypeOK
  <2>2. Index(current_line) >= lines_remaining'
    BY <1>1, <1>5, <2>1
  <2> QED
    BY <1>4, <1>5, <2>1, <2>2 DEF IEnough
<1>9. IRemaining'
  <2>1. CASE logical_lines <= buffer_size_lines /\ file = <<>>
    <3>1. HeldLines = logical_lines /\ lines_remaining = logical_lines
      BY <1>1, <1>4, <2>1, FrameFull, Sizes DEF IRemaining
    <3> QED
      BY <1>1, <1>3, <1>4, <2>1, <3>1, Sizes DEF IRemaining
  <2>2. CASE ~(logical_lines <= buffer_size_lines /\ file = <<>>)
    <3>1. lines_remaining % buffer_size_lines = 0 /\ lines_remaining >= buffer_size_lines
      BY <1>1, <2>2 DEF IRemaining
    <3>2. HeldLines = buffer_size_lines /\ lines_remaining = logical_lines - Len(file)
      BY <1>1, <2>2, FrameFull, Sizes DEF IRemaining, IBuffer
    <3>3. lines_remaining' > 0 => /\ lines_remaining' % buffer_size_lines = 0
                                  /\ lines_remaining' >= buffer_size_lines
      BY <1>1, <3>1, BufferLess, Sizes DEF ReadTypeOK
    <3>4. /\ logical_lines \in Nat /\ buffer_size_lines \in Nat /\ lines_remaining \in Int
          /\ pc' \in {"line", "done"} /\ (pc' = "line" <=> lines_remaining' > 0)
      BY <1>1, Sizes DEF ReadTypeOK
    <3>5. lines_remaining' = logical_lines - Len(file')
      BY <1>1, <1>4, <3>2, <3>4
    <3>6. pc' = "done" => Len(file') = logical_lines
      BY <1>1, <1>4, <3>1, <3>2, <3>4, <3>5
    <3> QED
      BY <1>3, <3>3, <3>4, <3>5, <3>6 DEF IRemaining
  <2> QED
    BY <2>1, <2>2
<1>10. IFirst'
  <2>1. ASSUME pc' = "line" PROVE logical_lines > buffer_size_lines
    BY <1>1, <1>4, <2>1, Sizes DEF IRemaining, ReadTypeOK
  <2>2. ASSUME pc' = "done", buffer_size_lines >= logical_lines PROVE file' = ImageLines
    <3>1. file = <<>> /\ HeldLines = logical_lines
      BY <1>1, <2>2, FrameFull, Sizes DEF IFirst
    <3>2. file' = buffered
      BY <1>1, <3>1 DEF ReadTypeOK
    <3>3. \A i \in 1 .. logical_lines : buffered[i] = ImageLines[i]
      BY <1>1, <3>1 DEF IFirst
    <3>4. buffered = [i \in 1 .. logical_lines |-> buffered[i]]
      BY <3>1 DEF HeldLines, ReadTypeOK
    <3> QED
      BY <3>2, <3>3, <3>4 DEF ImageLines
  <2> QED
    BY <1>1, <1>3, <1>5, <2>1, <2>2 DEF IFirst
<1> QED
  BY <1>2, <1>6, <1>7, <1>8, <1>9, <1>10

LEMMA IReadHolds == Spec => []IRead
<1>1. ASSUME IRead, UNCHANGED vars PROVE IRead'
  BY <1>1, ZenonT(40)
  DEF vars, IRead, ReadTypeOK, IBuffer, IFrame, IEnough, IRemaining, IFirst, NextOfUse,
      Index, HeldLines, logical_lines, LineBytes, buffer_size_lines, ImageLines
<1>2. IRead /\ [Next]_vars => IRead'
  BY <1>1, StepSkip, StepRead, StepWrite DEF Next
<1> QED
  BY Start, <1>2, PTL DEF Spec

-----------------------------------------------------------------------------
\* The buffer is never overrun, however the lines fall (ov7675.c:395).
THEOREM BufferNeverOverrun == Spec => []BufferFits
<1>1. IRead => BufferFits
  <2> SUFFICES ASSUME IRead PROVE BufferFits
    OBVIOUS
  <2>1. HeldLines \in Nat /\ HeldLines <= buffer_size_lines
    BY DEF IRead, IBuffer, ReadTypeOK, HeldLines
  <2>2. ~(LineBytes * buffer_size_lines < LineBytes * HeldLines)
    BY <2>1, Sizes, BytesOfLines DEF IRead
  <2> QED
    BY <2>1, <2>2, Sizes, BytesOfLines DEF IRead, IBuffer, BufferFits
<1> QED
  BY <1>1, IReadHolds, PTL

\* The file has as many rows as its header says, in however many frames (ov7675.c:388).
THEOREM FileIsComplete == Spec => []FileComplete
<1>1. IRead => FileComplete
  BY DEF IRead, IRemaining, FileComplete
<1> QED
  BY <1>1, IReadHolds, PTL

\* An image that fits the buffer is the lines of one frame, each once.
THEOREM OneFrameIsExact == Spec => []OneFrameExact
<1>1. IRead => OneFrameExact
  BY Sizes DEF IRead, IFirst, OneFrameExact
<1> QED
  BY <1>1, IReadHolds, PTL

-----------------------------------------------------------------------------
(* The mean of the image *)

LEMMA Products ==
  ASSUME NEW n \in Nat, NEW a \in Nat, NEW b \in Nat, a <= b
  PROVE  n * a \in Nat /\ n * a <= n * b
<1>1. PICK d \in Nat : b = a + d
  <2>1. b - a \in Nat
    OBVIOUS
  <2> QED
    BY <2>1
<1>2. n * a \in Nat /\ n * d \in Nat
  BY SMT
<1>3. n * (a + d) = (n * a) + (n * d)
  BY SMT
<1> QED
  BY <1>1, <1>2, <1>3

\* A sum of n numbers from lo to hi, with one more.
LEMMA SumWithOneMore ==
  ASSUME NEW n \in Nat, NEW sum \in Nat, NEW lo \in Nat, NEW hi \in Nat, NEW m \in Nat,
         n * lo <= sum, sum <= n * hi, NEW less \in Nat, NEW more \in Nat,
         less <= lo, less <= m, hi <= more, m <= more
  PROVE  (n + 1) * less <= sum + m /\ sum + m <= (n + 1) * more
<1>1. n * less \in Nat /\ n * less <= n * lo /\ n * hi <= n * more /\ n * lo \in Nat
      /\ n * hi \in Nat /\ n * more \in Nat
  BY Products
<1>2. (n + 1) * less = (n * less) + less /\ (n + 1) * more = (n * more) + more
  BY SMT
<1> QED
  BY <1>1, <1>2

LEMMA MeanOfSum ==
  ASSUME NEW n \in Nat \ {0}, NEW held \in Nat \ {0}, NEW sum \in Nat, NEW lo \in Nat,
         NEW hi \in Nat, n * lo <= sum, sum <= n * hi
  PROVE  LET mean == (held * sum) \div (held * n)
         IN  mean \in Nat /\ lo <= mean /\ mean <= hi
<1> DEFINE d == held * n
           x == held * sum
           q == x \div d
<1>1. d \in Nat \ {0} /\ x \in Nat
  BY SMT
<1>2. held * (n * lo) = d * lo /\ held * (n * hi) = d * hi
  BY SMT
<1>3. n * lo \in Nat /\ n * hi \in Nat
  BY SMT
<1>4. d * lo <= x /\ x <= d * hi
  BY <1>2, <1>3, Products
<1> HIDE DEF d, x
<1>5. q \in Nat /\ d * q <= x /\ x < d * (q + 1)
  BY <1>1, SMT
<1> HIDE DEF q
<1>6. lo <= q
  <2> SUFFICES ASSUME q < lo PROVE FALSE
    BY <1>5
  <2>1. d * (q + 1) <= d * lo
    BY <1>1, <1>5, Products
  <2>2. d * (q + 1) \in Int /\ d * lo \in Int
    BY <1>1, <1>5, SMT
  <2> QED
    BY <1>1, <1>4, <1>5, <2>1, <2>2
<1>7. q <= hi
  <2> SUFFICES ASSUME hi < q PROVE FALSE
    BY <1>5
  <2>1. d * (hi + 1) <= d * q
    BY <1>1, <1>5, Products
  <2>2. d * (hi + 1) = (d * hi) + d /\ d * hi \in Int /\ d * q \in Int
    BY <1>1, <1>5, SMT
  <2> QED
    BY <1>1, <1>4, <1>5, <2>1, <2>2
<1> QED
  BY <1>5, <1>6, <1>7 DEF q, d, x

\* The sum is one of a mean for each buffer written; at the end they are all of the image.
IMeans ==
  /\ means \in Seq(0 .. 255) /\ sub_mean_rgb \in Nat
  /\ do_mean => /\ (buffer_size_lines * Len(means)) + lines_remaining = logical_lines
                /\ \/ Len(means) = 0 /\ sub_mean_rgb = 0
                   \/ \E i, j \in 1 .. Len(means) :
                        /\ Len(means) * means[i] <= sub_mean_rgb
                        /\ sub_mean_rgb <= Len(means) * means[j]
  /\ pc = "done" /\ do_mean => lines_remaining = 0 /\ mean_rgb = ImageMean(sub_mean_rgb)

\* An image is a whole number of buffers at each resolution: VGA is 4, QVGA 1.
WholeBuffers == \A r \in Resolutions :
                  (PhysicalLines \div r.line_skip) % (Capacity \div (2 * r.width)) = 0

LEMMA MeansStart ==
  ASSUME Init
  PROVE  IMeans
<1>1. means = <<>> /\ sub_mean_rgb = 0 /\ lines_remaining = logical_lines /\ pc = "line"
  BY DEF Init
<1>2. buffer_size_lines \in Nat /\ logical_lines \in Nat
  BY Start, Sizes DEF IRead
<1>3. Len(means) = 0 /\ buffer_size_lines * 0 = 0
  BY <1>1, <1>2
<1> QED
  BY <1>1, <1>2, <1>3 DEF IMeans

LEMMA MeansAppend ==
  ASSUME NEW s \in Seq(0 .. 255), NEW m \in 0 .. 255, NEW sum \in Nat, NEW n \in Nat,
         n = Len(s),
         \/ n = 0 /\ sum = 0
         \/ \E i, j \in 1 .. n : n * s[i] <= sum /\ sum <= n * s[j]
  PROVE  /\ Append(s, m) \in Seq(0 .. 255) /\ Len(Append(s, m)) = n + 1
         /\ \E i, j \in 1 .. n + 1 : /\ (n + 1) * Append(s, m)[i] <= sum + m
                                     /\ sum + m <= (n + 1) * Append(s, m)[j]
<1> DEFINE u == Append(s, m)
<1>1. /\ u \in Seq(0 .. 255) /\ Len(u) = n + 1 /\ u[n + 1] = m
      /\ \A i \in 1 .. n : u[i] = s[i]
  OBVIOUS
<1> HIDE DEF u
<1>2. CASE n = 0 /\ sum = 0
  <2>1. 1 \in 1 .. n + 1 /\ (n + 1) * u[1] = m /\ sum + m = m
    BY <1>1, <1>2
  <2> QED
    BY <1>1, <2>1 DEF u
<1>3. CASE \E i, j \in 1 .. n : n * s[i] <= sum /\ sum <= n * s[j]
  <2>1. PICK i \in 1 .. n, j \in 1 .. n : n * s[i] <= sum /\ sum <= n * s[j]
    BY <1>3
  <2>0. s[i] \in 0 .. 255 /\ s[j] \in 0 .. 255
    <3>1. s \in Seq(0 .. 255) /\ i \in 1 .. Len(s) /\ j \in 1 .. Len(s)
      BY <2>1
    <3> QED
      BY <3>1
  <2>2. s[i] \in Nat /\ s[j] \in Nat /\ m \in Nat
    <3>1. \A x \in 0 .. 255 : x \in Nat
      OBVIOUS
    <3> QED
      BY <2>0, <3>1, Zenon
  <2>3. PICK a \in 1 .. n + 1 : u[a] <= s[i] /\ u[a] <= m /\ u[a] \in Nat
    <3>1. CASE s[i] <= m
      <4>1. i \in 1 .. n + 1 /\ u[i] = s[i]
        BY <1>1
      <4> QED
        BY <2>2, <3>1, <4>1
    <3>2. CASE m < s[i]
      <4>1. n + 1 \in 1 .. n + 1 /\ u[n + 1] = m
        BY <1>1
      <4> QED
        BY <2>2, <3>2, <4>1
    <3> QED
      BY <2>2, <3>1, <3>2
  <2>4. PICK b \in 1 .. n + 1 : s[j] <= u[b] /\ m <= u[b] /\ u[b] \in Nat
    <3>1. CASE m <= s[j]
      <4>1. j \in 1 .. n + 1 /\ u[j] = s[j]
        BY <1>1
      <4> QED
        BY <2>2, <3>1, <4>1
    <3>2. CASE s[j] < m
      <4>1. n + 1 \in 1 .. n + 1 /\ u[n + 1] = m
        BY <1>1
      <4> QED
        BY <2>2, <3>2, <4>1
    <3> QED
      BY <2>2, <3>1, <3>2
  <2>6. (n + 1) * u[a] <= sum + m /\ sum + m <= (n + 1) * u[b]
    BY <2>1, <2>2, <2>3, <2>4, SumWithOneMore
  <2> QED
    BY <1>1, <2>6 DEF u
<1> QED
  BY <1>2, <1>3

LEMMA MeansWrite ==
  ASSUME WholeBuffers, IRead, IMeans, WriteBuffer
  PROVE  IMeans'
<1>1. /\ pc = "write" /\ UNCHANGED <<resolution, do_mean>>
      /\ lines_remaining' = lines_remaining - buffer_size_lines
      /\ BufferMean
      /\ pc' = "done" => /\ ~(lines_remaining' > 0)
                         /\ do_mean => mean_rgb' = ImageMean(sub_mean_rgb')
  BY DEF WriteBuffer
<1>2. /\ buffer_size_lines \in Nat \ {0} /\ logical_lines \in Nat \ {0} /\ lines_remaining \in Int
      /\ logical_lines % buffer_size_lines = 0
  BY Sizes DEF IRead, ReadTypeOK, WholeBuffers, logical_lines, buffer_size_lines, LineBytes
<1>3. buffer_size_lines' = buffer_size_lines /\ logical_lines' = logical_lines
  BY <1>1 DEF logical_lines, LineBytes, buffer_size_lines
<1>4. lines_remaining >= buffer_size_lines
  <2>1. CASE file = <<>> /\ logical_lines <= buffer_size_lines
    <3>1. lines_remaining = logical_lines
      <4>1. Len(file) = 0
        BY <2>1
      <4> QED
        BY <1>1, <1>2, <4>1 DEF IRead, IRemaining
    <3>2. \A p \in Nat \ {0}, d \in Nat \ {0} : p <= d /\ p % d = 0 => p = d
      BY SMT
    <3> QED
      BY <1>2, <2>1, <3>1, <3>2
  <2>2. CASE lines_remaining % buffer_size_lines = 0 /\ lines_remaining >= buffer_size_lines
    BY <2>2
  <2> QED
    BY <1>1, <2>1, <2>2 DEF IRead, IRemaining
<1>5. pc' = "done" => lines_remaining' = 0
  BY <1>1, <1>2, <1>4
<1>6. CASE ~do_mean
  BY <1>1, <1>6 DEF BufferMean, IMeans
<1>7. CASE do_mean
  <2>1. PICK m \in Means : means' = Append(means, m) /\ sub_mean_rgb' = sub_mean_rgb + m
    BY <1>1, <1>7 DEF BufferMean
  <2>2. m \in 0 .. 255
    BY MeansAssumption
  <2>3. PICK n \in Nat : n = Len(means)
    BY DEF IMeans
  <2>4. /\ means' \in Seq(0 .. 255) /\ Len(means') = n + 1
        /\ \E i, j \in 1 .. n + 1 : /\ (n + 1) * means'[i] <= sub_mean_rgb'
                                    /\ sub_mean_rgb' <= (n + 1) * means'[j]
    BY <1>7, <2>1, <2>2, <2>3, MeansAppend, ZenonT(40) DEF IMeans
  <2>5. buffer_size_lines * (n + 1) = (buffer_size_lines * n) + buffer_size_lines
        /\ buffer_size_lines * n \in Int
    BY <1>2, SMT
  <2>6. (buffer_size_lines * (n + 1)) + lines_remaining' = logical_lines
    BY <1>1, <1>2, <1>7, <2>3, <2>5 DEF IMeans
  <2>7. ImageMean(sub_mean_rgb)' = ImageMean(sub_mean_rgb')
    BY <1>3 DEF ImageMean
  <2>8. sub_mean_rgb' \in Nat
    BY <2>1, <2>2 DEF IMeans
  <2> QED
    BY <1>1, <1>3, <1>5, <1>7, <2>4, <2>6, <2>7, <2>8 DEF IMeans
<1> QED
  BY <1>6, <1>7

LEMMA MeansStep ==
  ASSUME WholeBuffers, IRead, IMeans, [Next]_vars
  PROVE  IMeans'
<1>1. CASE WriteBuffer
  BY <1>1, MeansWrite
<1>2. CASE SkipLine \/ ReadLine \/ UNCHANGED vars
  <2>1. /\ UNCHANGED <<resolution, do_mean, means, sub_mean_rgb, lines_remaining, mean_rgb>>
        /\ pc' = pc \/ pc' # "done"
    BY <1>2 DEF SkipLine, ReadLine, NextLine, vars
  <2> QED
    BY <2>1 DEF IMeans, ImageMean, logical_lines, LineBytes, buffer_size_lines
<1> QED
  BY <1>1, <1>2 DEF Next

\* The mean is that of the image: no darker than its darkest buffer, no brighter than its
\* brightest, and the cut to uint8_t takes nothing off, when the image is whole buffers, as
\* 4 times 120 lines of VGA are, and 240 of QVGA (ov7675.c:430).
THEOREM MeanIsOfImage ==
  ASSUME WholeBuffers
  PROVE  Spec => []MeanOfImage
<1>1. Init => IRead /\ IMeans
  BY Start, MeansStart
<1>2. IRead /\ IMeans /\ [Next]_vars => IMeans'
  BY MeansStep
<1>3. IRead /\ IMeans => MeanOfImage
  <2> SUFFICES ASSUME IRead, IMeans, pc = "done", do_mean
               PROVE  \E i, j \in DOMAIN means : means[i] <= mean_rgb /\ mean_rgb <= means[j]
    BY DEF MeanOfImage
  <2>1. buffer_size_lines \in Nat \ {0} /\ logical_lines \in Nat \ {0}
    BY Sizes DEF IRead
  <2>2. PICK n \in Nat : n = Len(means)
    BY DEF IMeans
  <2>3. buffer_size_lines * n = logical_lines
    <3>1. buffer_size_lines * n \in Int
      BY <2>1, SMT
    <3> QED
      BY <2>2, <3>1 DEF IMeans
  <2>4. n # 0
    <3>1. buffer_size_lines * 0 = 0
      BY <2>1
    <3> QED
      BY <2>1, <2>3, <3>1
  <2>5. PICK i \in 1 .. n, j \in 1 .. n : n * means[i] <= sub_mean_rgb
                                          /\ sub_mean_rgb <= n * means[j]
    BY <2>2, <2>4 DEF IMeans
  <2>6. means[i] \in 0 .. 255 /\ means[j] \in 0 .. 255 /\ DOMAIN means = 1 .. n
    <3>1. means \in Seq(0 .. 255) /\ i \in 1 .. Len(means) /\ j \in 1 .. Len(means)
      BY <2>2, <2>5 DEF IMeans
    <3> QED
      BY <2>2, <3>1
  <2>7. means[i] \in Nat /\ means[j] \in Nat /\ means[j] <= 255
    <3>1. \A x \in 0 .. 255 : x \in Nat /\ x <= 255
      OBVIOUS
    <3> QED
      BY <2>6, <3>1, Zenon
  <2> DEFINE mean == (buffer_size_lines * sub_mean_rgb) \div (buffer_size_lines * n)
  <2>8. mean \in Nat /\ means[i] <= mean /\ mean <= means[j]
    <3>1. n \in Nat \ {0} /\ means[i] \in Nat /\ means[j] \in Nat /\ sub_mean_rgb \in Nat
      BY <2>4, <2>7 DEF IMeans
    <3> QED
      BY <2>1, <2>5, <3>1, MeanOfSum
  <2>9. mean_rgb = mean % 256
    BY <2>3 DEF IMeans, ImageMean
  <2> HIDE DEF mean
  <2>10. mean % 256 = mean
    BY <2>8, <2>7
  <2> QED
    BY <2>2, <2>5, <2>6, <2>8, <2>9, <2>10
<1> QED
  BY <1>1, <1>2, <1>3, IReadHolds, PTL DEF Spec

-----------------------------------------------------------------------------
(* Types *)

\* What IRead has no type for.
IOfMeans == /\ do_mean \in BOOLEAN
            /\ means \in Seq(Means) /\ sub_mean_rgb \in Nat
            /\ mean_rgb \in 0 .. 255

LEMMA ByteOfMean ==
  ASSUME ReadTypeOK, NEW sum \in Nat
  PROVE  ImageMean(sum) \in 0 .. 255
<1>1. buffer_size_lines \in Nat \ {0} /\ logical_lines \in Nat \ {0}
  BY Sizes
<1> DEFINE b == buffer_size_lines
           n == logical_lines
           m == (b * sum) \div n
<1>2. m \in Int
  <2> HIDE DEF b, n
  <2>1. b * sum \in Int
    BY <1>1, SMT DEF b, n
  <2> QED
    BY <1>1, <2>1, SMT DEF b, n
<1> HIDE DEF m
<1>3. m % 256 \in 0 .. 255
  BY <1>2
<1> QED
  BY <1>3 DEF ImageMean, m, n, b

LEMMA MeanTypesWrite ==
  ASSUME IRead, IOfMeans, WriteBuffer
  PROVE  IOfMeans'
<1>1. means' \in Seq(Means) /\ sub_mean_rgb' \in Nat
  <2>1. CASE do_mean
    <3>1. PICK m \in Means : means' = Append(means, m) /\ sub_mean_rgb' = sub_mean_rgb + m
      BY <2>1 DEF WriteBuffer, BufferMean
    <3>2. m \in Nat
      BY MeansAssumption
    <3> QED
      BY <3>1, <3>2 DEF IOfMeans
  <2>2. CASE ~do_mean
    BY <2>2 DEF WriteBuffer, BufferMean, IOfMeans
  <2> QED
    BY <2>1, <2>2
<1>2. mean_rgb' \in 0 .. 255
  <2>1. mean_rgb' = mean_rgb \/ mean_rgb' = ImageMean(sub_mean_rgb')
    BY DEF WriteBuffer
  <2>2. ImageMean(sub_mean_rgb') \in 0 .. 255
    BY <1>1, ByteOfMean DEF IRead
  <2> QED
    BY <2>1, <2>2, Zenon DEF IOfMeans
<1>3. do_mean' \in BOOLEAN
  BY Zenon DEF WriteBuffer, IOfMeans
<1> QED
  BY <1>1, <1>2, <1>3, Zenon DEF IOfMeans

\* The types of the variables of a reading.
LEMMA FrameTypes == Spec => []TypeOK
<1>1. Init => IOfMeans
  <2> SUFFICES ASSUME Init PROVE IOfMeans
    OBVIOUS
  <2>1. do_mean \in BOOLEAN
    BY Zenon DEF Init
  <2>2. means \in Seq(Means) /\ sub_mean_rgb \in Nat /\ mean_rgb \in 0 .. 255
    BY DEF Init
  <2> QED
    BY <2>1, <2>2, Zenon DEF IOfMeans
<1>2. IRead /\ IOfMeans /\ [Next]_vars => IOfMeans'
  <2> SUFFICES ASSUME IRead, IOfMeans, [Next]_vars PROVE IOfMeans'
    OBVIOUS
  <2>1. CASE WriteBuffer
    BY <2>1, MeanTypesWrite
  <2>2. CASE SkipLine \/ ReadLine \/ UNCHANGED vars
    BY <2>2, Zenon DEF SkipLine, ReadLine, vars, IOfMeans
  <2> QED
    BY <2>1, <2>2 DEF Next
<1>3. IRead /\ IOfMeans => TypeOK
  <2> SUFFICES ASSUME IRead, IOfMeans PROVE TypeOK
    OBVIOUS
  <2>1. buffer_index \in Nat
    <3>1. HeldLines \in Nat
      BY DEF IRead, ReadTypeOK, HeldLines
    <3> QED
      BY <3>1, Sizes, BytesOfLines DEF IRead, IBuffer
  <2> QED
    BY <2>1, Zenon DEF IRead, ReadTypeOK, IOfMeans, TypeOK
<1> QED
  BY <1>1, <1>2, <1>3, IReadHolds, PTL DEF Spec
=============================================================================
