---------------------------- MODULE FrameReadout ----------------------------
(***************************************************************************)
(* ov7675_capture_sdhc_buffered (ov7675.c:353-433): the camera sends the   *)
(* same scene frame after frame, a line at a time, and a buffer too small  *)
(* for an image takes a part of the lines out of each, to be appended to   *)
(* the file on the SD card.  Lines are numbered from PhysicalLines, the    *)
(* first a frame sends, down to 1; current_line is the last one taken.     *)
(* A line's pixels are abstracted to its number, a buffer's to their mean. *)
(***************************************************************************)
EXTENDS Integers, Sequences

CONSTANTS PhysicalLines,   \* VGA_HEIGHT
          Capacity,        \* capture->capacity, in bytes
          Resolutions,     \* [width, line_skip] of ov7675_resolutions
          Means            \* what _mean_rbg may return for a buffer

ASSUME LinesAssumption == PhysicalLines \in Nat \ {0}
ASSUME ResolutionAssumption ==
  \A r \in Resolutions : r.width \in Nat \ {0} /\ r.line_skip \in 1 .. PhysicalLines
\* image_buffer holds a whole number of lines, at least one, at each resolution.
ASSUME CapacityAssumption ==
  Capacity \in Nat \ {0} /\ \A r \in Resolutions : Capacity % (2 * r.width) = 0
\* An image is less than a buffer, or whole buffers: 4 times 120 lines of VGA, 240 of QVGA.
ASSUME BuffersAssumption ==
  \A r \in Resolutions :
    LET lines == PhysicalLines \div r.line_skip
        held == Capacity \div (2 * r.width)
    IN lines <= held \/ lines % held = 0
ASSUME MeansAssumption == Means \subseteq 0 .. 255

VARIABLES
  resolution,
  do_mean,           \* whether the mean of the image is asked for
  pc,                \* "line" in a frame, "write" after it, "done"
  line,              \* the line the camera sends next
  current_line,
  lines_remaining,
  buffer_index,      \* bytes in the buffer
  buffered,          \* the lines in the buffer
  file,              \* the lines in the file
  means,             \* what _mean_rbg returned for each buffer so far
  sub_mean_rgb,      \* their sum
  mean_rgb

vars == <<resolution, do_mean, pc, line, current_line, lines_remaining, buffer_index,
          buffered, file, means, sub_mean_rgb, mean_rgb>>

LineBytes == 2 * resolution.width
logical_lines == PhysicalLines \div resolution.line_skip
buffer_size_lines == Capacity \div LineBytes

TypeOK ==
  /\ resolution \in Resolutions /\ do_mean \in BOOLEAN
  /\ pc \in {"line", "write", "done"}
  /\ line \in 0 .. PhysicalLines
  /\ current_line \in 1 .. PhysicalLines
  /\ lines_remaining \in Int
  /\ buffer_index \in Nat
  /\ buffered \in Seq(1 .. PhysicalLines)
  /\ file \in Seq(1 .. PhysicalLines)
  /\ means \in Seq(Means) /\ sub_mean_rgb \in Nat
  /\ mean_rgb \in 0 .. 255

Init ==
  /\ resolution \in Resolutions /\ do_mean \in BOOLEAN
  /\ pc = "line"
  /\ line = PhysicalLines
  /\ current_line = PhysicalLines
  /\ lines_remaining = logical_lines
  /\ buffer_index = 0
  /\ buffered = <<>> /\ file = <<>> /\ means = <<>>
  /\ sub_mean_rgb = 0 /\ mean_rgb = 0

\* Mutants: the first line is taken for one of an earlier frame; every line is of
\* use; the buffer is not checked.
SkippedFromFirst(l) == \/ l % resolution.line_skip # 0
                       \/ current_line <= l
                       \/ buffer_index >= Capacity
SkippedAtNoResolution(l) == current_line < l \/ buffer_index >= Capacity
SkippedUnchecked(l) == l % resolution.line_skip # 0 \/ current_line < l

\* The lines a frame sends that are not read: of no use at this resolution, taken
\* from an earlier frame, or more than the buffer holds.
Skipped(l) == \/ l % resolution.line_skip # 0
              \/ current_line < l
              \/ buffer_index >= Capacity

\* Mutant: the loop runs one line too far.
NextLineToZero == /\ pc = "line"
                  /\ line' = line - 1
                  /\ pc' = IF line = 0 THEN "write" ELSE "line"

NextLine == /\ pc = "line"
            /\ line' = line - 1
            /\ pc' = IF line = 1 THEN "write" ELSE "line"

SkipLine == /\ NextLine
            /\ Skipped(line)
            /\ UNCHANGED <<resolution, do_mean, current_line, lines_remaining, buffer_index,
                           buffered, file, means, sub_mean_rgb, mean_rgb>>

ReadLine == /\ NextLine
            /\ ~Skipped(line)
            /\ current_line' = line
            /\ buffered' = Append(buffered, line)
            /\ buffer_index' = buffer_index + LineBytes
            /\ UNCHANGED <<resolution, do_mean, lines_remaining, file, means, sub_mean_rgb,
                           mean_rgb>>

\* Mutant: the sum of the means is not divided by their number.
ImageMeanSummed(sum) == sum % 256

\* The mean of the image from those of its buffers, converted to uint8_t.
ImageMean(sum) == ((buffer_size_lines * sum) \div logical_lines) % 256

\* The mean of the buffer, if it is asked for.
BufferMean ==
  IF do_mean THEN \E m \in Means : means' = Append(means, m) /\ sub_mean_rgb' = sub_mean_rgb + m
             ELSE UNCHANGED <<means, sub_mean_rgb>>

\* The end of a frame: the buffer goes to the file, and another frame is read
\* while lines remain.
WriteBuffer ==
  /\ pc = "write"
  /\ file' = file \o buffered
  /\ BufferMean
  /\ lines_remaining' = lines_remaining - buffer_size_lines
  /\ buffered' = <<>> /\ buffer_index' = 0
  /\ IF lines_remaining' > 0
     THEN pc' = "line" /\ line' = PhysicalLines /\ UNCHANGED mean_rgb
     ELSE /\ pc' = "done"
          /\ mean_rgb' = IF do_mean THEN ImageMean(sub_mean_rgb') ELSE mean_rgb
          /\ UNCHANGED line
  /\ UNCHANGED <<resolution, do_mean, current_line>>

Next == SkipLine \/ ReadLine \/ WriteBuffer

Spec == Init /\ [][Next]_vars

-----------------------------------------------------------------------------
(* Properties *)

\* The buffer is never overrun, however the lines fall (ov7675.c:395).
BufferFits == buffer_index <= Capacity

\* The file has as many rows as the BMP header written before it says.
FileComplete == pc = "done" => Len(file) = logical_lines

\* The lines of the image, in the order the camera sends them.
ImageLines == [i \in 1 .. logical_lines |-> (logical_lines + 1 - i) * resolution.line_skip]

\* An image that fits the buffer is the lines of one frame, each once.
OneFrameExact == pc = "done" /\ buffer_size_lines >= logical_lines => file = ImageLines

\* The mean is that of the image: no darker than its darkest buffer, no brighter
\* than its brightest, and no overflow on the way (ov7675.c:430).
MeanOfImage ==
  pc = "done" /\ do_mean =>
    \E i, j \in DOMAIN means : means[i] <= mean_rgb /\ mean_rgb <= means[j]

\* ov7675.c:360, "number of lines per frame which form the image": each of them is
\* in the file once, also when it takes several frames to read them.
EachLineOnce == pc = "done" => file = ImageLines
=============================================================================
