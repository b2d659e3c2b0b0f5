---------------------------- MODULE JpegEncoder -----------------------------
(***************************************************************************)
(* sdhc_write_jpg (jpg.c:28-102) and the encoder under it (tjpg.h): the    *)
(* image is read back from the SD card in bands of lines, into the lower   *)
(* half of the capture buffer, and encoded in rows of blocks, 8 lines      *)
(* each; the upper half is the encoder's scratch pool; its output goes to  *)
(* the card through a buffer of its own.  Of the output the model counts   *)
(* the bytes; a sample of the data units of the first row, which may be    *)
(* any, is encoded bit by bit, and then forgotten.                         *)
(***************************************************************************)
EXTENDS FrameReadout, JpegEntropy, ScratchPool

CONSTANTS BufferAddresses,   \* where the linker may put image_buffer
          RowBytes,          \* bound: the bytes a row of blocks is encoded in
          Samples            \* bound: data units of its first row, y, b and r in turn

ASSUME AddressAssumption == BufferAddresses \subseteq Nat \ {NULL}
\* Half the capture buffer holds a line.
ASSUME BandAssumption == \A r \in Resolutions : 4 * r.width <= Capacity
\* It holds a row of blocks, and the image is whole rows of them.
ASSUME BlockAssumption ==
  \A r \in Resolutions :
    LET held == (Capacity \div 2) \div (2 * r.width)
    IN  (PhysicalLines \div r.line_skip) % 8 = 0 /\ held >= 8 /\ held < 65536
\* The other half is more than the 10 kB the encoder is said to need (jpg.c:72-73).
ASSUME PoolAssumption == Capacity \div 2 >= 11264
ASSUME RowBytesAssumption == RowBytes \subseteq Nat
ASSUME SampleAssumption == Samples \subseteq Seq([1 .. 64 -> Int])

Block == 8
TJEI_BUFFER_SIZE == 1024

VARIABLES
  jpc,                   \* "idle", "setup", "band", "row", "units", "done"
  steps,                 \* what is left of the setup
  row_bytes,             \* what a row of this image takes
  y, yindex, buffered_lines,
  band,                  \* the lines of the image in the lower half of the buffer, 0 for none
  lines_read,
  read_failed,
  rows,                  \* the lines that went into the encoded rows
  deepest,               \* the last row of the buffer that was encoded, from 0
  sample,                \* data units of the row being encoded
  unit, unit_start,      \* how many are done, and where the last begins in the stream
  coded, bits,           \* the bytes they are encoded in, and the bits that fill none yet
  emitted,               \* bytes given to tjei_write
  output_buffer_count,
  written                \* bytes written to the file, all it has unless it was there before

bandVars == <<y, yindex, buffered_lines, band, lines_read, read_failed, rows, deepest>>
unitVars == <<sample, unit, unit_start, coded, bits>>
outputVars == <<emitted, output_buffer_count, written>>
jpegVars == <<jpc, steps, row_bytes, bandVars, unitVars, outputVars, poolVars>>

band_lines == (Capacity \div 2) \div LineBytes       \* bc.buffer_size_lines

-----------------------------------------------------------------------------
(* The encoder's memory and the headers of the file *)

New(name, size, alignment, used) ==
  [op |-> "new", object |-> Object(name, size, alignment, used)]
Forget(names) == [op |-> "forget", names |-> names]
Write(bytes) == [op |-> "write", bytes |-> bytes]

\* A header is written, and not used again.
Header(name, size, used) == <<New(name, size, 1, used), Write(used), Forget({name})>>

DQT == Write(2 + 2 + 1 + 64)
num_values(lens) == lens[1] + lens[2] + lens[3] + lens[4] + lens[5] + lens[6] + lens[7] + lens[8]
                    + lens[9] + lens[10] + lens[11] + lens[12] + lens[13] + lens[14] + lens[15]
                    + lens[16]
DHT(lens) == Write(2 + 2 + 1 + 16 + num_values(lens))

huff_expand == <<New("huffsize", 4 * 257, 1, 4 * 257), New("huffcode", 4 * 256 * 2, 2, 4 * 256 * 2),
                 Forget({"huffsize", "huffcode"})>>

\* TNEW(tmalloc, header) asks for a pointer's size, and 14 bytes are used.
ScanHeader == <<New("ScanHeader", 4, 4, 14), Write(14), Forget({"ScanHeader"})>>

encode_metadata ==
  Header("JPEGHeader", 20, 20) \o Header("Comment", 32, 32) \o <<DQT, DQT>>
  \o Header("FrameHeader", 19, 19)
  \o <<DHT(luma_dc_len), DHT(luma_ac_len), DHT(chroma_dc_len), DHT(chroma_ac_len)>>
  \o ScanHeader

imagedata_memory ==
  <<New("pqt", 2 * 64 * 4, 4, 2 * 64 * 4)>>
  \o [i \in 1 .. 5 |-> New(<<"du_y", "du_b", "du_r", "du", "dct_mcu">>[i], 256, 4, 256)]

tje_encode == <<New("TJEState", 4272, 4, 4272)>> \o huff_expand \o encode_metadata
              \o imagedata_memory

\* Mutant: one byte of the buffer more is filled than is flushed.
BufferedToTheEnd(n) ==
  /\ emitted' = emitted + n
  /\ written' = written + ((output_buffer_count + n) \div TJEI_BUFFER_SIZE) * (TJEI_BUFFER_SIZE - 1)
  /\ output_buffer_count' = (output_buffer_count + n) % TJEI_BUFFER_SIZE

\* tjei_write: the buffer is flushed whenever it holds one byte less than its size.
tjei_write(n) ==
  LET full == TJEI_BUFFER_SIZE - 1
      total == output_buffer_count + n
  IN  /\ emitted' = emitted + n
      /\ written' = written + (total \div full) * full
      /\ output_buffer_count' = total % full

-----------------------------------------------------------------------------
(* Actions *)

JpegInit ==
  /\ jpc = "idle" /\ steps = <<>>
  /\ row_bytes = 0
  /\ y = 0 /\ yindex = 0 /\ buffered_lines = 0
  /\ band = <<>> /\ lines_read = 0 /\ read_failed = FALSE
  /\ rows = <<>> /\ deepest = 0
  /\ sample = <<>> /\ unit = 0 /\ unit_start = 1 /\ coded = <<>> /\ bits = <<>>
  /\ emitted = 0 /\ output_buffer_count = 0 /\ written = 0
  /\ PoolInit

\* sdhc_write_jpg, up to tje_encode_with_func: what is left in the buffer is no line of
\* the file, and the upper half of it is cleared for the pool.
JpegOpen ==
  /\ jpc = "idle" /\ jpc' = "setup"
  /\ steps' = tje_encode
  /\ row_bytes' \in RowBytes
  /\ band' = [i \in 1 .. band_lines |-> 0]
  /\ \E address \in BufferAddresses : t_init(address + (Capacity \div 2), Capacity \div 2)
  /\ UNCHANGED <<y, yindex, buffered_lines, lines_read, read_failed, rows, deepest, unitVars,
                 outputVars>>

Step(op) == jpc = "setup" /\ steps # <<>> /\ Head(steps).op = op /\ steps' = Tail(steps)

JpegNew ==
  /\ Step("new")
  /\ TNew(Head(steps).object)
  /\ UNCHANGED <<jpc, row_bytes, bandVars, unitVars, outputVars>>

JpegForget ==
  /\ Step("forget")
  /\ TForget(Head(steps).names)
  /\ UNCHANGED <<jpc, row_bytes, bandVars, unitVars, outputVars>>

JpegWrite ==
  /\ Step("write")
  /\ tjei_write(Head(steps).bytes)
  /\ UNCHANGED <<jpc, row_bytes, bandVars, unitVars, poolVars>>

JpegStart ==
  /\ jpc = "setup" /\ steps = <<>>
  /\ jpc' = "band"
  /\ UNCHANGED <<steps, row_bytes, bandVars, unitVars, outputVars, poolVars>>

ToRow == jpc = "band" /\ y < logical_lines /\ jpc' = "row"
BandFrame == UNCHANGED <<steps, row_bytes, y, rows, deepest, unitVars, outputVars, poolVars>>

\* buffered_lines is uint16_t.
LessBlock(lines) == (lines - Block) % 65536

\* Mutant: the band is as many lines as the buffer holds.
WholeBand == band_lines

\* A band is a multiple of 8 lines, so a block does not fall into two.
read_lines == Block * (band_lines \div Block)

\* The next band is read from the file; at its end there are fewer lines, or none.
JpegFill ==
  /\ ToRow /\ buffered_lines = 0
  /\ LET left == Len(file) - lines_read
         n == IF left < read_lines THEN left ELSE read_lines
     IN  /\ band' = [i \in DOMAIN band |-> IF i <= n THEN file[lines_read + i] ELSE band[i]]
         /\ lines_read' = lines_read + n
         /\ buffered_lines' = LessBlock(n)
  /\ yindex' = 0
  /\ UNCHANGED read_failed
  /\ BandFrame

\* An error of fs_read, divided by the bytes of a line, is 0 lines: the counter wraps, so
\* nothing is read any more.
JpegFillFails ==
  /\ ToRow /\ buffered_lines = 0
  /\ read_failed' = TRUE
  /\ buffered_lines' = LessBlock(0)
  /\ yindex' = 0
  /\ UNCHANGED <<band, lines_read>>
  /\ BandFrame

JpegKeep ==
  /\ ToRow /\ buffered_lines # 0
  /\ buffered_lines' = LessBlock(buffered_lines)
  /\ UNCHANGED <<yindex, band, lines_read, read_failed>>
  /\ BandFrame

\* Mutant: rows are only held to the height of the image.
RowOfImage(row) == IF row >= logical_lines THEN logical_lines - 1 ELSE row

\* Rows past the buffer repeat its last.
SourceRow(row) == IF row >= band_lines THEN band_lines - 1 ELSE row

LineOfRow(row) == IF row < band_lines THEN band[row + 1] ELSE 0

\* A row of blocks.
JpegRow ==
  /\ jpc = "row"
  /\ IF y = 0 THEN jpc' = "units" /\ sample' \in Samples
              ELSE jpc' = "band" /\ UNCHANGED sample
  /\ LET source == [i \in 1 .. Block |-> SourceRow(yindex + i - 1)]
     IN  /\ rows' = rows \o [i \in 1 .. Block |-> LineOfRow(source[i])]
         /\ deepest' = IF source[Block] > deepest THEN source[Block] ELSE deepest
  /\ y' = y + Block /\ yindex' = yindex + Block
  /\ tjei_write(row_bytes)
  /\ UNCHANGED <<steps, row_bytes, buffered_lines, band, lines_read, read_failed, unit,
                 unit_start, coded, bits, poolVars>>

Component(i) == ((i - 1) % 3) + 1

\* The DC coefficient of the component's unit before.
Pred(i) == IF i <= 3 THEN 0 ELSE sample[i - 3][1]

JpegUnit ==
  /\ jpc = "units" /\ unit < Len(sample)
  /\ unit' = unit + 1
  /\ LET stream == bits \o EncodedUnit(Component(unit + 1), Pred(unit + 1), sample[unit + 1])
     IN  /\ coded' = coded \o FullBytes(stream)
         /\ bits' = Rest(stream)
  /\ unit_start' = 1 + Len(Unstuffed(coded)) + Len(bits)
  /\ UNCHANGED <<jpc, steps, sample, row_bytes, bandVars, outputVars, poolVars>>

JpegUnitsDone ==
  /\ jpc = "units" /\ unit = Len(sample)
  /\ jpc' = "band"
  /\ sample' = <<>> /\ unit' = 0 /\ unit_start' = 1 /\ coded' = <<>> /\ bits' = <<>>
  /\ UNCHANGED <<steps, row_bytes, bandVars, outputVars, poolVars>>

\* Mutant: what is left in the output buffer is lost.
FlushNothing(count) == 0

\* tjei_encode_main: the rest of the buffer.
Flushed(count) == count

\* The bits left fill a last byte, EOI follows, and the buffer is emptied.
JpegEnd ==
  /\ jpc = "band" /\ y >= logical_lines
  /\ jpc' = "done"
  /\ \E last \in {0, 1} :
       LET full == TJEI_BUFFER_SIZE - 1
           total == output_buffer_count + last + 2
       IN  /\ emitted' = emitted + last + 2
           /\ written' = written + (total \div full) * full + Flushed(total % full)
  /\ output_buffer_count' = 0
  /\ TForget({o.name : o \in live})
  /\ UNCHANGED <<steps, row_bytes, bandVars, unitVars>>

JpegNext ==
  \/ JpegOpen \/ JpegNew \/ JpegForget \/ JpegWrite \/ JpegStart
  \/ JpegFill \/ JpegFillFails \/ JpegKeep \/ JpegRow \/ JpegUnit \/ JpegUnitsDone \/ JpegEnd

JpegTypeOK ==
  /\ jpc \in {"idle", "setup", "band", "row", "units", "done"}
  /\ y \in 0 .. logical_lines /\ yindex \in 0 .. logical_lines
  /\ buffered_lines \in Nat /\ buffered_lines < 65536
  /\ lines_read \in 0 .. Len(file)
  /\ unit \in 0 .. Len(sample)
  /\ output_buffer_count \in 0 .. TJEI_BUFFER_SIZE - 1
  /\ pool_top <= pool_end

-----------------------------------------------------------------------------
(* Properties *)

\* Pixels are read from the lower half of the buffer only, where the bands are, though
\* the rows of an image run on past a band that could not be read (tjpg.h:1149-1168).
RowsInBand == (deepest + 1) * LineBytes <= Capacity \div 2

\* The encoder's objects never share or leave the memory of its pool (jpg.c:71-74, "this is
\* unlikely"), also the header allocated with a pointer's size (tjpg.h:1068).
ScratchHeld == Held

\* Unless a read fails, the JPEG is the image the camera sent, line for line, over all
\* bands, and every byte the encoder emitted is in the file (tjpg.h:523-545, 1149-1154).
JpegFileExact == jpc = "done" /\ ~read_failed => rows = file /\ written = emitted

\* A decoder reads back each data unit as it was, and stops where the encoder does, in
\* the middle of a byte or after a stuffed one (tjpg.h:595-692, 882-939).
BlockDecodes ==
  unit > 0 =>
    LET stream == Unstuffed(coded) \o bits
        read == ReadUnit(stream, unit_start, Pred(unit), IF Component(unit) = 1 THEN 1 ELSE 2)
    IN  read = [p |-> Len(stream) + 1, du |-> sample[unit]]
=============================================================================
