---------------------------- MODULE JpegEntropy -----------------------------
(***************************************************************************)
(* The entropy coder of the JPEG encoder (tjpg.h:359-417, 595-692,         *)
(* 882-939): Huffman tables expanded from their lengths, runs of zeroes,   *)
(* numbers of variable length, bits packed into bytes with a 0 stuffed     *)
(* after each 0xFF.  The data units, quantized coefficients in zig-zag     *)
(* order, are its input: the floating-point transform before it is not     *)
(* modelled.                                                               *)
(***************************************************************************)
EXTENDS Integers, Sequences, FiniteSets, SequencesExt, FiniteSetsExt

\* How many codes there are of each length, and the symbols in the order of their codes.
luma_dc_len == <<0, 1, 5, 1, 1, 1, 1, 1, 1, 0, 0, 0, 0, 0, 0, 0>>
chroma_dc_len == <<0, 3, 1, 1, 1, 1, 1, 1, 1, 1, 1, 0, 0, 0, 0, 0>>
dc_vals == <<0, 1, 2, 3, 4, 5, 6, 7, 8, 9, 10, 11>>
luma_ac_len == <<0, 2, 1, 3, 3, 2, 4, 3, 5, 5, 4, 4, 0, 0, 1, 125>>
luma_ac_vals ==
  <<1, 2, 3, 0, 4, 17, 5, 18, 33, 49, 65, 6, 19, 81, 97, 7, 34, 113, 20, 50, 129, 145, 161,
    8, 35, 66, 177, 193, 21, 82, 209, 240, 36, 51, 98, 114, 130, 9, 10, 22, 23, 24, 25, 26,
    37, 38, 39, 40, 41, 42, 52, 53, 54, 55, 56, 57, 58, 67, 68, 69, 70, 71, 72, 73, 74, 83,
    84, 85, 86, 87, 88, 89, 90, 99, 100, 101, 102, 103, 104, 105, 106, 115, 116, 117, 118,
    119, 120, 121, 122, 131, 132, 133, 134, 135, 136, 137, 138, 146, 147, 148, 149, 150,
    151, 152, 153, 154, 162, 163, 164, 165, 166, 167, 168, 169, 170, 178, 179, 180, 181,
    182, 183, 184, 185, 186, 194, 195, 196, 197, 198, 199, 200, 201, 202, 210, 211, 212,
    213, 214, 215, 216, 217, 218, 225, 226, 227, 228, 229, 230, 231, 232, 233, 234, 241,
    242, 243, 244, 245, 246, 247, 248, 249, 250>>
chroma_ac_len == <<0, 2, 1, 2, 4, 4, 3, 4, 7, 5, 4, 4, 0, 1, 2, 119>>
chroma_ac_vals ==
  <<0, 1, 2, 3, 17, 4, 5, 33, 49, 6, 18, 65, 81, 7, 97, 113, 19, 34, 50, 129, 8, 20, 66,
    145, 161, 177, 193, 9, 35, 51, 82, 240, 21, 98, 114, 209, 10, 22, 36, 52, 225, 37, 241,
    23, 24, 25, 26, 38, 39, 40, 41, 42, 53, 54, 55, 56, 57, 58, 67, 68, 69, 70, 71, 72, 73,
    74, 83, 84, 85, 86, 87, 88, 89, 90, 99, 100, 101, 102, 103, 104, 105, 106, 115, 116,
    117, 118, 119, 120, 121, 122, 130, 131, 132, 133, 134, 135, 136, 137, 138, 146, 147,
    148, 149, 150, 151, 152, 153, 154, 162, 163, 164, 165, 166, 167, 168, 169, 170, 178,
    179, 180, 181, 182, 183, 184, 185, 186, 194, 195, 196, 197, 198, 199, 200, 201, 202,
    210, 211, 212, 213, 214, 215, 216, 217, 218, 226, 227, 228, 229, 230, 231, 232, 233,
    234, 242, 243, 244, 245, 246, 247, 248, 249, 250>>

-----------------------------------------------------------------------------
(* tjei_huff_expand *)

get_code_lengths(bits) == FlattenSeq([i \in 1 .. 16 |-> [j \in 1 .. bits[i] |-> i]])

\* Mutant: the code is not shifted where the lengths grow.
ShiftedNot(count, n, size) == count

\* What count codes of length n add to a later code: one each, shifted as the lengths grow.
Shifted(count, n, size) == count * 2^(size - n)

\* Codes of one length are consecutive: a code is what all those before it add to 0.
get_codes(huffsize) ==
  [k \in DOMAIN huffsize |->
    MapThenSumSet(LAMBDA n : Shifted(Cardinality({j \in 1 .. k - 1 : huffsize[j] = n}),
                                     n, huffsize[k]),
                  1 .. huffsize[k])]

\* For each symbol, the length and the bits of its code.
get_extended(bits, vals) ==
  LET huffsize == get_code_lengths(bits)
      huffcode == get_codes(huffsize)
  IN  [v \in {vals[k] : k \in DOMAIN vals} |->
        LET k == CHOOSE i \in DOMAIN vals : vals[i] = v
        IN  [size |-> huffsize[k], code |-> huffcode[k]]]

LUMA_DC == get_extended(luma_dc_len, dc_vals)
CHROMA_DC == get_extended(chroma_dc_len, dc_vals)
LUMA_AC == get_extended(luma_ac_len, luma_ac_vals)
CHROMA_AC == get_extended(chroma_ac_len, chroma_ac_vals)

-----------------------------------------------------------------------------
(* Bits and numbers *)

Bits(n, code) == [i \in 1 .. n |-> (code \div 2^(n - i)) % 2]

Number(bits) ==
  LET n[k \in 0 .. Len(bits)] == IF k = 0 THEN 0 ELSE 2 * n[k - 1] + bits[k]
  IN  n[Len(bits)]

CodeBits(huff) == Bits(huff.size, huff.code)

\* The number of bits of a value.
BitLength(value) ==
  LET magnitude == IF value < 0 THEN -value ELSE value
  IN  CHOOSE n \in 1 .. 16 : 2^(n - 1) <= magnitude /\ magnitude < 2^n

\* Its low bits, of one less if it is negative.
VariableLength(value) ==
  Bits(BitLength(value), (IF value < 0 THEN value - 1 ELSE value) % 2^BitLength(value))

-----------------------------------------------------------------------------
(* tjei_encode_and_write_MCU, from the data unit on *)

DcBits(dc, diff) == IF diff = 0 THEN CodeBits(dc[0])
                    ELSE CodeBits(dc[BitLength(diff)]) \o VariableLength(diff)

\* Mutant: the run of 16 zeroes is not coded.
AcBitsShortRun(ac, run, value) ==
  CodeBits(ac[(run % 16) * 16 + BitLength(value)]) \o VariableLength(value)

\* A coefficient after a run of zeroes, each 16 of which are a symbol of their own.
AcBits(ac, run, value) ==
  FlattenSeq([k \in 1 .. run \div 16 |-> CodeBits(ac[240])])
  \o CodeBits(ac[(run % 16) * 16 + BitLength(value)]) \o VariableLength(value)

NonZero(du) == SelectSeq([i \in 1 .. 63 |-> i + 1], LAMBDA i : du[i] # 0)

\* du[1] is the DC coefficient, coded as the difference from the one before, pred; what
\* follows the last coefficient that is not 0 is left to one symbol.
encode_unit(dc, ac, pred, du) ==
  LET at == NonZero(du)
      Before(k) == IF k = 1 THEN 1 ELSE at[k - 1]
  IN  DcBits(dc, du[1] - pred)
      \o FlattenSeq([k \in DOMAIN at |-> AcBits(ac, at[k] - Before(k) - 1, du[at[k]])])
      \o (IF du[64] = 0 THEN CodeBits(ac[0]) ELSE <<>>)

\* The components of a unit: luma, and two of chroma with tables of their own.
EncodedUnit(component, pred, du) ==
  IF component = 1 THEN encode_unit(LUMA_DC, LUMA_AC, pred, du)
  ELSE encode_unit(CHROMA_DC, CHROMA_AC, pred, du)

\* Mutant: the 0 after an 0xFF is forgotten.
StuffNothing(byte) == <<byte>>

Stuffed(byte) == IF byte = 255 THEN <<byte, 0>> ELSE <<byte>>

FullBytes(bits) ==
  FlattenSeq([k \in 1 .. Len(bits) \div 8 |-> Stuffed(Number(SubSeq(bits, 8 * k - 7, 8 * k)))])
Rest(bits) == SubSeq(bits, 8 * (Len(bits) \div 8) + 1, Len(bits))

-----------------------------------------------------------------------------
(* A decoder, after the JPEG standard (T.81, F.2): no code of the encoder *)

Unstuffed(bytes) ==
  FlattenSeq([k \in DOMAIN bytes |->
    IF k > 1 /\ bytes[k] = 0 /\ bytes[k - 1] = 255 THEN <<>> ELSE Bits(8, bytes[k])])

\* The smallest code of each length.
MinCodes(lens) ==
  LET mincode[n \in 1 .. 16] == IF n = 1 THEN 0 ELSE (mincode[n - 1] + lens[n - 1]) * 2
  IN  mincode

\* How many symbols have shorter codes.
FirstIndex(lens) ==
  LET first[n \in 1 .. 16] == IF n = 1 THEN 0 ELSE first[n - 1] + lens[n - 1]
  IN  first

Table(lens, vals) == [lens |-> lens, vals |-> vals, min |-> MinCodes(lens),
                      first |-> FirstIndex(lens)]
DcTables == <<Table(luma_dc_len, dc_vals), Table(chroma_dc_len, dc_vals)>>
AcTables == <<Table(luma_ac_len, luma_ac_vals), Table(chroma_ac_len, chroma_ac_vals)>>

\* The symbol at p of the stream and the place after it; no symbol is -1.
ReadSymbol(stream, p, table) ==
  LET Offset(n) == Number(SubSeq(stream, p, p + n - 1)) - table.min[n]
      sizes == {n \in 1 .. 16 : p + n - 1 <= Len(stream) /\ Offset(n) \in 0 .. table.lens[n] - 1}
      size == CHOOSE i \in sizes : \A j \in sizes : i <= j
  IN  IF sizes = {} THEN [p |-> p, value |-> -1]
      ELSE [p |-> p + size, value |-> table.vals[table.first[size] + Offset(size) + 1]]

ReadNumber(stream, p, n) ==
  LET v == Number(SubSeq(stream, p, p + n - 1))
  IN  IF n = 0 THEN 0 ELSE IF v < 2^(n - 1) THEN v - 2^n + 1 ELSE v

Zeroes(n) == [i \in 1 .. n |-> 0]

\* One more symbol of a unit of which d.du is read; d.p is 0 once the stream makes no sense.
ReadAc(stream, d, table) ==
  LET s == ReadSymbol(stream, d.p, table)
      run == s.value \div 16
      size == s.value % 16
  IN  CASE d.p = 0 \/ Len(d.du) = 64 -> d
        [] d.p # 0 /\ Len(d.du) < 64 /\ s.value = 0 ->
             [p |-> s.p, du |-> d.du \o Zeroes(64 - Len(d.du))]
        [] d.p # 0 /\ Len(d.du) < 64 /\ s.value > 0 ->
             [p |-> s.p + size,
              du |-> d.du \o Zeroes(run) \o <<ReadNumber(stream, s.p, size)>>]
        [] OTHER -> [p |-> 0, du |-> <<>>]

ReadUnit(stream, p, pred, t) ==
  LET s == ReadSymbol(stream, p, DcTables[t])
      ac[k \in 0 .. 63] ==
        IF k = 0 THEN [p |-> s.p + s.value, du |-> <<pred + ReadNumber(stream, s.p, s.value)>>]
        ELSE LET d == ac[k - 1] IN ReadAc(stream, d, AcTables[t])
  IN  IF p = 0 \/ s.value = -1 THEN [p |-> 0, du |-> <<0>>] ELSE ac[63]
=============================================================================
