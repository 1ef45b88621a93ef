------------------------------ MODULE Unicode ------------------------------
(***************************************************************************)
(* The conversions of Unicode_File_Converter: a file is a sequence of      *)
(* bytes, a glyph a sequence of bytes or of 16-bit units, a code point a   *)
(* number.  x & (2^n - 1) is x % 2^n, x >> n is x \div 2^n, and | joins    *)
(* numbers that share no bit.  Files end with a whole character, and the   *)
(* program runs on a little-endian machine.                                *)
(***************************************************************************)
EXTENDS Integers, SequencesExt

UTF8 == \hBFBBEF
UTF16LE == \hFFFE
UTF16BE == \hFEFF
Formats == {UTF8, UTF16LE, UTF16BE}

-----------------------------------------------------------------------------
(* UTF-8 *)

utf8_glyph_size_of_code_point(c) ==
  IF c <= \h7F THEN 1 ELSE IF c <= \h7FF THEN 2 ELSE IF c <= \hFFFF THEN 3 ELSE 4

\* Six bits of c, above those that unit counts, as a continuation byte.
Continuation(c, unit) == 128 + ((c \div unit) % 64)

code_point_to_utf8_glyph(c) ==
  LET size == utf8_glyph_size_of_code_point(c)
  IN IF size = 1 THEN <<c % 256>>
     ELSE IF size = 2 THEN <<\hC0 + ((c \div 64) % 32), Continuation(c, 1)>>
     ELSE IF size = 3 THEN <<\hE0 + ((c \div 4096) % 16), Continuation(c, 64), Continuation(c, 1)>>
     ELSE <<\hF0 + ((c \div 262144) % 8), Continuation(c, 4096), Continuation(c, 64),
            Continuation(c, 1)>>

remaining_utf8_bytes(b) ==
  IF b \div 8 = \h1E THEN 3 ELSE IF b \div 16 = \hE THEN 2 ELSE IF b \div 32 = 6 THEN 1 ELSE 0

utf8_decode(g) ==
  IF Len(g) = 1 THEN g[1]
  ELSE IF Len(g) = 2 THEN ((g[1] % 32) * 64) + (g[2] % 64)
  ELSE IF Len(g) = 3 THEN ((g[1] % 16) * 4096) + ((g[2] % 64) * 64) + (g[3] % 64)
  ELSE ((g[1] % 8) * 262144) + ((g[2] % 64) * 4096) + ((g[3] % 64) * 64) + (g[4] % 64)

\* The code points a UTF-8 file is read as.
FromUtf8(file) ==
  LET read[i \in 1 .. Len(file) + 4] ==
        IF i > Len(file) THEN <<>>
        ELSE <<utf8_decode(SubSeq(file, i, i + remaining_utf8_bytes(file[i])))>>
               \o read[i + 1 + remaining_utf8_bytes(file[i])]
  IN read[1]

-----------------------------------------------------------------------------
(* UTF-16 *)

is_code_point_surrogate(c) == c >= \h10000
is_upper_surrogate_pair(u) == u > \hD800 /\ u < \hDBFF

\* Mutant: 0x10000 is not subtracted.
code_point_to_utf16_glyph_whole(c) ==
  IF is_code_point_surrogate(c)
  THEN <<((c \div 1024) % 2048) + \hD800, (c % 1024) + \hDC00>>
  ELSE <<c>>

code_point_to_utf16_glyph(c) ==
  IF is_code_point_surrogate(c)
  THEN <<((c - \h10000) \div 1024) + \hD800, ((c - \h10000) % 1024) + \hDC00>>
  ELSE <<c>>

utf16_glyph_to_code_point(upper, lower) ==
  IF ~is_upper_surrogate_pair(upper) THEN upper
  ELSE ((upper - \hD800) * 1024) + ((lower - \hDC00) % 1024) + \h10000

reverse_bytes(b) == <<b[2], b[1]>>

\* Mutant: the low byte is not cut off.
UnitBytesUncut(u, to) ==
  IF to = UTF16LE THEN <<u, u \div 256>> ELSE reverse_bytes(<<u, u \div 256>>)

\* The bytes of a unit in memory, swapped for UTF-16BE.
UnitBytes(u, to) ==
  IF to = UTF16LE THEN <<u % 256, u \div 256>> ELSE reverse_bytes(<<u % 256, u \div 256>>)

Unit(b) == b[1] + (256 * b[2])
ReadUnit(file, i, from) ==
  IF from = UTF16LE THEN Unit(SubSeq(file, i, i + 1))
  ELSE Unit(reverse_bytes(SubSeq(file, i, i + 1)))

\* After an upper surrogate a second unit is read; at the end of the file
\* lower_bytes keeps the 0 it has at the start of each turn.
FromUtf16(file, from) ==
  LET read[i \in 1 .. Len(file) + 4] ==
        IF i > Len(file) THEN <<>>
        ELSE IF is_upper_surrogate_pair(ReadUnit(file, i, from))
        THEN <<utf16_glyph_to_code_point(
                 ReadUnit(file, i, from),
                 IF i + 2 > Len(file) THEN 0 ELSE ReadUnit(file, i + 2, from))>>
               \o read[i + 4]
        ELSE <<utf16_glyph_to_code_point(ReadUnit(file, i, from), 0)>> \o read[i + 2]
  IN read[1]

\* The second unit of a pair is looked for in lower_bytes, which nothing has
\* set: each turn swaps one unit.
SwapUnits(file) ==
  [i \in 1 .. Len(file) |-> IF i % 2 = 1 THEN file[i + 1] ELSE file[i - 1]]

-----------------------------------------------------------------------------
(* The program *)

WriteUtf8(points) ==
  FlattenSeq([i \in 1 .. Len(points) |-> code_point_to_utf8_glyph(points[i])])

WriteUtf16(points, to) ==
  FlattenSeq([i \in 1 .. Len(points) |->
    FlattenSeq([j \in DOMAIN code_point_to_utf16_glyph(points[i]) |->
                  UnitBytes(code_point_to_utf16_glyph(points[i])[j], to)])])

\* What check_bom makes of the first three bytes; 0 when it gives up.
check_bom(file) ==
  IF Len(file) < 3 THEN 0
  ELSE IF SubSeq(file, 1, 3) = <<\hEF, \hBB, \hBF>> THEN UTF8
  ELSE IF SubSeq(file, 1, 2) = <<\hFF, \hFE>> THEN UTF16LE
  ELSE IF SubSeq(file, 1, 2) = <<\hFE, \hFF>> THEN UTF16BE
  ELSE 0

\* get_encoding_function picks the conversion by the difference of the two
\* formats; the byte order mark is converted with the text.
convert(file, from, to) ==
  CASE from - to = UTF8 - UTF16LE -> WriteUtf16(FromUtf8(file), UTF16LE)
    [] from - to = UTF8 - UTF16BE -> WriteUtf16(FromUtf8(file), UTF16BE)
    [] from - to = UTF16LE - UTF16BE -> SwapUnits(file)
    [] from - to = UTF16BE - UTF16LE -> SwapUnits(file)
    [] from - to = UTF16BE - UTF8 -> WriteUtf8(FromUtf16(file, UTF16BE))
    [] from - to = UTF16LE - UTF8 -> WriteUtf8(FromUtf16(file, UTF16LE))
    [] OTHER -> file

-----------------------------------------------------------------------------
(* The standard *)

\* The fewest bytes whose free bits hold c: a lead byte, and six bits of c in
\* each byte that follows.
Utf8(c) ==
  LET n == CHOOSE k \in 1 .. 4 : c < <<128, 2048, 65536, 2097152>>[k]
                                 /\ \A j \in 1 .. k - 1 : c >= <<128, 2048, 65536>>[j]
  IN [i \in 1 .. n |-> IF i = 1 THEN <<0, 192, 224, 240>>[n] + (c \div (64 ^ (n - 1)))
                                ELSE 128 + ((c \div (64 ^ (n - i))) % 64)]

\* A unit of its own, or a pair of surrogates.
Utf16(c) ==
  IF c < 65536 THEN <<c>>
  ELSE CHOOSE u \in {<<55296 + ((c - 65536) \div 1024), 56320 + k>> : k \in 0 .. 1023} :
         c = 65536 + ((u[1] - 55296) * 1024) + (u[2] - 56320)

Bytes(u, format) == IF format = UTF16LE THEN <<u % 256, u \div 256>> ELSE <<u \div 256, u % 256>>

\* The file that stands for the text, its byte order mark included.
Encoded(text, format) ==
  FlattenSeq([i \in DOMAIN text |->
    IF format = UTF8 THEN Utf8(text[i])
    ELSE FlattenSeq([j \in DOMAIN Utf16(text[i]) |-> Bytes(Utf16(text[i])[j], format)])])
=============================================================================
