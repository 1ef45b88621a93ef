----------------------------- MODULE TextTools -----------------------------
(***************************************************************************)
(* The two programs that turn one file into another, run again and again   *)
(* by a user who has a text in one file: utf (Unicode_File_Converter's     *)
(* main) and hw1 (the main of Polybius_Fractionated_Morse_Cipher, with -p  *)
(* or with -f).  hw1 reads one file and writes another: "hw1 ... <x >y".   *)
(***************************************************************************)
EXTENDS Integers, SequencesExt

CONSTANTS
  UnicodeTexts,    \* code points, the byte order mark not among them
  PolyTexts, MorseTexts,    \* ASCII codes
  PolyOptions, MorseKeys    \* what -r, -c and -k are given

U == INSTANCE Unicode
P == INSTANCE Polybius
M == INSTANCE Morse

ASSUME TextToolsAssumption ==
  /\ UnicodeTexts \subseteq Seq(Nat)
  /\ \A t \in UnicodeTexts : \A i \in 1 .. Len(t) :
       (0 < t[i] /\ t[i] < \hD800) \/ (\hDFFF < t[i] /\ t[i] <= \h10FFFF)
  /\ PolyTexts \cup MorseTexts \subseteq Seq(1 .. 127)
  /\ MorseKeys \subseteq Seq(0 .. 127) /\ \A o \in PolyOptions : o.key \in Seq(0 .. 127)

VARIABLES
  tool,          \* the program and what it is used for
  options,       \* of hw1, the same in every run
  text,          \* history: what the first file stands for
  files,         \* the contents of two files
  holds          \* history: what was done to get there

vars == <<tool, options, text, files, holds>>

Files == {"a", "b"}
BOM == \hFEFF
NoOptions == [rows |-> P!NotGiven, columns |-> P!NotGiven, key |-> P!NoKey]

\* A user's file is well formed; which format it is in is not recorded.
InitUtf ==
  /\ tool = "utf" /\ options = NoOptions
  /\ text \in {<<BOM>> \o t : t \in UnicodeTexts}
  /\ \E format \in U!Formats : files = [a |-> U!Encoded(text, format), b |-> <<>>]

InitPoly ==
  /\ tool = "poly" /\ options \in PolyOptions
  /\ P!validargs_p(FALSE, options.rows, options.columns, options.key)
  /\ text \in PolyTexts /\ files = [a |-> text, b |-> <<>>]

InitMorse ==
  /\ tool = "morse" /\ options \in {[NoOptions EXCEPT !.key = k] : k \in MorseKeys}
  /\ options.key # P!NoKey => M!checkKeyValidF(options.key)
  /\ text \in MorseTexts /\ files = [a |-> text, b |-> <<>>]

Init == (InitUtf \/ InitPoly \/ InitMorse) /\ holds = [a |-> "text", b |-> "nothing"]

-----------------------------------------------------------------------------
(* utf -e FORMAT x y *)

\* The output is truncated once the two are known to be different files.
Convert(x, y, to) ==
  /\ tool = "utf"
  /\ U!check_bom(files[x]) # 0 /\ x # y
  /\ files' = [files EXCEPT ![y] = U!convert(files[x], U!check_bom(files[x]), to)]
  /\ holds' = [holds EXCEPT ![y] = "converted"]
  /\ UNCHANGED <<tool, options, text>>

\* No byte order mark, less than three bytes, or the output is the input:
\* the program exits before it truncates anything.
Refuse(x, y) ==
  /\ tool = "utf"
  /\ U!check_bom(files[x]) = 0 \/ x = y
  /\ UNCHANGED vars

-----------------------------------------------------------------------------
(* hw1 -p and hw1 -f *)

rows == P!OrDefault(options.rows)
columns == P!OrDefault(options.columns)
fm_key == IF options.key = P!NoKey THEN M!fm_alphabet ELSE M!loadMorseKeyWithKey(options.key)

\* What a run leaves is what it has printed, with success or without.
Leaves(y, out, what) ==
  /\ files' = [files EXCEPT ![y] = out] /\ holds' = [holds EXCEPT ![y] = what]
  /\ UNCHANGED <<tool, options, text>>

\* begins is what the uninitialised input of the loop happens to say.
Encrypt(x, y, begins) ==
  /\ tool = "poly" /\ holds[x] \in {"text", "back"} /\ x # y
  /\ P!validargs_p(TRUE, options.rows, options.columns, options.key)
  /\ \E r \in {P!polyCipher(begins, TRUE, files[x], rows, columns, options.key)} :
       Leaves(y, r.out, IF r.success /\ begins THEN "cipher" ELSE "partial")

Decrypt(x, y, begins) ==
  /\ tool = "poly" /\ x # y
  /\ holds[x] = "cipher" \/ ~P!checkIfValidRowsCols(rows, columns)
  /\ \E r \in {P!polyCipher(begins, FALSE, files[x], rows, columns, options.key)} :
       Leaves(y, r.out, IF r.success /\ begins THEN "back" ELSE "partial")

EncryptMorse(x, y, begins) ==
  /\ tool = "morse" /\ holds[x] \in {"text", "back"} /\ x # y
  /\ \E stray \in SUBSET {-2, -1} :
       \E r \in {M!EncryptMorse(IF begins THEN files[x] ELSE <<>>, fm_key, stray)} :
         Leaves(y, r.out, IF r.state = "good" /\ begins THEN "cipher" ELSE "partial")

DecryptMorse(x, y, begins) ==
  /\ tool = "morse" /\ holds[x] = "cipher" /\ x # y
  /\ \E r \in {M!DecryptMorse(IF begins THEN files[x] ELSE <<>>, fm_key)} :
       Leaves(y, r.out, IF r.state = "good" /\ begins THEN "back" ELSE "partial")

Next ==
  \E x \in Files, y \in Files :
    \/ \E to \in U!Formats : Convert(x, y, to)
    \/ Refuse(x, y)
    \/ \E begins \in BOOLEAN : \/ Encrypt(x, y, begins) \/ Decrypt(x, y, begins)
                               \/ EncryptMorse(x, y, begins) \/ DecryptMorse(x, y, begins)

Spec == Init /\ [][Next]_vars

-----------------------------------------------------------------------------
(* Properties *)

\* The types, and a file that stands for nothing is empty.
TypeOK ==
  /\ tool \in {"utf", "poly", "morse"} /\ options \in PolyOptions \cup
       {[NoOptions EXCEPT !.key = k] : k \in MorseKeys \cup {P!NoKey}}
  /\ \A f \in Files : files[f] \in Seq(0 .. 255)
  /\ holds \in [Files -> {"nothing", "text", "converted", "cipher", "back", "partial"}]
  /\ \A f \in Files : holds[f] = "nothing" => files[f] = <<>>

\* The code points whose upper surrogate is the first or the last of its
\* range: is_upper_surrogate_pair (utf.c:98) takes neither for one.
AtTheEdge(c) == c \div \h400 \in {\h40, \h43F}

\* The text with two surrogates for each code point at the edge.
SplitAtTheEdge(t) ==
  FlattenSeq([i \in DOMAIN t |-> IF AtTheEdge(t[i]) THEN U!Utf16(t[i]) ELSE <<t[i]>>])

\* However often and through whatever formats a text was converted, whichever
\* file was named as input and output and whatever was refused, each file that
\* was written stands for the text, exactly.  One exception: a UTF-8 file that
\* was made from UTF-16 has, for a code point at the edge, its two surrogates,
\* each in three bytes.  That is no UTF-8, but nothing is lost by it: another
\* conversion turns it into the right UTF-16 (utf.c:98-117, main.c:29-39).
FilesStandForText ==
  tool = "utf" => \A f \in Files : holds[f] # "nothing" =>
    files[f] \in {U!Encoded(text, format) : format \in U!Formats}
                 \cup {U!Encoded(SplitAtTheEdge(text), U!UTF8)}

\* What -p -e has encrypted, -p -d decrypts, with every key and every size of
\* the table that the arguments accept: hexadecimal digits stand for the
\* places of letters, the key does not repeat one, white space stays
\* (polybiuscipher.c, hw1.c:83-173).
PolyRoundTrip ==
  tool = "poly" => \A f \in Files : holds[f] = "back" => files[f] = text

\* The text with one space for each run of them, and none before a newline.
Squeezed(t) ==
  FlattenSeq([i \in DOMAIN t |->
    IF t[i] = 32 /\ i < Len(t) /\ t[i + 1] \in {32, 10} THEN <<>> ELSE <<t[i]>>])

\* A text of lines that end in a newline, with no space at either end.
InLines(t) ==
  /\ t # <<>> /\ Last(t) = 10 /\ Head(t) # 32
  /\ \A i \in 1 .. Len(t) - 1 : t[i] = 10 => t[i + 1] # 32
  /\ \A i \in 1 .. Len(t) - 1 : t[i] = 32 => t[i + 1] # 10

\* What -f -e has encrypted, -f -d decrypts, up to runs of spaces and a space
\* more at the end of a line, whatever the lengths of the codes do to the
\* groups of three (morsecipher.c).
MorseRoundTrip ==
  tool = "morse" /\ InLines(text) =>
    \A f \in Files : holds[f] = "back" => Squeezed(files[f]) = Squeezed(text)
=============================================================================
