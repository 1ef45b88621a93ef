------------------------------ MODULE Polybius ------------------------------
(***************************************************************************)
(* The Polybius cipher of Polybius_Fractionated_Morse_Cipher: a text is a  *)
(* sequence of ASCII codes, the table a sequence filled row by row.  A     *)
(* program that has read its input ends with success or without, and has   *)
(* printed what it printed.  Each option is given at most once.            *)
(***************************************************************************)
EXTENDS Integers, SequencesExt

NotGiven == 0
NoKey == <<NotGiven>>
SPACE == 32
TAB == 9
NEWLINE == 10
Whitespace == {SPACE, TAB, NEWLINE}

polybius_alphabet == [i \in 1 .. 94 |-> 32 + i]

-----------------------------------------------------------------------------
(* The arguments *)

checkKeyValidP(key) ==
  /\ IsInjective(key)
  /\ \A i \in DOMAIN key : Contains(polybius_alphabet, key[i])

checkIfValidRowsCols(rows, columns) == rows * columns >= Len(polybius_alphabet)

OrDefault(n) == IF n = NotGiven THEN 10 ELSE n

\* -p with -e or -d; the room for the alphabet is checked for -e only.
validargs_p(encrypt, rows, columns, key) ==
  /\ rows \in 9 .. 15 \cup {NotGiven} /\ columns \in 9 .. 15 \cup {NotGiven}
  /\ key # NoKey => checkKeyValidP(key)
  /\ encrypt => checkIfValidRowsCols(OrDefault(rows), OrDefault(columns))

-----------------------------------------------------------------------------
(* The table *)

\* The key, the rest of the alphabet and zeros; with less room than the
\* alphabet needs the loop that writes the zeros does not end.
loadPolyTableWithKey(rows, columns, key) ==
  key \o FlattenSeq([i \in 1 .. 94 |-> IF Contains(key, polybius_alphabet[i])
                                        THEN <<>> ELSE <<polybius_alphabet[i]>>])
      \o [i \in 1 .. (rows * columns) - 94 |-> 0]

loadPolyTable(rows, columns) ==
  polybius_alphabet \o [i \in 1 .. (rows * columns) - 94 |-> 0]

polybius_table(rows, columns, key) ==
  IF key = NoKey THEN loadPolyTable(rows, columns)
                        ELSE loadPolyTableWithKey(rows, columns, key)

-----------------------------------------------------------------------------
(* Encryption and decryption *)

\* Mutant: 9 is taken for a letter.
HexOffByOne(n) == IF n < 9 THEN 48 + n ELSE 55 + n

Hex(n) == IF n <= 9 THEN 48 + n ELSE 55 + n
Digit(c) == IF c < 65 THEN c - 48 ELSE c - 55

\* What one character is printed as; the first place it has in the table.
encrypt(c, columns, table) ==
  IF c \in Whitespace THEN <<c>>
  ELSE LET i == SelectInSeq(table, LAMBDA t : t = c) - 1
       IN <<Hex(i \div columns), Hex(i % columns)>>

\* A character outside the alphabet ends the program, without success.
EncryptAll(text, columns, table) ==
  LET known == SelectInSeq(text, LAMBDA c : c \notin Whitespace
                                            /\ ~Contains(polybius_alphabet, c))
      read == IF known = 0 THEN text ELSE SubSeq(text, 1, known - 1)
  IN [success |-> known = 0,
      out |-> FlattenSeq([i \in DOMAIN read |-> encrypt(read[i], columns, table)])]

\* The array behind the table is zero.
At(table, i) == IF i < Len(table) THEN table[i + 1] ELSE 0

\* One character read, with the count of digits taken (as polyCipher has
\* counted it) and the index the first of them began.
decrypt(s, c, columns, table) ==
  LET taken == IF s.inputTaken >= 2 THEN 1 ELSE s.inputTaken + 1
      begun == IF s.inputTaken >= 2 THEN 0 ELSE s.decryptIndex
  IN IF c \in Whitespace
     THEN [inputTaken |-> 0, decryptIndex |-> begun, out |-> Append(s.out, c)]
     ELSE IF taken = 1
     THEN [inputTaken |-> 1, decryptIndex |-> Digit(c) * columns, out |-> s.out]
     ELSE LET index == begun + (Digit(c) % columns)
          IN [inputTaken |-> 2, decryptIndex |-> index, out |-> Append(s.out, At(table, index))]

DecryptAll(text, columns, table) ==
  FoldLeft(LAMBDA s, c : decrypt(s, c, columns, table),
           [inputTaken |-> 0, decryptIndex |-> 0, out |-> <<>>], text).out

\* polyCipher.  Its loops test a variable that was not read yet: when begins
\* is FALSE it happens to hold EOF, and nothing is read.
polyCipher(begins, encrypting, text, rows, columns, key) ==
  CASE ~checkIfValidRowsCols(rows, columns) -> [success |-> FALSE, out |-> <<>>]
    [] checkIfValidRowsCols(rows, columns) /\ ~begins -> [success |-> TRUE, out |-> <<>>]
    [] checkIfValidRowsCols(rows, columns) /\ begins /\ encrypting ->
         EncryptAll(text, columns, polybius_table(rows, columns, key))
    [] OTHER -> [success |-> TRUE,
                 out |-> DecryptAll(text, columns, polybius_table(rows, columns, key))]
=============================================================================
