------------------------------- MODULE Morse -------------------------------
(***************************************************************************)
(* The fractionated Morse cipher of Polybius_Fractionated_Morse_Cipher:    *)
(* letters become dots (0), dashes (1) and, behind each letter and each    *)
(* word, an x (2); each three symbols become one letter of the key.  A     *)
(* text is a sequence of ASCII codes.  The buffer is as long as it has to  *)
(* be: a line that overruns its 257 bytes is not modelled.                 *)
(***************************************************************************)
EXTENDS Integers, SequencesExt

SPACE == 32
NEWLINE == 10
EOF == -1
x == 2

fm_alphabet == [i \in 1 .. 26 |-> 64 + i]

\* The codes of the characters from 33 on, "" where there is none.
morse_table ==
  <<<<1, 0, 1, 0, 1, 1>>, <<0, 1, 0, 0, 1, 0>>, <<>>, <<>>, <<>>, <<>>,
    <<0, 1, 1, 1, 1, 0>>, <<1, 0, 1, 1, 0>>, <<1, 0, 1, 1, 0, 1>>, <<>>, <<>>,
    <<1, 1, 0, 0, 1, 1>>, <<1, 0, 0, 0, 0, 1>>, <<0, 1, 0, 1, 0, 1>>, <<>>,
    <<1, 1, 1, 1, 1>>, <<0, 1, 1, 1, 1>>, <<0, 0, 1, 1, 1>>, <<0, 0, 0, 1, 1>>,
    <<0, 0, 0, 0, 1>>, <<0, 0, 0, 0, 0>>, <<1, 0, 0, 0, 0>>, <<1, 1, 0, 0, 0>>,
    <<1, 1, 1, 0, 0>>, <<1, 1, 1, 1, 0>>, <<1, 1, 1, 0, 0, 0>>, <<1, 0, 1, 0, 1, 0>>,
    <<>>, <<1, 0, 0, 0, 1>>, <<>>, <<0, 0, 1, 1, 0, 0>>, <<0, 1, 1, 0, 1, 0>>,
    <<0, 1>>, <<1, 0, 0, 0>>, <<1, 0, 1, 0>>, <<1, 0, 0>>, <<0>>, <<0, 0, 1, 0>>,
    <<1, 1, 0>>, <<0, 0, 0, 0>>, <<0, 0>>, <<0, 1, 1, 1>>, <<1, 0, 1>>,
    <<0, 1, 0, 0>>, <<1, 1>>, <<1, 0>>, <<1, 1, 1>>, <<0, 1, 1, 0>>, <<1, 1, 0, 1>>,
    <<0, 1, 0>>, <<0, 0, 0>>, <<1>>, <<0, 0, 1>>, <<0, 0, 0, 1>>, <<0, 1, 1>>,
    <<1, 0, 0, 1>>, <<1, 0, 1, 1>>, <<1, 1, 0, 0>>>> \o [i \in 1 .. 32 |-> <<>>]

\* The code of c, if the table has a place for it: its end is before { | } ~.
InTable(c) == c - 32 \in DOMAIN morse_table
Code(c) == morse_table[c - 32]

\* The place of three symbols in the table they are fractionated by, which
\* lists them in order and ends before xxx.
Triple(buffer, i) == 1 + (9 * buffer[i]) + (3 * buffer[i + 1]) + buffer[i + 2]
Symbols(n) == <<(n - 1) \div 9, ((n - 1) \div 3) % 3, (n - 1) % 3>>

checkKeyValidF(key) ==
  IsInjective(key) /\ \A i \in DOMAIN key : Contains(fm_alphabet, key[i])

\* The key, and the rest of the alphabet; without a key, the alphabet.
loadMorseKeyWithKey(key) ==
  key \o FlattenSeq([i \in 1 .. 26 |-> IF Contains(key, fm_alphabet[i])
                                        THEN <<>> ELSE <<fm_alphabet[i]>>])

-----------------------------------------------------------------------------
(* Encryption.  The program's state is its buffer, what it has printed, and *)
(* how it fares: "start" until something succeeded (success is still 0),    *)
(* then "good", "failed", or "lost" when it has read outside its tables.    *)

\* The letters of the whole triples in the buffer; what is left is dropped.
secondEncryption(buffer, fm_key) ==
  [i \in 1 .. Len(buffer) \div 3 |-> fm_key[Triple(buffer, (3 * i) - 2)]]

\* Mutant: the last symbol is looked at, which behind a letter is an x.
encryptSpaceLast(s, stray) ==
  [buffer |-> IF s.buffer # <<>> /\ Last(s.buffer) = x THEN s.buffer ELSE Append(s.buffer, x),
   state |-> IF s.state = "start" THEN "failed" ELSE s.state, out |-> s.out]

\* A space adds an x unless the symbol before the last is one; in front of
\* the buffer lies other memory, in which the places of stray hold an 'x'.
encryptSpace(s, stray) ==
  LET place == Len(s.buffer) - 2
      marked == IF place < 0 THEN place \in stray ELSE s.buffer[place + 1] = x
  IN [buffer |-> IF marked THEN s.buffer ELSE Append(s.buffer, x),
      state |-> IF s.state = "start" THEN "failed" ELSE s.state, out |-> s.out]

\* A buffer of whole triples is printed before the next letter or newline is
\* looked at; the newline is printed before the letters of a broken one.
encryptMorseCode(s, input, next, fm_key) ==
  LET whole == Len(s.buffer) % 3 = 0
      out == IF whole THEN s.out \o secondEncryption(s.buffer, fm_key) ELSE s.out
      buffer == IF whole THEN <<>> ELSE s.buffer
      letter == buffer \o Code(input) \o <<x>>
  IN IF input = NEWLINE
     THEN [buffer |-> <<>>, state |-> "good",
           out |-> Append(out, NEWLINE) \o secondEncryption(buffer, fm_key)]
     ELSE IF ~InTable(input) THEN [buffer |-> s.buffer, state |-> "lost", out |-> s.out]
     ELSE IF Code(input) = <<>> THEN [buffer |-> s.buffer, state |-> "failed", out |-> s.out]
     ELSE IF next = NEWLINE
     THEN [buffer |-> <<>>, state |-> "good",
           out |-> out \o secondEncryption(Append(letter, x), fm_key)]
     ELSE [buffer |-> letter, state |-> "good", out |-> out]

\* fMorseCipher with -e: what is in the buffer at the end of the file is not
\* printed.
EncryptMorse(text, fm_key, stray) ==
  LET step(s, i) ==
        IF s.state \in {"failed", "lost"} THEN s
        ELSE IF text[i] = SPACE THEN encryptSpace(s, stray)
        ELSE encryptMorseCode(s, text[i], IF i = Len(text) THEN EOF ELSE text[i + 1], fm_key)
  IN FoldLeftDomain(step, [buffer |-> <<>>, out |-> <<>>, state |-> "start"], text)

-----------------------------------------------------------------------------
(* Decryption of a buffer of symbols and of a text *)

At(buffer, i) == IF i \in DOMAIN buffer THEN buffer[i] ELSE 3   \* the zero behind it

\* The end of the letter that begins at i, and the character it is the code of.
End(buffer, i) == Min({Len(buffer) + 1} \cup {j \in i .. Len(buffer) : buffer[j] = x})
Letter(buffer, i) ==
  32 + SelectInSeq(morse_table, LAMBDA code : code = SubSeq(buffer, i, End(buffer, i) - 1))

\* Letter by letter, with a space for each second x; s keeps what is printed,
\* where the next letter begins and lastCharWasX.  A letter that no code
\* belongs to is looked for behind the table.
DecryptLetter(buffer, s) ==
  LET after == End(buffer, s.at) + 1
      gap == At(buffer, after) = x
      next == IF gap THEN after + 1 ELSE after
      third == At(buffer, next) = x /\ At(buffer, next + 1) # 3
      printed == s.out \o <<Letter(buffer, s.at)>> \o (IF gap THEN <<SPACE>> ELSE <<>>)
  IN IF End(buffer, s.at) = s.at \/ Letter(buffer, s.at) = 32
     THEN [out |-> s.out, lastCharWasX |-> s.lastCharWasX, state |-> "lost", at |-> 0]
     ELSE [out |-> IF third THEN Append(printed, SPACE) ELSE printed,
           lastCharWasX |-> ~gap /\ ~third, state |-> "good",
           at |-> LET i == IF third THEN next + 2 ELSE next
                  IN IF At(buffer, i) \in {0, 1} THEN i ELSE 0]

\* An x that the buffer begins with makes a space when the last character
\* printed was not one.  The buffer is empty afterwards.
secondDecryption(s) ==
  LET begin == [out |-> IF s.buffer[1] = x /\ s.lastCharWasX THEN Append(s.out, SPACE)
                                                             ELSE s.out,
                lastCharWasX |-> s.lastCharWasX, state |-> s.state,
                at |-> IF s.buffer[1] = x THEN 2 ELSE 1]
      end == FoldLeftDomain(LAMBDA r, n : IF r.at = 0 THEN r ELSE DecryptLetter(s.buffer, r),
                            begin, s.buffer)
  IN [buffer |-> <<>>, out |-> end.out, lastCharWasX |-> end.lastCharWasX, state |-> end.state]

\* Three symbols more; the buffer is decrypted when the last is an x, or
\* before a newline.  A letter outside the key is looked for behind it.
decryptMorseCode(s, input, next, fm_key) ==
  LET n == SelectInSeq(fm_key, LAMBDA c : c = input)
      longer == [buffer |-> s.buffer \o Symbols(n), out |-> s.out,
                 lastCharWasX |-> s.lastCharWasX, state |-> "good"]
  IN IF input = NEWLINE
     THEN [buffer |-> s.buffer, out |-> Append(s.out, NEWLINE),
           lastCharWasX |-> s.lastCharWasX, state |-> "good"]
     ELSE IF n = 0
     THEN [buffer |-> s.buffer, out |-> s.out, lastCharWasX |-> s.lastCharWasX, state |-> "lost"]
     ELSE IF Last(Symbols(n)) = x \/ next = NEWLINE THEN secondDecryption(longer)
     ELSE longer

DecryptMorse(text, fm_key) ==
  LET step(s, i) ==
        IF s.state = "lost" THEN s
        ELSE decryptMorseCode(s, text[i], IF i = Len(text) THEN EOF ELSE text[i + 1], fm_key)
  IN FoldLeftDomain(step, [buffer |-> <<>>, out |-> <<>>, lastCharWasX |-> FALSE,
                           state |-> "start"], text)
=============================================================================
