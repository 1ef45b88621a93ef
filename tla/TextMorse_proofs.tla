-------------------------- MODULE TextMorse_proofs --------------------------
(***************************************************************************)
(* What TextTools checks of the Morse cipher for some texts and keys, for  *)
(* all of them.  The cipher is taken for a sender, who turns a text into   *)
(* dots, dashes and x and sends a letter for each three of them, and a     *)
(* receiver, who prints what he hears.  The proof goes along the text: at  *)
(* every character the receiver has heard what was sent but for what the   *)
(* sender holds back, and that is a text like the first one.  The types of *)
(* TextTools, which need the invariants of all three ciphers, come last.   *)
(***************************************************************************)
EXTENDS TextTools_proofs

-----------------------------------------------------------------------------
(* The Morse code *)

Bits == 0 .. 1

\* The codes that the table begins with, before 32 places without one.
Codes58 ==
  <<<<1, 0, 1, 0, 1, 1>>, <<0, 1, 0, 0, 1, 0>>, <<>>, <<>>, <<>>, <<>>,
    <<0, 1, 1, 1, 1, 0>>, <<1, 0, 1, 1, 0>>, <<1, 0, 1, 1, 0, 1>>, <<>>, <<>>,
    <<1, 1, 0, 0, 1, 1>>, <<1, 0, 0, 0, 0, 1>>, <<0, 1, 0, 1, 0, 1>>, <<>>,
    <<1, 1, 1, 1, 1>>, <<0, 1, 1, 1, 1>>, <<0, 0, 1, 1, 1>>, <<0, 0, 0, 1, 1>>,
    <<0, 0, 0, 0, 1>>, <<0, 0, 0, 0, 0>>, <<1, 0, 0, 0, 0>>, <<1, 1, 0, 0, 0>>,
    <<1, 1, 1, 0, 0>>, <<1, 1, 1, 1, 0>>, <<1, 1, 1, 0, 0, 0>>, <<1, 0, 1, 0, 1, 0>>,
    <<>>, <<1, 0, 0, 0, 1>>, <<>>, <<0, 0, 1, 1, 0, 0>>, <<0, 1, 1, 0, 1, 0>>,
    <<0, 1>>, <<1, 0, 0, 0>>, <<1, 0, 1, 0>>, <<1, 0, 0>>, <<0>>, <<0, 0, 1, 0>>,
    <<1, 1, 0>>, <<0, 0, 0, 0>>, <<0, 0>>, <<0, 1, 1, 1>>, <<1, 0, 1>>,
    <<0, 1, 0, 0>>, <<1, 1>>, <<1, 0>>, <<1, 1, 1>>, <<0, 1, 1, 0>>, <<1, 1, 0, 1>>,
    <<0, 1, 0>>, <<0, 0, 0>>, <<1>>, <<0, 0, 1>>, <<0, 0, 0, 1>>, <<0, 1, 1>>,
    <<1, 0, 0, 1>>, <<1, 0, 1, 1>>, <<1, 1, 0, 0>>>>

\* A code as a number: its dots and dashes in binary, behind a 1.
Num(c) ==
  IF Len(c) = 0 THEN 0
  ELSE IF Len(c) = 1 THEN 2 + c[1]
  ELSE IF Len(c) = 2 THEN 4 + (2 * c[1]) + c[2]
  ELSE IF Len(c) = 3 THEN 8 + (4 * c[1]) + (2 * c[2]) + c[3]
  ELSE IF Len(c) = 4 THEN 16 + (8 * c[1]) + (4 * c[2]) + (2 * c[3]) + c[4]
  ELSE IF Len(c) = 5 THEN 32 + (16 * c[1]) + (8 * c[2]) + (4 * c[3]) + (2 * c[4]) + c[5]
  ELSE 64 + (32 * c[1]) + (16 * c[2]) + (8 * c[3]) + (4 * c[4]) + (2 * c[5]) + c[6]

\* The numbers of the codes, all different, and 0 where there is none.
Nums ==
  <<107, 82, 0, 0, 0, 0, 94, 54, 109, 0, 0, 115, 97, 85, 0, 63, 47, 39, 35, 33, 32, 48, 56, 60, 62,
    120, 106, 0, 49, 0, 76, 90, 5, 24, 26, 12, 2, 18, 14, 16, 4, 23, 13, 20, 7, 6, 15, 22, 29, 10,
    8, 3, 9, 17, 11, 25, 27, 28>>

\* The numbers up to 58, one by one.
OneOf58(i) ==
       i = 1 \/ i = 2 \/ i = 3 \/ i = 4 \/ i = 5 \/ i = 6 \/ i = 7 \/ i = 8 \/ i = 9 \/ i = 10 \/
       i = 11 \/ i = 12 \/ i = 13 \/ i = 14 \/ i = 15 \/ i = 16 \/ i = 17 \/ i = 18 \/ i = 19 \/
       i = 20 \/ i = 21 \/ i = 22 \/ i = 23 \/ i = 24 \/ i = 25 \/ i = 26 \/ i = 27 \/ i = 28 \/
       i = 29 \/ i = 30 \/ i = 31 \/ i = 32 \/ i = 33 \/ i = 34 \/ i = 35 \/ i = 36 \/ i = 37 \/
       i = 38 \/ i = 39 \/ i = 40 \/ i = 41 \/ i = 42 \/ i = 43 \/ i = 44 \/ i = 45 \/ i = 46 \/
       i = 47 \/ i = 48 \/ i = 49 \/ i = 50 \/ i = 51 \/ i = 52 \/ i = 53 \/ i = 54 \/ i = 55 \/
       i = 56 \/ i = 57 \/ i = 58

\* A case for each place that has a character.
LEMMA UpTo58 == ASSUME NEW i \in 1 .. 58 PROVE OneOf58(i)
  BY SMT DEF OneOf58

\* The number of every code, by its own dots and dashes.
LEMMA CodeNumbers ==
  /\ \A i \in 1 .. 58 : Num(Codes58[i]) = Nums[i]
  /\ \A i \in 1 .. 58 : Nums[i] = 0 => Codes58[i] = <<>>
<1>1. /\ Num(<<>>) = 0
      /\ \A a \in Bits : Num(<<a>>) = 2 + a
      /\ \A a, b \in Bits : Num(<<a, b>>) = 4 + (2 * a) + b
      /\ \A a, b, c \in Bits : Num(<<a, b, c>>) = 8 + (4 * a) + (2 * b) + c
  BY DEF Num, Bits
<1>2. /\ \A a, b, c, d \in Bits : Num(<<a, b, c, d>>) = 16 + (8 * a) + (4 * b) + (2 * c) + d
      /\ \A a, b, c, d, e \in Bits :
           Num(<<a, b, c, d, e>>) = 32 + (16 * a) + (8 * b) + (4 * c) + (2 * d) + e
  BY DEF Num, Bits
<1>3. \A a, b, c, d, e, f \in Bits :
        Num(<<a, b, c, d, e, f>>) = 64 + (32 * a) + (16 * b) + (8 * c) + (4 * d) + (2 * e) + f
  BY DEF Num, Bits
<1>4.
       Codes58[3] = <<>> /\ Codes58[4] = <<>> /\ Codes58[5] = <<>> /\ Codes58[6] = <<>> /\
       Codes58[10] = <<>> /\ Codes58[11] = <<>> /\ Codes58[15] = <<>> /\ Codes58[28] = <<>> /\
       Codes58[30] = <<>>
  BY DEF Codes58
<1>5.
       Num(Codes58[37]) = 2 /\ Num(Codes58[52]) = 3 /\
       Num(Codes58[33]) = 5 /\ Num(Codes58[41]) = 4 /\ Num(Codes58[45]) = 7 /\ Num(Codes58[46]) = 6 /\
       Num(Codes58[36]) = 12 /\ Num(Codes58[39]) = 14 /\ Num(Codes58[43]) = 13 /\
       Num(Codes58[47]) = 15 /\ Num(Codes58[50]) = 10 /\ Num(Codes58[51]) = 8 /\
       Num(Codes58[53]) = 9 /\ Num(Codes58[55]) = 11
  BY <1>1 DEF Codes58, Bits
<1>6.
       Num(Codes58[34]) = 24 /\ Num(Codes58[35]) = 26 /\ Num(Codes58[38]) = 18 /\
       Num(Codes58[40]) = 16 /\ Num(Codes58[42]) = 23 /\ Num(Codes58[44]) = 20 /\
       Num(Codes58[48]) = 22 /\ Num(Codes58[49]) = 29 /\ Num(Codes58[54]) = 17 /\
       Num(Codes58[56]) = 25 /\ Num(Codes58[57]) = 27 /\ Num(Codes58[58]) = 28
  BY <1>2 DEF Codes58, Bits
<1>7.
       Num(Codes58[8]) = 54 /\ Num(Codes58[16]) = 63 /\ Num(Codes58[17]) = 47 /\
       Num(Codes58[18]) = 39 /\ Num(Codes58[19]) = 35 /\ Num(Codes58[20]) = 33 /\
       Num(Codes58[21]) = 32 /\ Num(Codes58[22]) = 48 /\ Num(Codes58[23]) = 56 /\
       Num(Codes58[24]) = 60 /\ Num(Codes58[25]) = 62 /\ Num(Codes58[29]) = 49
  BY <1>2 DEF Codes58, Bits
<1>8.
       Num(Codes58[1]) = 107 /\ Num(Codes58[2]) = 82 /\ Num(Codes58[7]) = 94 /\
       Num(Codes58[9]) = 109 /\ Num(Codes58[12]) = 115 /\ Num(Codes58[13]) = 97 /\
       Num(Codes58[14]) = 85 /\ Num(Codes58[26]) = 120 /\ Num(Codes58[27]) = 106 /\
       Num(Codes58[31]) = 76 /\ Num(Codes58[32]) = 90
  BY <1>3 DEF Codes58, Bits
<1>9. ASSUME NEW i \in 1 .. 58 PROVE Num(Codes58[i]) = Nums[i]
  <2>1. OneOf58(i)
    BY UpTo58, Zenon
  <2>2.
       Num(Codes58[3]) = 0 /\ Num(Codes58[4]) = 0 /\ Num(Codes58[5]) = 0 /\ Num(Codes58[6]) = 0 /\
       Num(Codes58[10]) = 0 /\ Num(Codes58[11]) = 0 /\ Num(Codes58[15]) = 0 /\
       Num(Codes58[28]) = 0 /\ Num(Codes58[30]) = 0
    BY <1>1, <1>4, Zenon
  <2> QED
    BY <1>5, <1>6, <1>7, <1>8, <2>1, <2>2, SMTT(60) DEF Nums, OneOf58
<1>10. ASSUME NEW i \in 1 .. 58, Nums[i] = 0 PROVE Codes58[i] = <<>>
  <2>1. i \in {3, 4, 5, 6, 10, 11, 15, 28, 30}
    BY <1>10, UpTo58 DEF Nums, OneOf58
  <2> QED
    BY <1>4, <2>1
<1> QED
  BY <1>9, <1>10

\* No number stands twice.
LEMMA NumbersDiffer ==
  ASSUME NEW i \in 1 .. 58, NEW j \in 1 .. 58, Nums[i] # 0, Nums[i] = Nums[j]
  PROVE  i = j
<1>1. OneOf58(i) /\ OneOf58(j)
  BY UpTo58, Zenon
<1> QED
  BY <1>1, SMTT(60) DEF Nums, OneOf58

\* How many places the table has.
Places == 90

\* The table: no two characters have the same code.
LEMMA CodeTable ==
  /\ Len(M!morse_table) = Places /\ DOMAIN M!morse_table = 1 .. Places
  /\ \A i \in 1 .. Places : M!morse_table[i] \in Seq(Bits)
  /\ \A i, j \in 1 .. Places : M!morse_table[i] = M!morse_table[j] /\ M!morse_table[i] # <<>> => i = j
<1>1. PICK head \in Seq(Seq(Bits)) : head = Codes58 /\ Len(head) = 58
  <2>1. Codes58 \in Seq(Seq(Bits)) /\ Len(Codes58) = 58
    BY DEF Codes58, Bits
  <2> QED
    BY <2>1, Zenon
<1>2. PICK tail \in Seq(Seq(Bits)) : /\ tail = [i \in 1 .. 32 |-> <<>>] /\ Len(tail) = 32
                                    /\ \A i \in 1 .. 32 : tail[i] = <<>>
  <2>1. <<>> \in Seq(Bits)
    BY EmptySeq
  <2>2. PICK e \in Seq(Bits) : e = <<>>
    BY <2>1, Zenon
  <2>3. [i \in 1 .. 32 |-> e] \in Seq(Seq(Bits)) /\ Len([i \in 1 .. 32 |-> e]) = 32
    OBVIOUS
  <2> QED
    BY <2>2, <2>3, Zenon
<1>3. M!morse_table = head \o tail
  BY <1>1, <1>2, Zenon DEF M!morse_table, Codes58
<1>4. PICK t : t = M!morse_table
  OBVIOUS
<1>5. Joined(t, head, tail, Seq(Bits))
  <2>1. Joined(head \o tail, head, tail, Seq(Bits))
    BY Joining, Zenon
  <2> QED
    BY <1>3, <1>4, <2>1, Zenon
<1>6. /\ t \in Seq(Seq(Bits)) /\ Len(t) = Places /\ \A i \in 1 .. Places : t[i] = IF i <= 58 THEN head[i] ELSE tail[i - 58]
  <2>1. Places = 58 + 32
    BY DEF Places
  <2> QED
    BY <1>1, <1>2, <1>5, <2>1, Zenon DEF Joined
<1>7. \A i \in 1 .. Places : t[i] \in Seq(Bits)
  BY <1>6, ElementOfSeq
<1>8. \A i \in 1 .. Places : t[i] # <<>> => i \in 1 .. 58 /\ t[i] = Codes58[i]
  <2> TAKE i \in 1 .. Places
  <2>1. i <= 58 => i \in 1 .. 58
    BY DEF Places
  <2>2. ~(i <= 58) => i - 58 \in 1 .. 32
    BY DEF Places
  <2> QED
    BY <1>1, <1>2, <1>6, <2>1, <2>2, Zenon
<1>9. ASSUME NEW i \in 1 .. Places, NEW j \in 1 .. Places, t[i] = t[j], t[i] # <<>> PROVE i = j
  <2>1. i \in 1 .. 58 /\ j \in 1 .. 58 /\ Codes58[i] = Codes58[j] /\ Codes58[i] # <<>>
    BY <1>8, <1>9, Zenon
  <2>2. Nums[i] # 0 /\ Nums[i] = Nums[j]
    BY <2>1, CodeNumbers, Zenon
  <2> QED
    BY <2>1, <2>2, NumbersDiffer, Zenon
<1>10. DOMAIN t = 1 .. Places
  BY <1>6, LenProperties
<1> QED
  BY <1>4, <1>6, <1>7, <1>9, <1>10, Zenon

-----------------------------------------------------------------------------
(* Characters and codes *)

\* The character that the program finds for a code; a space when there is none.
Char(code) == 32 + M!SelectInSeq(M!morse_table, LAMBDA k : k = code)

\* What the program finds for a code is a character of the table, or a space.
LEMMA CharType == \A code : Char(code) \in 32 .. 122
<1> TAKE code
<1> DEFINE I == {i \in 1 .. Len(M!morse_table) : M!morse_table[i] = code}
<1>1. PICK p : p = M!SelectInSeq(M!morse_table, LAMBDA k : k = code)
  OBVIOUS
<1>2. p = IF I # {} THEN CHOOSE a \in I : \A j \in I : a <= j ELSE 0
  BY <1>1, Zenon DEF M!SelectInSeq, M!Min
<1>3. I \subseteq 1 .. Places
  BY CodeTable, Zenon
<1> HIDE DEF I
<1>4. I # {} => \E a \in I : \A j \in I : a <= j
  <2>1. I \subseteq Nat
    BY <1>3 DEF Places
  <2> QED
    BY <2>1, LeastOf, Zenon
<1>5. p \in 0 .. Places
  <2>1. CASE I = {}
    BY <1>2, <2>1 DEF Places
  <2>2. CASE I # {}
    <3>1. p \in I
      BY <1>2, <1>4, <2>2, Zenon
    <3> QED
      BY <1>3, <3>1 DEF Places
  <2> QED
    BY <2>1, <2>2
<1>6. 32 + p \in 32 .. 122
  BY <1>5 DEF Places
<1> QED
  BY <1>1, <1>6, Zenon DEF Char

\* A character that has a code.
Coded(c) == M!InTable(c) /\ M!Code(c) # <<>>

\* A character that has a code is the one that is found for it.
LEMMA CodedChar ==
  ASSUME NEW c \in Ascii, Coded(c)
  PROVE  c \in 33 .. 122 /\ M!Code(c) \in Seq(Bits) /\ Char(M!Code(c)) = c
<1>1. PICK i : i = c - 32
  OBVIOUS
<1>2. i \in 1 .. Places /\ M!Code(c) = M!morse_table[i]
  BY <1>1, CodeTable, Zenon DEF Coded, M!InTable, M!Code
<1>3. c = 32 + i /\ c \in 33 .. 122
  <2>1. c \in Int
    BY DEF Ascii
  <2> QED
    BY <1>1, <1>2, <2>1 DEF Places
<1>4. PICK code : code = M!Code(c)
  OBVIOUS
<1> DEFINE I == {j \in 1 .. Len(M!morse_table) : M!morse_table[j] = code}
<1>5. I = {i}
  <2>1. i \in I
    BY <1>2, <1>4, CodeTable, Zenon
  <2>2. \A j \in I : j = i
    BY <1>2, <1>4, CodeTable, Zenon DEF Coded
  <2> QED
    BY <2>1, <2>2, Zenon
<1>6. M!SelectInSeq(M!morse_table, LAMBDA k : k = code)
        = IF I # {} THEN CHOOSE a \in I : \A j \in I : a <= j ELSE 0
  BY Zenon DEF M!SelectInSeq, M!Min
<1> HIDE DEF I
<1>7. M!SelectInSeq(M!morse_table, LAMBDA k : k = code) = i
  <2>1. \E a \in I : \A j \in I : a <= j
    <3>1. i \in I /\ I \subseteq Nat
      BY <1>2, <1>5 DEF Places
    <3> QED
      BY <3>1, LeastOf, Zenon
  <2> QED
    BY <1>5, <1>6, <2>1, Zenon
<1>8. Char(code) = c
  BY <1>3, <1>7, Zenon DEF Char
<1>9. M!Code(c) \in Seq(Bits)
  BY <1>2, CodeTable, Zenon
<1> QED
  BY <1>3, <1>4, <1>8, <1>9, Zenon

\* A fold along two sequences in a row goes on where the first one ends.
GoesOn(S, base, step, a, b) ==
  FoldOf(S, base, step, a \o b) = FoldOf(S, FoldOf(S, base, step, a), step, b)

\* It is so for all second sequences, an element more at a time.
LEMMA FoldOfConcat ==
  ASSUME NEW S, NEW base \in S, NEW A, NEW step \in [A -> [S -> S]], NEW a \in Seq(A)
  PROVE  \A b \in Seq(A) : GoesOn(S, base, step, a, b)
<1> DEFINE G == {b \in Seq(A) : GoesOn(S, base, step, a, b)}
<1>1. PICK s \in S : s = FoldOf(S, base, step, a)
  BY FoldOfType, Zenon
<1>2. <<>> \in G
  <2>1. a \o <<>> = a /\ <<>> \in Seq(A)
    BY ConcatEmptySeq
  <2>2. FoldOf(S, s, step, <<>>) = s
    BY FoldOfEmpty, Zenon
  <2> QED
    BY <1>1, <2>1, <2>2, Zenon DEF GoesOn
<1>3. ASSUME NEW b \in G, NEW c \in A PROVE Append(b, c) \in G
  <2>1. b \in Seq(A) /\ FoldOf(S, base, step, a \o b) = FoldOf(S, s, step, b)
    BY <1>1, Zenon DEF GoesOn
  <2>2. PICK ab \in Seq(A) : ab = a \o b
    BY <2>1, ConcatProperties
  <2>3. Append(b, c) \in Seq(A)
    BY <2>1, AppendProperties
  <2>4. a \o Append(b, c) = Append(ab, c)
    <3>1. Longer(b, c, A) /\ Longer(ab, c, A)
      BY <2>1, Lengthen, Zenon
    <3>2. PICK one \in Seq(A) : one = <<c>>
      BY TwoOf, Zenon
    <3>3. Associative(a, b, one)
      BY <2>1, ConcatIsAssociative, Zenon
    <3> QED
      BY <2>2, <3>1, <3>2, <3>3, Zenon DEF Longer, Associative
  <2>5. NextOf(S, base, step, ab, c)
    BY FoldOfAppend, Zenon
  <2>6. NextOf(S, s, step, b, c)
    BY <2>1, FoldOfAppend, Zenon
  <2> QED
    BY <1>1, <2>1, <2>2, <2>3, <2>4, <2>5, <2>6, Zenon DEF GoesOn, NextOf
<1>4. G = Seq(A)
  <2>1. G \in SUBSET Seq(A)
    OBVIOUS
  <2> HIDE DEF G
  <2> QED
    BY <1>2, <1>3, <2>1, SeqInduction, Zenon
<1> QED
  BY <1>4, Zenon

-----------------------------------------------------------------------------
(* What a stream of dots (0), dashes (1) and x (2) says *)

Sym == 0 .. 2
X == 2
SP == 32
HearKinds == {"code", "x", "xx", "bad"}
HearState == [out : Seq(Ascii), code : Seq(Bits), kind : HearKinds]

\* One symbol more: what was said, the code that goes on, and what the last
\* symbol was; "bad" when it makes no sense.
Heard(s, a) ==
  IF s.kind = "bad" THEN s
  ELSE IF a # X THEN [out |-> s.out, code |-> Append(s.code, a), kind |-> "code"]
  ELSE IF s.kind = "code" /\ Char(s.code) # SP
  THEN [out |-> Append(s.out, Char(s.code)), code |-> <<>>, kind |-> "x"]
  ELSE IF s.kind = "x" THEN [out |-> Append(s.out, SP), code |-> <<>>, kind |-> "xx"]
  ELSE [out |-> s.out, code |-> <<>>, kind |-> "bad"]

Hear == [a \in Sym |-> [s \in HearState |-> Heard(s, a)]]

\* What is heard when s was heard before.
Listen(s, b) == FoldOf(HearState, s, Hear, b)

\* A record of what was heard, in a form to instantiate.
LEMMA HeardState ==
  ASSUME NEW o \in Seq(Ascii), NEW c \in Seq(Bits), NEW k \in HearKinds
  PROVE  [out |-> o, code |-> c, kind |-> k] \in HearState
  BY DEF HearState

\* One symbol more leads to such a record.
LEMMA HeardType ==
  ASSUME NEW s \in HearState, NEW a \in Sym
  PROVE  Heard(s, a) \in HearState
<1>1. s.out \in Seq(Ascii) /\ s.code \in Seq(Bits) /\ s.kind \in HearKinds
  BY DEF HearState
<1>2. <<>> \in Seq(Bits) /\ "code" \in HearKinds /\ "x" \in HearKinds /\ "xx" \in HearKinds
      /\ "bad" \in HearKinds
  BY EmptySeq DEF HearKinds
<1>3. PICK ch \in Ascii : ch = Char(s.code)
  <2>1. 32 .. 122 \subseteq Ascii
    BY DEF Ascii
  <2> QED
    BY <2>1, CharType, Zenon
<1>4. Append(s.out, ch) \in Seq(Ascii) /\ Append(s.out, SP) \in Seq(Ascii)
  <2>1. SP \in Ascii
    BY DEF SP, Ascii
  <2> QED
    BY <1>1, <2>1, AppendProperties
<1>5. a # X => Append(s.code, a) \in Seq(Bits)
  <2>1. a # X => a \in Bits
    BY DEF Sym, X, Bits
  <2> QED
    BY <1>1, <2>1, AppendProperties
<1>6. CASE s.kind = "bad"
  BY <1>6, Zenon DEF Heard
<1>7. CASE s.kind # "bad" /\ a # X
  BY <1>1, <1>2, <1>5, <1>7, HeardState, Zenon DEF Heard
<1>8. CASE s.kind # "bad" /\ a = X /\ s.kind = "code" /\ ch # SP
  BY <1>2, <1>3, <1>4, <1>8, HeardState, Zenon DEF Heard
<1>9. CASE s.kind # "bad" /\ a = X /\ ~(s.kind = "code" /\ ch # SP) /\ s.kind = "x"
  BY <1>2, <1>3, <1>4, <1>9, HeardState, Zenon DEF Heard
<1>10. CASE s.kind # "bad" /\ a = X /\ ~(s.kind = "code" /\ ch # SP) /\ s.kind # "x"
  BY <1>1, <1>2, <1>3, <1>10, HeardState, Zenon DEF Heard
<1> QED
  BY <1>6, <1>7, <1>8, <1>9, <1>10, Zenon

\* Hear is a function, which a fold can take.
LEMMA HearType == Hear \in [Sym -> [HearState -> HearState]]
  BY HeardType, Zenon DEF Hear

\* Listening goes symbol by symbol, and on.
ListensOn(s, b, a) == Listen(s, Append(b, a)) = Heard(Listen(s, b), a)
ListensTo(s, a, b) == Listen(s, a \o b) = Listen(Listen(s, a), b)

\* What was heard is a record of the kind.
LEMMA ListenType ==
  \A s \in HearState : \A b \in Seq(Sym) : Listen(s, b) \in HearState
  BY HearType, FoldOfType, Zenon DEF Listen

\* Nothing more is heard from nothing.
LEMMA ListenEmpty == \A s \in HearState : Listen(s, <<>>) = s
  BY HearType, FoldOfEmpty, Zenon DEF Listen

\* One symbol more is heard behind the others.
LEMMA ListenAppend ==
  \A s \in HearState : \A b \in Seq(Sym) : \A a \in Sym : ListensOn(s, b, a)
<1> TAKE s \in HearState
<1> TAKE b \in Seq(Sym)
<1> TAKE a \in Sym
<1>1. NextOf(HearState, s, Hear, b, a)
  BY HearType, FoldOfAppend, Zenon
<1>2. Listen(s, b) \in HearState
  BY ListenType, Zenon
<1>3. Hear[a][Listen(s, b)] = Heard(Listen(s, b), a)
  BY <1>2, Zenon DEF Hear
<1> QED
  BY <1>1, <1>3, Zenon DEF NextOf, ListensOn, Listen

\* Two streams in a row are heard one behind the other.
LEMMA ListenConcat ==
  \A s \in HearState : \A a \in Seq(Sym) : \A b \in Seq(Sym) : ListensTo(s, a, b)
<1> TAKE s \in HearState
<1> TAKE a \in Seq(Sym)
<1> TAKE b \in Seq(Sym)
<1>1. GoesOn(HearState, s, Hear, a, b)
  BY HearType, FoldOfConcat, Zenon
<1> QED
  BY <1>1, Zenon DEF GoesOn, ListensTo, Listen

\* What made no sense never does.
LEMMA BadStays ==
  ASSUME NEW s \in HearState, s.kind = "bad"
  PROVE  \A b \in Seq(Sym) : Listen(s, b).kind = "bad"
<1> DEFINE G == {b \in Seq(Sym) : Listen(s, b).kind = "bad"}
<1>1. <<>> \in G
  BY ListenEmpty, EmptySeq, Zenon
<1>2. ASSUME NEW b \in G, NEW a \in Sym PROVE Append(b, a) \in G
  <2>1. b \in Seq(Sym) /\ Listen(s, b).kind = "bad"
    OBVIOUS
  <2>2. ListensOn(s, b, a)
    BY <2>1, ListenAppend, Zenon
  <2>3. Append(b, a) \in Seq(Sym)
    BY <2>1, AppendProperties
  <2> QED
    BY <2>1, <2>2, <2>3, Zenon DEF ListensOn, Heard
<1>3. G = Seq(Sym)
  <2>1. G \in SUBSET Seq(Sym)
    OBVIOUS
  <2> HIDE DEF G
  <2> QED
    BY <1>1, <1>2, <2>1, SeqInduction, Zenon
<1> QED
  BY <1>3, Zenon

\* What makes sense to its end does so from the beginning.
LEMMA SenseBefore ==
  ASSUME NEW s \in HearState, NEW a \in Seq(Sym), NEW b \in Seq(Sym),
         Listen(s, a \o b).kind # "bad"
  PROVE  Listen(s, a).kind # "bad"
<1>1. ListensTo(s, a, b)
  BY ListenConcat, Zenon
<1>2. Listen(s, a) \in HearState
  BY ListenType, Zenon
<1> QED
  BY <1>1, <1>2, BadStays, Zenon DEF ListensTo

-----------------------------------------------------------------------------
(* What is printed for a buffer of symbols *)

\* The end of a letter: the first x from there on, or the end of the buffer.
EndsWith(b, n, i, e) ==
  /\ e \in i .. n + 1 /\ \A j \in i .. e - 1 : b[j] # X
  /\ e <= n => b[e] = X

\* The program finds that end.
LEMMA EndIs ==
  ASSUME NEW b \in Seq(Sym), NEW n \in Nat, n = Len(b), NEW i \in Nat, i # 0, i <= n + 1
  PROVE  EndsWith(b, n, i, M!End(b, i))
<1> DEFINE I == {n + 1} \cup {j \in i .. n : b[j] = M!x}
<1>1. M!End(b, i) = CHOOSE m \in I : \A j \in I : m <= j
  BY Zenon DEF M!End, M!Min
<1>2. I # {} /\ I \in SUBSET Nat
  OBVIOUS
<1>3. \E m \in I : \A j \in I : m <= j
  BY <1>2, LeastOf, Zenon
<1>4. PICK e \in I : e = M!End(b, i) /\ \A j \in I : e <= j
  BY <1>1, <1>3, Zenon
<1>5. e \in i .. n + 1 /\ (e <= n => b[e] = M!x)
  BY <1>4
<1>6. \A j \in i .. e - 1 : b[j] # M!x
  <2> TAKE j \in i .. e - 1
  <2> SUFFICES ASSUME b[j] = M!x PROVE FALSE
    OBVIOUS
  <2>1. j \in i .. n
    BY <1>5
  <2>2. j \in I
    BY <2>1
  <2> QED
    BY <1>4, <1>5, <2>2
<1> QED
  BY <1>4, <1>5, <1>6, Zenon DEF EndsWith, X, M!x

\* The end is a place, whatever the symbols.
LEMMA EndType ==
  ASSUME NEW b \in Seq(Sym), NEW i \in Nat
  PROVE  M!End(b, i) \in Nat
<1>1. PICK n \in Nat : n = Len(b)
  BY LenProperties
<1> DEFINE I == {n + 1} \cup {j \in i .. n : b[j] = M!x}
<1>2. M!End(b, i) = CHOOSE m \in I : \A j \in I : m <= j
  BY <1>1, Zenon DEF M!End, M!Min
<1>3. I # {} /\ I \in SUBSET Nat
  OBVIOUS
<1>4. \E m \in I : \A j \in I : m <= j
  BY <1>3, LeastOf, Zenon
<1> QED
  BY <1>2, <1>3, <1>4, Zenon

Fares == {"start", "good", "failed", "lost"}
LetterState == [out : Seq(Ascii), lastCharWasX : BOOLEAN, state : Fares, at : Nat]

\* A record of the printer, in a form to instantiate.
LEMMA LetterFields ==
  ASSUME NEW o \in Seq(Ascii), NEW l \in BOOLEAN, NEW st \in Fares, NEW i \in Nat
  PROVE  [out |-> o, lastCharWasX |-> l, state |-> st, at |-> i] \in LetterState
  BY DEF LetterState

\* One or two characters are printed.
LEMMA PrintedType ==
  ASSUME NEW o \in Seq(Ascii), NEW ch \in Ascii
  PROVE  /\ (o \o <<ch>>) \o <<SP>> = Append(Append(o, ch), SP)
         /\ (o \o <<ch>>) \o <<>> = Append(o, ch)
         /\ Append(o, ch) \in Seq(Ascii) /\ Append(Append(o, ch), SP) \in Seq(Ascii)
<1>1. SP \in Ascii
  BY DEF SP, Ascii
<1>2. Longer(o, ch, Ascii)
  BY Lengthen, Zenon
<1>3. PICK p \in Seq(Ascii) : p = Append(o, ch)
  BY <1>2, Zenon DEF Longer
<1>4. Longer(p, SP, Ascii) /\ p \o <<>> = p
  BY <1>1, Lengthen, ConcatEmptySeq, Zenon
<1> QED
  BY <1>2, <1>3, <1>4, Zenon DEF Longer

\* A letter is one, whatever the symbols.
LEMMA LetterInAscii == \A b, i : M!Letter(b, i) \in Ascii /\ M!Letter(b, i) = Char(SubSeq(b, i, M!End(b, i) - 1))
<1> TAKE b, i
<1>1. PICK code : code = SubSeq(b, i, M!End(b, i) - 1)
  OBVIOUS
<1>2. M!Letter(b, i) = Char(code)
  BY <1>1, Zenon DEF M!Letter, Char, M!SelectInSeq
<1>3. 32 .. 122 \subseteq Ascii
  BY DEF Ascii
<1> QED
  BY <1>1, <1>2, <1>3, CharType, Zenon

\* A letter printed leads to such a record.
LEMMA DecryptLetterType ==
  ASSUME NEW b \in Seq(Sym), NEW s \in LetterState
  PROVE  M!DecryptLetter(b, s) \in LetterState
<1>1. s.out \in Seq(Ascii) /\ s.lastCharWasX \in BOOLEAN /\ s.state \in Fares /\ s.at \in Nat
  BY DEF LetterState
<1>2. PICK e \in Nat : e = M!End(b, s.at)
  BY <1>1, EndType, Zenon
<1>3. PICK after \in Nat : after = e + 1
  OBVIOUS
<1>4. PICK gap \in BOOLEAN : gap = (M!At(b, after) = M!x)
  OBVIOUS
<1>5. PICK next \in Nat : next = IF gap THEN after + 1 ELSE after
  OBVIOUS
<1>6. PICK third \in BOOLEAN : third = (M!At(b, next) = M!x /\ M!At(b, next + 1) # 3)
  OBVIOUS
<1>7. PICK ch \in Ascii : ch = M!Letter(b, s.at)
  BY LetterInAscii, Zenon
<1>8. PICK p \in Seq(Ascii) : p = s.out \o <<ch>> \o (IF gap THEN <<M!SPACE>> ELSE <<>>)
  <2>1. M!SPACE = SP
    BY Zenon DEF M!SPACE, SP
  <2> QED
    BY <1>1, <2>1, PrintedType, Zenon
<1>9. PICK o \in Seq(Ascii) : o = IF third THEN Append(p, M!SPACE) ELSE p
  <2>1. M!SPACE \in Ascii
    BY DEF M!SPACE, Ascii
  <2> QED
    BY <2>1, AppendProperties
<1>10. PICK i \in Nat : i = IF third THEN next + 2 ELSE next
  OBVIOUS
<1>11. PICK a \in Nat : a = IF M!At(b, i) \in {0, 1} THEN i ELSE 0
  OBVIOUS
<1>12. PICK l \in BOOLEAN : l = (~gap /\ ~third)
  OBVIOUS
<1>13. "lost" \in Fares /\ "good" \in Fares /\ 0 \in Nat
  BY DEF Fares
<1>14. CASE e = s.at \/ ch = 32
  <2>1. M!DecryptLetter(b, s)
          = [out |-> s.out, lastCharWasX |-> s.lastCharWasX, state |-> "lost", at |-> 0]
    BY <1>2, <1>7, <1>14, Zenon DEF M!DecryptLetter
  <2> QED
    BY <1>1, <1>13, <2>1, LetterFields, Zenon
<1>15. CASE ~(e = s.at \/ ch = 32)
  <2>1. M!DecryptLetter(b, s) = [out |-> o, lastCharWasX |-> l, state |-> "good", at |-> a]
    BY <1>2, <1>3, <1>4, <1>5, <1>6, <1>7, <1>8, <1>9, <1>10, <1>11, <1>12, <1>15, Zenon
       DEF M!DecryptLetter
  <2> QED
    BY <1>13, <2>1, LetterFields, Zenon
<1> QED
  BY <1>14, <1>15, Zenon

\* Behind the letter that ends at e comes a second x.
GapAt(b, n, e) == e + 1 <= n /\ b[e + 1] = X
Behind(b, n, e) == IF GapAt(b, n, e) THEN e + 2 ELSE e + 1

\* The letter that begins at s.at and ends at e is printed.
IsPrinted(b, n, s, e, ch) ==
  M!DecryptLetter(b, s) =
    [out |-> IF GapAt(b, n, e) THEN Append(Append(s.out, ch), SP) ELSE Append(s.out, ch),
     lastCharWasX |-> ~GapAt(b, n, e), state |-> "good",
     at |-> IF Behind(b, n, e) <= n THEN Behind(b, n, e) ELSE 0]

\* Looking at a place behind the buffer finds no symbol (the zero there).
LEMMA AtIs ==
  ASSUME NEW b \in Seq(Sym), NEW n \in Nat, n = Len(b)
  PROVE  \A i \in Nat : i # 0 =>
           /\ (M!At(b, i) = M!x) = (i <= n /\ b[i] = X)
           /\ (M!At(b, i) \in {0, 1}) = (i <= n /\ b[i] # X)
<1> TAKE i \in Nat
<1> HAVE i # 0
<1>1. \A k \in 1 .. n : b[k] \in Sym
  BY ElementOfSeq
<1>2. DOMAIN b = 1 .. n
  BY LenProperties
<1>3. PICK a : a = M!At(b, i)
  OBVIOUS
<1>4. a = IF i <= n THEN b[i] ELSE 3
  <2>1. (i \in 1 .. n) = (i <= n)
    OBVIOUS
  <2> QED
    BY <1>2, <1>3, <2>1, Zenon DEF M!At
<1>5. CASE i <= n
  <2>1. a \in Sym /\ a = b[i]
    BY <1>1, <1>4, <1>5
  <2> QED
    BY <1>3, <1>5, <2>1 DEF M!x, X, Sym
<1>6. CASE ~(i <= n)
  BY <1>3, <1>4, <1>6 DEF M!x
<1> QED
  BY <1>5, <1>6

\* A letter is printed, with a space when a second x follows.
LEMMA LetterIs ==
  ASSUME NEW b \in Seq(Sym), NEW n \in Nat, n = Len(b), NEW s \in LetterState,
         NEW e \in Nat, e = M!End(b, s.at), s.at # 0, e # s.at, e > s.at,
         NEW ch, ch = M!Letter(b, s.at), ch # 32,
         ~(Behind(b, n, e) <= n /\ b[Behind(b, n, e)] = X)
  PROVE  IsPrinted(b, n, s, e, ch)
<1>1. s.out \in Seq(Ascii)
  BY DEF LetterState
<1>2. PICK after \in Nat : after = e + 1
  OBVIOUS
<1>3. PICK gap \in BOOLEAN : gap = GapAt(b, n, e)
  BY DEF GapAt
<1>4. (M!At(b, after) = M!x) = gap
  <2>1. after # 0
    BY <1>2
  <2> QED
    BY <1>2, <1>3, <2>1, AtIs, Zenon DEF GapAt
<1>5. PICK next \in Nat : next = IF gap THEN after + 1 ELSE after
  OBVIOUS
<1>6. next = Behind(b, n, e) /\ next # 0
  <2>1. e + 2 = after + 1
    BY <1>2
  <2>2. next # 0
    BY <1>2, <1>5
  <2> QED
    BY <1>2, <1>3, <1>5, <2>1, <2>2, Zenon DEF Behind
<1>7. PICK t : t = FALSE
  OBVIOUS
<1>8. (M!At(b, next) = M!x /\ M!At(b, next + 1) # 3) = t
  BY <1>6, <1>7, AtIs, Zenon
<1>9. M!At(b, next) \in {0, 1} <=> next <= n
  BY <1>6, AtIs, Zenon
<1>10. PICK p : p = s.out \o <<ch>> \o (IF gap THEN <<M!SPACE>> ELSE <<>>)
  OBVIOUS
<1>11. p = IF GapAt(b, n, e) THEN Append(Append(s.out, ch), SP) ELSE Append(s.out, ch)
  <2>1. M!SPACE = SP
    BY Zenon DEF M!SPACE, SP
  <2>2. ch \in Ascii
    BY LetterInAscii, Zenon
  <2> QED
    BY <1>1, <1>3, <1>10, <2>1, <2>2, PrintedType, Zenon
<1>12. ~(e = s.at \/ ch = 32)
  OBVIOUS
<1>13. M!DecryptLetter(b, s) = [out |-> p, lastCharWasX |-> ~gap /\ ~t, state |-> "good",
                               at |-> IF M!At(b, next) \in {0, 1} THEN next ELSE 0]
  BY <1>2, <1>4, <1>5, <1>7, <1>8, <1>10, <1>12, Zenon DEF M!DecryptLetter
<1>14. PICK l : l = (~gap /\ ~t)
  OBVIOUS
<1>15. l = ~GapAt(b, n, e)
  BY <1>3, <1>7, <1>14, Zenon
<1>16. PICK a : a = IF M!At(b, next) \in {0, 1} THEN next ELSE 0
  OBVIOUS
<1>17. a = IF Behind(b, n, e) <= n THEN Behind(b, n, e) ELSE 0
  BY <1>6, <1>9, <1>16, Zenon
<1> QED
  BY <1>11, <1>13, <1>14, <1>15, <1>16, <1>17, Zenon DEF IsPrinted

\* The states of a run of -f -d between two letters.
Receiver == [buffer : Seq(Sym), out : Seq(Ascii), lastCharWasX : BOOLEAN, state : Fares]

\* What secondDecryption begins with, and what its loop leaves, letter by letter.
Begun(s) ==
  [out |-> IF s.buffer[1] = X /\ s.lastCharWasX THEN Append(s.out, SP) ELSE s.out,
   lastCharWasX |-> s.lastCharWasX, state |-> s.state, at |-> IF s.buffer[1] = X THEN 2 ELSE 1]

LetterAfter(b, r) == IF r.at = 0 THEN r ELSE M!DecryptLetter(b, r)

LettersRun(q, s, n) ==
  /\ q \in [0 .. n -> LetterState] /\ q[0] = Begun(s)
  /\ \A k \in 1 .. n : q[k] = LetterAfter(s.buffer, q[k - 1])
  /\ M!secondDecryption(s) = [buffer |-> <<>>, out |-> q[n].out,
                              lastCharWasX |-> q[n].lastCharWasX, state |-> q[n].state]

\* What secondDecryption begins with is a record of the printer.
LEMMA BegunType ==
  ASSUME NEW s \in Receiver PROVE Begun(s) \in LetterState
<1>1. s.out \in Seq(Ascii) /\ s.lastCharWasX \in BOOLEAN /\ s.state \in Fares
  BY DEF Receiver
<1>2. SP \in Ascii
  BY DEF SP, Ascii
<1>3. PICK o \in Seq(Ascii) :
        o = IF s.buffer[1] = X /\ s.lastCharWasX THEN Append(s.out, SP) ELSE s.out
  BY <1>1, <1>2, AppendProperties
<1>4. PICK i \in Nat : i = IF s.buffer[1] = X THEN 2 ELSE 1
  OBVIOUS
<1> QED
  BY <1>1, <1>3, <1>4, LetterFields, Zenon DEF Begun

\* The loop of secondDecryption is such a run.
LEMMA LettersAreRun ==
  ASSUME NEW s \in Receiver, NEW n \in Nat, n = Len(s.buffer)
  PROVE  \E q : LettersRun(q, s, n)
<1>0. PICK b \in Seq(Sym) : b = s.buffer
  BY DEF Receiver
<1>1. n = Len(b) /\ DOMAIN b = 1 .. n
  BY <1>0, LenProperties
<1>2. PICK base \in LetterState : base = Begun(s)
  BY BegunType, Zenon
<1>3. PICK g : g = [k \in 1 .. n |-> [r \in LetterState |-> LetterAfter(b, r)]]
  OBVIOUS
<1>4. /\ g \in [1 .. n -> [LetterState -> LetterState]]
      /\ \A k \in 1 .. n : \A r \in LetterState : g[k][r] = LetterAfter(b, r)
  <2>1. \A r \in LetterState : LetterAfter(b, r) \in LetterState
    BY DecryptLetterType, Zenon DEF LetterAfter
  <2> QED
    BY <1>3, <2>1, Zenon
<1>5. PICK w : FoldTable(w, LetterState, n, base, g)
  BY <1>4, FoldDefined, Zenon
<1>6. /\ w \in [SUBSET (1 .. n) -> LetterState]
      /\ \A v \in SUBSET (1 .. n) :
           w[v] = IF v = {} THEN base
                  ELSE g[CHOOSE m \in v : \A k \in v : m >= k]
                        [w[v \ {CHOOSE m \in v : \A k \in v : m >= k}]]
  BY <1>5, Zenon DEF FoldTable
<1> DEFINE Body(f) ==
             [v \in SUBSET (1 .. n) |->
               IF v = {} THEN base
               ELSE LetterAfter(b, f[v \ {CHOOSE m \in v : \A k \in v : m >= k}])]
           E == CHOOSE iter : iter = Body(iter)
<1>7. \A v \in SUBSET (1 .. n) : v # {} =>
        /\ (CHOOSE m \in v : \A k \in v : m >= k) \in 1 .. n
        /\ w[v \ {CHOOSE m \in v : \A k \in v : m >= k}] \in LetterState
  <2> TAKE v \in SUBSET (1 .. n)
  <2> HAVE v # {}
  <2>1. \E m \in v : \A k \in v : m >= k
    BY GreatestOf, Zenon
  <2>2. PICK j : j = CHOOSE m \in v : \A k \in v : m >= k
    OBVIOUS
  <2>3. j \in v
    BY <2>1, <2>2, Zenon
  <2>4. v \ {j} \in SUBSET (1 .. n) /\ j \in 1 .. n
    BY <2>3
  <2> QED
    BY <1>6, <2>2, <2>4, Zenon
<1>8. w = Body(w)
  <2>1. \A v \in SUBSET (1 .. n) : w[v] = Body(w)[v]
    <3> TAKE v \in SUBSET (1 .. n)
    <3>1. CASE v = {}
      BY <1>6, <3>1, Zenon
    <3>2. CASE v # {}
      <4>1. PICK j : j = CHOOSE m \in v : \A k \in v : m >= k
        OBVIOUS
      <4>2. j \in 1 .. n /\ w[v \ {j}] \in LetterState
        BY <1>7, <3>2, <4>1, Zenon
      <4>3. w[v] = g[j][w[v \ {j}]]
        BY <1>6, <3>2, <4>1, Zenon
      <4>4. w[v] = LetterAfter(b, w[v \ {j}])
        BY <1>4, <4>2, <4>3, Zenon
      <4>5. Body(w)[v] = LetterAfter(b, w[v \ {j}])
        BY <3>2, <4>1, Zenon
      <4> QED
        BY <4>4, <4>5, Zenon
    <3> QED
      BY <3>1, <3>2
  <2> QED
    BY <1>6, <2>1, Zenon
<1>9. E = Body(E)
  <2> HIDE DEF Body
  <2> QED
    BY <1>8, Zenon
<1>10. M!secondDecryption(s) = [buffer |-> <<>>, out |-> E[1 .. n].out,
                                lastCharWasX |-> E[1 .. n].lastCharWasX, state |-> E[1 .. n].state]
  BY <1>0, <1>1, <1>2, Zenon
     DEF M!secondDecryption, M!FoldLeftDomain, M!FoldLeft, M!MapThenFoldSet, M!Max, Begun, X, M!x,
         SP, M!SPACE, LetterAfter
<1> HIDE DEF E
<1>11. E[{}] = base
  BY <1>9, Zenon
<1>12. \A k \in 1 .. n : E[1 .. k - 1] \in LetterState => E[1 .. k] = g[k][E[1 .. k - 1]]
  <2> TAKE k \in 1 .. n
  <2> HAVE E[1 .. k - 1] \in LetterState
  <2>1. k \in Nat /\ k # 0 /\ 1 .. k \in SUBSET (1 .. n)
    BY <1>1
  <2>2. /\ (CHOOSE m \in 1 .. k : \A j \in 1 .. k : m >= j) = k
        /\ (1 .. k) \ {k} = 1 .. (k - 1) /\ 1 .. k # {}
    BY <2>1, GreatestUpTo
  <2>3. E[1 .. k] = LetterAfter(b, E[1 .. k - 1])
    BY <1>9, <2>1, <2>2, Zenon
  <2> QED
    BY <1>4, <2>3, Zenon
<1>13. FoldEnds(LetterState, n, base, g, E)
  BY <1>4, <1>11, <1>12, FoldRun, Zenon
<1>14. PICK q \in Runs(LetterState, n, base, g) : E[1 .. n] = q[n]
  BY <1>13, Zenon DEF FoldEnds
<1>15. q \in [0 .. n -> LetterState] /\ q[0] = base /\ \A k \in 1 .. n : q[k] = g[k][q[k - 1]]
  BY <1>14 DEF Runs
<1>16. \A k \in 1 .. n : q[k] = LetterAfter(b, q[k - 1])
  <2> TAKE k \in 1 .. n
  <2>1. q[k - 1] \in LetterState
    BY <1>15
  <2> QED
    BY <1>4, <1>15, <2>1, Zenon
<1> QED
  BY <1>0, <1>2, <1>10, <1>14, <1>15, <1>16, Zenon DEF LettersRun

\* What is heard, symbol by symbol.
HeardAlong(q, h, b, n) ==
  /\ q \in [0 .. n -> HearState] /\ q[0] = h
  /\ \A k \in 1 .. n : q[k] = Heard(q[k - 1], b[k])
  /\ Listen(h, b) = q[n]
  /\ Listen(h, b).kind # "bad" => \A k \in 0 .. n : q[k].kind # "bad"

\* A stream is heard symbol by symbol, and senseless from the first symbol
\* that is.
LEMMA HeardIsRun ==
  ASSUME NEW h \in HearState, NEW b \in Seq(Sym), NEW n \in Nat, n = Len(b)
  PROVE  \E q : HeardAlong(q, h, b, n)
<1>1. PICK step \in [Sym -> [HearState -> HearState]] : step = Hear
  BY HearType, Zenon
<1>2. PICK g : g = Steps(step, b)
  OBVIOUS
<1>3. PICK q : q \in Runs(HearState, Len(b), h, g)
  BY <1>2, StepsType, Zenon
<1>4. EndsAt(HearState, h, step, b, q)
  BY <1>2, <1>3, FoldOfRun, Zenon
<1>5. q \in [0 .. n -> HearState] /\ q[0] = h /\ \A k \in 1 .. n : q[k] = g[k][q[k - 1]]
  BY <1>3 DEF Runs
<1>6. \A k \in 1 .. n : q[k] = Heard(q[k - 1], b[k])
  <2> TAKE k \in 1 .. n
  <2>1. q[k - 1] \in HearState
    BY <1>5
  <2>2. b[k] \in Sym
    BY ElementOfSeq
  <2>3. g[k] = Hear[b[k]]
    BY <1>1, <1>2, Zenon DEF Steps
  <2> QED
    BY <1>5, <2>1, <2>2, <2>3, Zenon DEF Hear
<1>7. Listen(h, b) = q[n]
  BY <1>1, <1>4, Zenon DEF EndsAt, Listen
<1>8. ASSUME Listen(h, b).kind # "bad" PROVE \A k \in 0 .. n : q[k].kind # "bad"
  <2> DEFINE K == {k \in 0 .. n : q[n - k].kind # "bad"}
  <2>1. 0 \in K
    <3>1. n - 0 = n
      OBVIOUS
    <3> QED
      BY <1>7, <1>8, <3>1
  <2>2. ASSUME NEW i \in 0 .. n - 1 PROVE i \in K => i + 1 \in K
    <3> HAVE i \in K
    <3>1. PICK j \in 1 .. n : j = n - i /\ j - 1 = n - (i + 1)
      OBVIOUS
    <3>2. q[j].kind # "bad"
      BY <3>1
    <3>3. q[j - 1].kind # "bad"
      BY <1>6, <3>2, Zenon DEF Heard
    <3>4. i + 1 \in 0 .. n
      OBVIOUS
    <3> QED
      BY <3>1, <3>3, <3>4, Zenon
  <2>3. \A i \in 0 .. n : i \in K
    <3> HIDE DEF K
    <3> QED
      BY <2>1, <2>2, InductionUpTo, Zenon
  <2> HIDE DEF K
  <2> TAKE k \in 0 .. n
  <2>4. n - k \in 0 .. n /\ n - (n - k) = k
    OBVIOUS
  <2>5. PICK i \in 0 .. n : n - i = k
    BY <2>4, Zenon
  <2>6. i \in K
    BY <2>3
  <2> QED
    BY <2>5, <2>6 DEF K
<1> QED
  BY <1>5, <1>6, <1>7, <1>8, Zenon DEF HeardAlong

SubSeqEnds(b, i, j) == SubSeq(b, i, j) = Append(SubSeq(b, i, j - 1), b[j])

\* A piece of the buffer grows by the symbol behind it.
LEMMA SubSeqStep ==
  ASSUME NEW b \in Seq(Sym), NEW n \in Nat, n = Len(b), NEW i \in 1 .. n
  PROVE  SubSeq(b, i, i - 1) = <<>> /\ \A j \in i .. n : SubSeqEnds(b, i, j)
<1>1. SubSeq(b, i, i - 1) = <<>>
  BY SubSeqProperties
<1>2. ASSUME NEW j \in i .. n PROVE SubSeqEnds(b, i, j)
  <2>1. i \in Int /\ j \in Int /\ j - 1 \in Int /\ i >= 1 /\ j <= n /\ i <= j
    OBVIOUS
  <2>2. \A k \in i .. j : b[k] \in Sym
    <3>1. \A k \in 1 .. n : b[k] \in Sym
      BY ElementOfSeq
    <3> QED
      BY <3>1
  <2>3. PICK w \in Seq(Sym) : /\ w = SubSeq(b, i, j) /\ Len(w) = (j - i) + 1
                              /\ \A k \in 1 .. (j - i) + 1 : w[k] = b[i + k - 1]
    <3>1. /\ SubSeq(b, i, j) \in Seq(Sym) /\ Len(SubSeq(b, i, j)) = IF i <= j THEN (j - i) + 1 ELSE 0
          /\ \A k \in 1 .. (j - i) + 1 : SubSeq(b, i, j)[k] = b[i + k - 1]
      BY <2>1, <2>2, SubSeqProperties
    <3> QED
      BY <2>1, <3>1
  <2>4. PICK p \in Seq(Sym) : /\ p = SubSeq(b, i, j - 1) /\ Len(p) = j - i
                              /\ \A k \in 1 .. j - i : p[k] = b[i + k - 1]
    <3>1. PICK m \in Int : m = j - 1 /\ (m - i) + 1 = j - i /\ \A k \in i .. m : k \in i .. j
      BY <2>1
    <3>2. /\ SubSeq(b, i, m) \in Seq(Sym) /\ Len(SubSeq(b, i, m)) = IF i <= m THEN (m - i) + 1 ELSE 0
          /\ \A k \in 1 .. (m - i) + 1 : SubSeq(b, i, m)[k] = b[i + k - 1]
      BY <2>1, <2>2, <3>1, SubSeqProperties
    <3>3. (IF i <= m THEN (m - i) + 1 ELSE 0) = j - i
      BY <2>1, <3>1
    <3> QED
      BY <3>1, <3>2, <3>3
  <2>5. PICK a \in Sym : a = b[j]
    BY <2>1, <2>2
  <2>6. w = Append(p, a)
    <3>1. w[(j - i) + 1] = a
      BY <2>3, <2>5
    <3>2. \A k \in 1 .. j - i : w[k] = p[k]
      BY <2>3, <2>4
    <3>3. Len(Append(p, a)) = (j - i) + 1 /\ Append(p, a) \in Seq(Sym)
          /\ Append(p, a)[(j - i) + 1] = a /\ \A k \in 1 .. j - i : Append(p, a)[k] = p[k]
      BY <2>4, AppendProperties
    <3> QED
      BY <2>3, <3>1, <3>2, <3>3, SeqEqual
  <2> QED
    BY <2>3, <2>4, <2>5, <2>6, Zenon DEF SubSeqEnds
<1> QED
  BY <1>1, <1>2, Zenon

HeardFields(s, o, c, k) == s.out = o /\ s.code = c /\ s.kind = k

\* The fields of a record of what was heard.
LEMMA HeardRecord ==
  \A o, c, k : HeardFields([out |-> o, code |-> c, kind |-> k], o, c, k)
  BY DEF HeardFields

\* A record is made of its fields.
LEMMA HeardSame ==
  ASSUME NEW s \in HearState, NEW o, NEW c, NEW k, HeardFields(s, o, c, k)
  PROVE  s = [out |-> o, code |-> c, kind |-> k]
  BY DEF HeardFields, HearState

LetterHas(s, o, l, st, i) == s.out = o /\ s.lastCharWasX = l /\ s.state = st /\ s.at = i

\* The fields of a record of the printer.
LEMMA LetterRecord ==
  \A o, l, st, i :
    LetterHas([out |-> o, lastCharWasX |-> l, state |-> st, at |-> i], o, l, st, i)
  BY DEF LetterHas

\* One symbol, by what was heard before.
LEMMA HeardBit ==
  ASSUME NEW s, s.kind # "bad", NEW a, a # X
  PROVE  HeardFields(Heard(s, a), s.out, Append(s.code, a), "code")
  BY HeardRecord, Zenon DEF Heard

\* An x behind a letter ends it.
LEMMA HeardEnd ==
  ASSUME NEW s, s.kind = "code", Heard(s, X).kind # "bad"
  PROVE  Char(s.code) # SP /\ HeardFields(Heard(s, X), Append(s.out, Char(s.code)), <<>>, "x")
<1>1. s.kind # "bad" /\ s.kind # "x"
  OBVIOUS
<1>2. CASE Char(s.code) # SP
  <2>1. Heard(s, X) = [out |-> Append(s.out, Char(s.code)), code |-> <<>>, kind |-> "x"]
    BY <1>1, <1>2, Zenon DEF Heard
  <2> QED
    BY <1>2, <2>1, HeardRecord, Zenon
<1>3. CASE Char(s.code) = SP
  <2>1. Heard(s, X) = [out |-> s.out, code |-> <<>>, kind |-> "bad"]
    BY <1>1, <1>3, Zenon DEF Heard
  <2>2. HeardFields(Heard(s, X), s.out, <<>>, "bad")
    BY <2>1, HeardRecord, Zenon
  <2>3. Heard(s, X).kind = "bad"
    BY <2>2, Zenon DEF HeardFields
  <2> QED
    BY <2>3
<1> QED
  BY <1>2, <1>3

\* An x behind an x is a space, and only one.
LEMMA HeardGap ==
  ASSUME NEW s, s.kind = "x" \/ s.kind = "xx", Heard(s, X).kind # "bad"
  PROVE  s.kind = "x" /\ HeardFields(Heard(s, X), Append(s.out, SP), <<>>, "xx")
<1>1. s.kind # "bad" /\ s.kind # "code"
  OBVIOUS
<1>2. CASE s.kind = "x"
  <2>1. Heard(s, X) = [out |-> Append(s.out, SP), code |-> <<>>, kind |-> "xx"]
    BY <1>1, <1>2, Zenon DEF Heard
  <2> QED
    BY <1>2, <2>1, HeardRecord, Zenon
<1>3. CASE s.kind # "x"
  <2>1. Heard(s, X) = [out |-> s.out, code |-> <<>>, kind |-> "bad"]
    BY <1>1, <1>3, Zenon DEF Heard
  <2>2. HeardFields(Heard(s, X), s.out, <<>>, "bad")
    BY <2>1, HeardRecord, Zenon
  <2>3. Heard(s, X).kind = "bad"
    BY <2>2, Zenon DEF HeardFields
  <2> QED
    BY <2>3
<1> QED
  BY <1>2, <1>3

\* Between two letters: everything is said.
Paused(s) == s.code = <<>> /\ (s.kind = "x" \/ s.kind = "xx")

\* The dots and dashes of a letter.
LEMMA BitsHeard ==
  ASSUME NEW h \in HearState, NEW b \in Seq(Sym), NEW n \in Nat, n = Len(b),
         NEW q, HeardAlong(q, h, b, n), NEW i \in 1 .. n, NEW e \in Nat, EndsWith(b, n, i, e), e > i,
         Paused(q[i - 1])
  PROVE  HeardFields(q[e - 1], q[i - 1].out, SubSeq(b, i, e - 1), "code")
<1>1. PICK d \in Nat : d = (e - 1) - i
  OBVIOUS
<1> DEFINE K == {k \in 0 .. d : HeardFields(q[i + k], q[i - 1].out, SubSeq(b, i, i + k), "code")}
<1>2. e \in i .. n + 1 /\ \A j \in i .. e - 1 : b[j] # X
  BY Zenon DEF EndsWith
<1>3. \A j \in 1 .. n : q[j] = Heard(q[j - 1], b[j])
  BY Zenon DEF HeardAlong
<1>4. SubSeq(b, i, i - 1) = <<>> /\ \A j \in i .. n : SubSeqEnds(b, i, j)
  BY SubSeqStep, Zenon
<1>5. 0 \in K
  <2>1. i \in i .. n /\ i \in i .. e - 1 /\ i + 0 = i /\ 0 \in 0 .. d
    OBVIOUS
  <2>2. b[i] # X /\ q[i] = Heard(q[i - 1], b[i]) /\ SubSeq(b, i, i) = Append(<<>>, b[i])
    BY <1>2, <1>3, <1>4, <2>1, Zenon DEF SubSeqEnds
  <2>3. q[i - 1].kind # "bad" /\ q[i - 1].code = <<>>
    BY DEF Paused
  <2>4. HeardFields(q[i], q[i - 1].out, SubSeq(b, i, i), "code")
    BY <2>2, <2>3, HeardBit, Zenon
  <2> QED
    BY <2>1, <2>4, Zenon
<1>6. ASSUME NEW k \in 0 .. d - 1 PROVE k \in K => k + 1 \in K
  <2> HAVE k \in K
  <2>1. PICK j : j = i + (k + 1) /\ j - 1 = i + k /\ j \in 1 .. n /\ j \in i .. n /\ j \in i .. e - 1
    BY <1>1, <1>2
  <2>2. q[j - 1].out = q[i - 1].out /\ q[j - 1].code = SubSeq(b, i, j - 1) /\ q[j - 1].kind = "code"
    BY <2>1, Zenon DEF HeardFields
  <2>3. b[j] # X /\ q[j] = Heard(q[j - 1], b[j]) /\ SubSeq(b, i, j) = Append(SubSeq(b, i, j - 1), b[j])
    BY <1>2, <1>3, <1>4, <2>1, Zenon DEF SubSeqEnds
  <2>4. q[j - 1].kind # "bad"
    BY <2>2
  <2>5. HeardFields(q[j], q[i - 1].out, SubSeq(b, i, j), "code")
    BY <2>2, <2>3, <2>4, HeardBit, Zenon
  <2>6. k + 1 \in 0 .. d
    OBVIOUS
  <2> QED
    BY <2>1, <2>5, <2>6, Zenon
<1>7. d \in K
  <2> HIDE DEF K
  <2>1. \A k \in 0 .. d : k \in K
    BY <1>5, <1>6, InductionUpTo, Zenon
  <2> QED
    BY <2>1
<1>8. i + d = e - 1
  BY <1>1
<1> QED
  BY <1>7, <1>8, Zenon

\* The printer has printed what was heard: in the middle, and at the end,
\* where the last letter may have no x.
Told(r, s) == Paused(s) /\ r.out = s.out
AllTold(r, s) ==
  \/ Paused(s) /\ r.out = s.out /\ r.lastCharWasX = (s.kind = "x")
  \/ s.kind = "code" /\ r.out = Append(s.out, Char(s.code)) /\ r.lastCharWasX = TRUE

\* What was heard makes sense to the end.
Sense(s) == s.kind # "bad" /\ (s.kind = "code" => Char(s.code) # SP)

Onward(r, b, n, q, i) ==
  /\ r.state = "good"
  /\ \/ r.at \in i + 1 .. n /\ b[r.at] # X /\ Told(r, q[r.at - 1])
     \/ r.at = 0 /\ AllTold(r, q[n])

\* When all before a letter is told, the printer tells the letter and goes on.
LEMMA LetterStep ==
  ASSUME NEW h \in HearState, NEW b \in Seq(Sym), NEW n \in Nat, n = Len(b),
         NEW q, HeardAlong(q, h, b, n), Sense(q[n]),
         NEW r \in LetterState, r.at \in 1 .. n, b[r.at] # X, Told(r, q[r.at - 1])
  PROVE  Onward(M!DecryptLetter(b, r), b, n, q, r.at)
<1>1. PICK i \in 1 .. n : i = r.at
  OBVIOUS
<1>2. PICK e : e = M!End(b, i)
  OBVIOUS
<1>3. EndsWith(b, n, i, e)
  <2>1. i \in Nat /\ i # 0 /\ i <= n + 1
    OBVIOUS
  <2> QED
    BY <1>2, <2>1, EndIs, Zenon
<1>4. e \in Nat /\ e > i /\ e <= n + 1 /\ (e <= n => b[e] = X)
  <2>1. e \in i .. n + 1 /\ (e <= n => b[e] = X)
    BY <1>3, Zenon DEF EndsWith
  <2>2. e # i
    BY <1>1, <2>1
  <2> QED
    BY <2>1, <2>2
<1>5. PICK o : o = r.out
  OBVIOUS
<1>6. PICK code : code = SubSeq(b, i, e - 1)
  OBVIOUS
<1>7. PICK ch : ch = M!Letter(b, i) /\ ch = Char(code)
  BY <1>2, <1>6, LetterInAscii, Zenon
<1>8. HeardFields(q[e - 1], o, code, "code")
  <2>1. Paused(q[i - 1]) /\ q[i - 1].out = o
    BY <1>1, <1>5, Zenon DEF Told
  <2>2. HeardFields(q[e - 1], q[i - 1].out, SubSeq(b, i, e - 1), "code")
    BY <1>3, <1>4, <2>1, BitsHeard, Zenon
  <2> QED
    BY <1>6, <2>1, <2>2, Zenon
<1>9. /\ \A j \in 1 .. n : q[j] = Heard(q[j - 1], b[j])
      /\ \A j \in 0 .. n : q[j].kind # "bad"
  BY Zenon DEF HeardAlong, Sense
<1>12. /\ r.at # 0 /\ e # r.at /\ e > r.at /\ e = M!End(b, r.at)
       /\ ch = M!Letter(b, r.at)
  BY <1>1, <1>2, <1>4, <1>7
<1>10. CASE e = n + 1
  <2>1. q[n].out = o /\ q[n].code = code /\ q[n].kind = "code"
    <3>1. e - 1 = n
      BY <1>10
    <3> QED
      BY <1>8, <3>1, Zenon DEF HeardFields
  <2>2. ch # 32
    BY <1>7, <2>1 DEF Sense, SP
  <2>3. ~(e + 1 <= n) /\ ~(e + 1 <= n) /\ e # i
    BY <1>10
  <2>4. ~GapAt(b, n, e) /\ Behind(b, n, e) = e + 1
    BY <2>3, Zenon DEF GapAt, Behind
  <2>5. IsPrinted(b, n, r, e, ch)
    <3>1. ~(Behind(b, n, e) <= n /\ b[Behind(b, n, e)] = X)
      BY <2>3, <2>4, Zenon
    <3> QED
      BY <1>4, <1>12, <2>2, <3>1, LetterIs, Zenon
  <2>6. PICK d : d = M!DecryptLetter(b, r)
    OBVIOUS
  <2>7. PICK t : t = TRUE
    OBVIOUS
  <2>8. d = [out |-> Append(o, ch), lastCharWasX |-> t, state |-> "good", at |-> 0]
    BY <1>5, <2>3, <2>4, <2>5, <2>6, <2>7, Zenon DEF IsPrinted
  <2>9. LetterHas(d, Append(o, ch), t, "good", 0)
    BY <2>8, LetterRecord, Zenon
  <2> QED
    BY <1>7, <2>1, <2>6, <2>7, <2>9, Zenon DEF LetterHas, Onward, AllTold
<1>11. CASE e <= n
  <2>1. HeardFields(q[e], Append(o, ch), <<>>, "x") /\ ch # 32
    <3>1. e \in 1 .. n /\ b[e] = X /\ e \in 0 .. n
      BY <1>4, <1>11
    <3>2. q[e] = Heard(q[e - 1], X) /\ q[e].kind # "bad"
      BY <1>9, <3>1, Zenon
    <3>3. q[e - 1].kind = "code" /\ q[e - 1].out = o /\ q[e - 1].code = code
      BY <1>8, Zenon DEF HeardFields
    <3>4. Char(code) # SP /\ HeardFields(Heard(q[e - 1], X), Append(o, Char(code)), <<>>, "x")
      BY <3>2, <3>3, HeardEnd, Zenon
    <3> QED
      BY <1>7, <3>2, <3>4, Zenon DEF SP
  <2>2. q[e].kind = "x" /\ q[e].code = <<>> /\ q[e].out = Append(o, ch)
    BY <2>1, Zenon DEF HeardFields
  <2>3. Paused(q[e])
    BY <2>2, Zenon DEF Paused
  <2>4. PICK d : d = M!DecryptLetter(b, r)
    OBVIOUS
  <2>5. CASE GapAt(b, n, e)
    <3>1. e + 1 <= n /\ b[e + 1] = X
      BY <2>5, Zenon DEF GapAt
    <3>2. PICK g : g = e + 1 /\ g \in 1 .. n /\ g \in 0 .. n /\ g - 1 = e /\ e + 2 = g + 1
      BY <1>4, <3>1
    <3>3. HeardFields(q[g], Append(Append(o, ch), SP), <<>>, "xx")
      <4>1. q[g] = Heard(q[e], X) /\ q[g].kind # "bad"
        BY <1>9, <3>1, <3>2, Zenon
      <4> QED
        BY <2>2, <4>1, HeardGap, Zenon
    <3>4. q[g].kind = "xx" /\ q[g].code = <<>> /\ q[g].out = Append(Append(o, ch), SP)
      BY <3>3, Zenon DEF HeardFields
    <3>5. Behind(b, n, e) = g + 1
      BY <2>5, <3>2, Zenon DEF Behind
    <3>6. g + 1 <= n => b[g + 1] # X
      <4> SUFFICES ASSUME g + 1 <= n, b[g + 1] = X PROVE FALSE
        OBVIOUS
      <4>1. PICK f : f = g + 1 /\ f \in 1 .. n /\ f \in 0 .. n /\ f - 1 = g
        BY <3>2
      <4>2. q[f] = Heard(q[g], X) /\ q[f].kind # "bad"
        BY <1>9, <4>1, Zenon
      <4>3. q[g].kind = "x"
        BY <3>4, <4>2, HeardGap, Zenon
      <4> QED
        BY <3>4, <4>3
    <3>7. IsPrinted(b, n, r, e, ch)
      <4>1. ~(Behind(b, n, e) <= n /\ b[Behind(b, n, e)] = X)
        BY <3>5, <3>6, Zenon
      <4> QED
        BY <1>4, <1>12, <2>1, <4>1, LetterIs, Zenon
    <3>8. PICK t : t = FALSE
      OBVIOUS
    <3>9. d = [out |-> Append(Append(o, ch), SP), lastCharWasX |-> t, state |-> "good",
               at |-> IF g + 1 <= n THEN g + 1 ELSE 0]
      BY <1>5, <2>4, <2>5, <3>5, <3>7, <3>8, Zenon DEF IsPrinted
    <3>10. LetterHas(d, Append(Append(o, ch), SP), t, "good", IF g + 1 <= n THEN g + 1 ELSE 0)
      BY <3>9, LetterRecord, Zenon
    <3>11. d.out = q[g].out /\ d.lastCharWasX = (q[g].kind = "x") /\ d.state = "good" /\ Paused(q[g])
      <4>1. t = (q[g].kind = "x")
        BY <3>4, <3>8
      <4> QED
        BY <3>4, <3>10, <4>1, Zenon DEF LetterHas, Paused
    <3>12. CASE g + 1 <= n
      <4>1. d.at = g + 1
        BY <3>10, <3>12, Zenon DEF LetterHas
      <4>2. d.at \in i + 1 .. n /\ b[d.at] # X /\ d.at - 1 = g
        BY <1>4, <3>2, <3>6, <3>12, <4>1
      <4> QED
        BY <1>1, <2>4, <3>11, <4>2, Zenon DEF Onward, Told
    <3>13. CASE ~(g + 1 <= n)
      <4>1. d.at = 0
        BY <3>10, <3>13, Zenon DEF LetterHas
      <4>2. g = n
        BY <3>2, <3>13
      <4> QED
        BY <2>4, <3>11, <4>1, <4>2, Zenon DEF Onward, AllTold
    <3> QED
      BY <3>12, <3>13
  <2>6. CASE ~GapAt(b, n, e)
    <3>1. Behind(b, n, e) = e + 1 /\ ~(e + 1 <= n /\ b[e + 1] = X)
      BY <2>6, Zenon DEF GapAt, Behind
    <3>2. IsPrinted(b, n, r, e, ch)
      <4>1. ~(Behind(b, n, e) <= n /\ b[Behind(b, n, e)] = X)
        BY <3>1, Zenon
      <4> QED
        BY <1>4, <1>12, <2>1, <4>1, LetterIs, Zenon
    <3>3. PICK t : t = TRUE
      OBVIOUS
    <3>4. d = [out |-> Append(o, ch), lastCharWasX |-> t, state |-> "good",
               at |-> IF e + 1 <= n THEN e + 1 ELSE 0]
      BY <1>5, <2>4, <2>6, <3>1, <3>2, <3>3, Zenon DEF IsPrinted
    <3>5. LetterHas(d, Append(o, ch), t, "good", IF e + 1 <= n THEN e + 1 ELSE 0)
      BY <3>4, LetterRecord, Zenon
    <3>6. d.out = q[e].out /\ d.lastCharWasX = (q[e].kind = "x") /\ d.state = "good"
      <4>1. t = (q[e].kind = "x")
        BY <2>2, <3>3
      <4> QED
        BY <2>2, <3>5, <4>1, Zenon DEF LetterHas
    <3>7. CASE e + 1 <= n
      <4>1. d.at = e + 1
        BY <3>5, <3>7, Zenon DEF LetterHas
      <4>2. d.at \in i + 1 .. n /\ b[d.at] # X /\ d.at - 1 = e
        BY <1>4, <3>1, <3>7, <4>1
      <4> QED
        BY <1>1, <2>3, <2>4, <3>6, <4>2, Zenon DEF Onward, Told
    <3>8. CASE ~(e + 1 <= n)
      <4>1. d.at = 0
        BY <3>5, <3>8, Zenon DEF LetterHas
      <4>2. e = n
        BY <1>4, <1>11, <3>8
      <4> QED
        BY <2>3, <2>4, <3>6, <4>1, <4>2, Zenon DEF Onward, AllTold
    <3> QED
      BY <3>7, <3>8
  <2> QED
    BY <2>5, <2>6
<1> QED
  BY <1>4, <1>10, <1>11

\* What the printed text says to one who goes on listening.
Start(d) == [out |-> d.out, code |-> <<>>, kind |-> IF d.lastCharWasX THEN "x" ELSE "xx"]

\* What was printed is what was heard before.
LEMMA StartType ==
  ASSUME NEW d, d.out \in Seq(Ascii)
  PROVE  Start(d) \in HearState /\ Paused(Start(d)) /\ Start(d).out = d.out
         /\ (Start(d).kind = "x" <=> d.lastCharWasX)
<1>1. PICK k : k = IF d.lastCharWasX THEN "x" ELSE "xx"
  OBVIOUS
<1>2. <<>> \in Seq(Bits) /\ k \in HearKinds /\ (k = "x" \/ k = "xx") /\ (k = "x" <=> d.lastCharWasX)
  BY <1>1, EmptySeq DEF HearKinds
<1>3. HeardFields(Start(d), d.out, <<>>, k)
  BY <1>1, HeardRecord, Zenon DEF Start
<1>4. Start(d) \in HearState
  BY <1>1, <1>2, HeardState, Zenon DEF Start
<1> QED
  BY <1>2, <1>3, <1>4, Zenon DEF HeardFields, Paused

\* The printer begins at the letter behind an x that is left over.
LEMMA BegunTells ==
  ASSUME NEW s \in Receiver, NEW b \in Seq(Sym), b = s.buffer, NEW n \in Nat, n = Len(b), n >= 2,
         s.state = "good",
         NEW q, HeardAlong(q, Start(s), b, n), Sense(q[n])
  PROVE  Onward(Begun(s), b, n, q, 0)
<1>1. s.out \in Seq(Ascii) /\ s.lastCharWasX \in BOOLEAN
  BY DEF Receiver
<1>2. PICK d : d = Begun(s)
  OBVIOUS
<1>3. /\ q[0] = Start(s) /\ \A j \in 1 .. n : q[j] = Heard(q[j - 1], b[j])
      /\ \A j \in 0 .. n : q[j].kind # "bad"
  BY Zenon DEF HeardAlong, Sense
<1>4. Paused(q[0]) /\ q[0].out = s.out /\ (q[0].kind = "x" <=> s.lastCharWasX)
  BY <1>1, <1>3, StartType, Zenon
<1>5. 1 \in 1 .. n /\ 2 \in 1 .. n /\ 1 \in 0 .. n /\ 2 \in 0 .. n /\ 1 - 1 = 0 /\ 2 - 1 = 1 /\ 0 + 1 = 1
  OBVIOUS
<1>6. CASE b[1] # X
  <2>1. d = [out |-> s.out, lastCharWasX |-> s.lastCharWasX, state |-> "good", at |-> 1]
    BY <1>2, <1>6, Zenon DEF Begun
  <2>2. LetterHas(d, s.out, s.lastCharWasX, "good", 1)
    BY <2>1, LetterRecord, Zenon
  <2> QED
    BY <1>2, <1>4, <1>5, <1>6, <2>2, Zenon DEF LetterHas, Onward, Told
<1>7. CASE b[1] = X
  <2>1. q[1] = Heard(q[0], X) /\ q[1].kind # "bad"
    BY <1>3, <1>5, <1>7, Zenon
  <2>2. q[0].kind = "x" /\ HeardFields(q[1], Append(q[0].out, SP), <<>>, "xx")
    BY <1>4, <2>1, HeardGap, Zenon DEF Paused
  <2>3. q[1].kind = "xx" /\ Paused(q[1]) /\ q[1].out = Append(s.out, SP)
    BY <1>4, <2>2, Zenon DEF HeardFields, Paused
  <2>4. b[2] # X
    <3> SUFFICES ASSUME b[2] = X PROVE FALSE
      OBVIOUS
    <3>1. q[2] = Heard(q[1], X) /\ q[2].kind # "bad"
      BY <1>3, <1>5, Zenon
    <3>2. q[1].kind = "x"
      BY <2>3, <3>1, HeardGap, Zenon
    <3> QED
      BY <2>3, <3>2
  <2>5. d = [out |-> Append(s.out, SP), lastCharWasX |-> s.lastCharWasX, state |-> "good", at |-> 2]
    BY <1>2, <1>4, <1>7, <2>2, Zenon DEF Begun
  <2>6. LetterHas(d, Append(s.out, SP), s.lastCharWasX, "good", 2)
    BY <2>5, LetterRecord, Zenon
  <2>7. 2 \in 0 + 1 .. n
    OBVIOUS
  <2> QED
    BY <1>2, <1>5, <2>3, <2>4, <2>6, <2>7, Zenon DEF LetterHas, Onward, Told
<1> QED
  BY <1>6, <1>7

\* secondDecryption prints what is heard.
Said(d, h) == d.buffer = <<>> /\ d.state = "good" /\ AllTold(d, h)

ReceiverHas(s, b, o, l, st) ==
  s.buffer = b /\ s.out = o /\ s.lastCharWasX = l /\ s.state = st

\* The fields of a record of the receiver.
LEMMA ReceiverRecord ==
  \A b, o, l, st :
    ReceiverHas([buffer |-> b, out |-> o, lastCharWasX |-> l, state |-> st], b, o, l, st)
  BY DEF ReceiverHas

\* A buffer that makes sense is printed as what is heard of it.
LEMMA SecondDecryption ==
  ASSUME NEW s \in Receiver, s.state = "good", Len(s.buffer) >= 2,
         Sense(Listen(Start(s), s.buffer))
  PROVE  Said(M!secondDecryption(s), Listen(Start(s), s.buffer))
<1>0. PICK b \in Seq(Sym) : b = s.buffer
  BY DEF Receiver
<1>1. PICK n \in Nat : n = Len(b) /\ n >= 2
  BY <1>0, LenProperties
<1>2. Start(s) \in HearState
  <2>1. s.out \in Seq(Ascii)
    BY DEF Receiver
  <2> QED
    BY <2>1, StartType, Zenon
<1>3. PICK q : HeardAlong(q, Start(s), b, n)
  BY <1>1, <1>2, HeardIsRun, Zenon
<1>4. Listen(Start(s), s.buffer) = q[n] /\ Sense(q[n])
  BY <1>0, <1>3, Zenon DEF HeardAlong
<1>5. PICK r : LettersRun(r, s, n)
  BY <1>0, <1>1, LettersAreRun, Zenon
<1>6. /\ r \in [0 .. n -> LetterState] /\ r[0] = Begun(s)
      /\ \A k \in 1 .. n : r[k] = LetterAfter(b, r[k - 1])
  BY <1>0, <1>5, Zenon DEF LettersRun
<1> DEFINE K == {k \in 0 .. n : Onward(r[k], b, n, q, k)}
<1>7. 0 \in K
  <2>1. Onward(Begun(s), b, n, q, 0)
    BY <1>0, <1>1, <1>3, <1>4, BegunTells, Zenon
  <2> QED
    BY <1>6, <2>1
<1>8. ASSUME NEW i \in 0 .. n - 1 PROVE i \in K => i + 1 \in K
  <2> HAVE i \in K
  <2>1. PICK k \in 1 .. n : k = i + 1 /\ k - 1 = i
    OBVIOUS
  <2>2. r[k] = LetterAfter(b, r[i]) /\ r[i] \in LetterState /\ Onward(r[i], b, n, q, i)
    <3>1. i \in 0 .. n /\ Onward(r[i], b, n, q, i)
      OBVIOUS
    <3> QED
      BY <1>6, <2>1, <3>1, Zenon
  <2>3. CASE r[i].at = 0
    <3>1. r[k] = r[i] /\ AllTold(r[i], q[n]) /\ r[i].state = "good"
      <4>1. r[i].at \notin i + 1 .. n
        BY <2>3
      <4> QED
        BY <2>2, <2>3, <4>1, Zenon DEF LetterAfter, Onward
    <3>2. Onward(r[k], b, n, q, k)
      BY <2>3, <3>1, Zenon DEF Onward
    <3> QED
      BY <2>1, <3>2
  <2>4. CASE r[i].at # 0
    <3>1. r[k] = M!DecryptLetter(b, r[i])
      BY <2>2, <2>4, Zenon DEF LetterAfter
    <3>2. r[i].at \in i + 1 .. n /\ b[r[i].at] # X /\ Told(r[i], q[r[i].at - 1])
      BY <2>2, <2>4, Zenon DEF Onward
    <3>3. r[i].at \in 1 .. n
      BY <3>2
    <3>4. Onward(r[k], b, n, q, r[i].at)
      BY <1>1, <1>2, <1>3, <1>4, <2>2, <3>1, <3>2, <3>3, LetterStep, Zenon
    <3>5. \A a : a \in r[i].at + 1 .. n => a \in k + 1 .. n
      BY <2>1, <3>2
    <3>6. Onward(r[k], b, n, q, k)
      BY <3>4, <3>5, Zenon DEF Onward
    <3> QED
      BY <2>1, <3>6
  <2> QED
    BY <2>3, <2>4
<1>9. Onward(r[n], b, n, q, n)
  <2> HIDE DEF K
  <2>1. \A k \in 0 .. n : k \in K
    BY <1>7, <1>8, InductionUpTo, Zenon
  <2>2. n \in K
    BY <2>1
  <2> QED
    BY <2>2 DEF K
<1>10. r[n].state = "good" /\ AllTold(r[n], q[n])
  <2>1. r[n].at \notin n + 1 .. n
    OBVIOUS
  <2> QED
    BY <1>9, <2>1, Zenon DEF Onward
<1>11. PICK d : d = M!secondDecryption(s)
  OBVIOUS
<1>12. ReceiverHas(d, <<>>, r[n].out, r[n].lastCharWasX, r[n].state)
  BY <1>5, <1>11, ReceiverRecord, Zenon DEF LettersRun
<1>13. d.buffer = <<>> /\ d.state = "good" /\ d.out = r[n].out /\ d.lastCharWasX = r[n].lastCharWasX
  BY <1>10, <1>12, Zenon DEF ReceiverHas
<1>14. AllTold(d, q[n])
  BY <1>10, <1>13, Zenon DEF AllTold
<1> QED
  BY <1>4, <1>11, <1>13, <1>14, Zenon DEF Said

-----------------------------------------------------------------------------
(* The letters that stand for three symbols *)

KeySize == 26
KeyLetters == 65 .. 90

\* A key has every letter once.
IsKey(key) == EveryOnce(key, KeyLetters, KeySize)

PlaceOf(key, c) == M!SelectInSeq(key, LAMBDA k : k = c)

\* In a key the place of its i-th letter is i.
LEMMA KeyPlaces ==
  ASSUME NEW key, IsKey(key)
  PROVE  /\ \A i \in 1 .. KeySize : key[i] \in KeyLetters /\ PlaceOf(key, key[i]) = i
         /\ \A c : PlaceOf(key, c) \in 0 .. KeySize
<1>1. /\ key \in Seq(KeyLetters) /\ IsInjective(key) /\ Len(key) = KeySize
  BY Zenon DEF IsKey, EveryOnce
<1>2. DOMAIN key = 1 .. KeySize /\ \A i \in 1 .. KeySize : key[i] \in KeyLetters
  BY <1>1, LenProperties, ElementOfSeq
<1>3. \A i, j \in 1 .. KeySize : key[i] = key[j] => i = j
  BY <1>1, <1>2, Zenon DEF IsInjective
<1>4. \A c : /\ PlaceOf(key, c) \in 0 .. KeySize
             /\ \A i \in 1 .. KeySize : key[i] = c => PlaceOf(key, c) = i
  <2> TAKE c
  <2> DEFINE I == {i \in 1 .. Len(key) : key[i] = c}
  <2>1. PlaceOf(key, c) = IF I # {} THEN CHOOSE a \in I : \A j \in I : a <= j ELSE 0
    BY Zenon DEF PlaceOf, M!SelectInSeq, M!Min
  <2>2. I \in SUBSET (1 .. KeySize) /\ \A i \in 1 .. KeySize : i \in I <=> key[i] = c
    BY <1>1
  <2> HIDE DEF I
  <2>3. \A i \in 1 .. KeySize : key[i] = c => I = {i}
    BY <1>3, <2>2, Zenon
  <2>4. CASE I = {}
    BY <2>1, <2>2, <2>4 DEF KeySize
  <2>5. CASE I # {}
    <3>1. PICK i : i \in I
      BY <2>5, Zenon
    <3>2. i \in 1 .. KeySize /\ I = {i}
      BY <2>2, <2>3, <3>1, Zenon
    <3>3. \E a \in I : \A j \in I : a <= j
      BY <3>2 DEF KeySize
    <3>4. PlaceOf(key, c) = i
      BY <2>1, <2>5, <3>2, <3>3, Zenon
    <3>5. i \in 0 .. KeySize
      BY <3>2 DEF KeySize
    <3> QED
      BY <1>3, <2>2, <3>2, <3>4, <3>5, Zenon
  <2> QED
    BY <2>4, <2>5
<1> QED
  BY <1>2, <1>4, Zenon

\* Three symbols as the number of a letter, and back.
Three(a, b, c) == 1 + (9 * a) + (3 * b) + c

\* Three symbols, but not three x, are a letter's number and are found again.
LEMMA ThreeBack ==
  ASSUME NEW a \in Sym, NEW b \in Sym, NEW c \in Sym, ~(a = X /\ b = X /\ c = X)
  PROVE  Three(a, b, c) \in 1 .. KeySize /\ M!Symbols(Three(a, b, c)) = <<a, b, c>>
<1>1. (a = 0 \/ a = 1 \/ a = 2) /\ (b = 0 \/ b = 1 \/ b = 2) /\ (c = 0 \/ c = 1 \/ c = 2)
  BY DEF Sym
<1>2. PICK m : m = Three(a, b, c) - 1
  OBVIOUS
<1>5. PICK k : k = (3 * a) + b
  OBVIOUS
<1>6. m = (3 * k) + c /\ m = (9 * a) + ((3 * b) + c) /\ m \in 0 .. 25
  BY <1>1, <1>2, <1>5, SMT DEF Three, X
<1>7. k \in 0 .. 8 /\ a \in 0 .. 2 /\ b \in 0 .. 2 /\ c \in 0 .. 2
  BY <1>1, <1>5, SMT
<1>8. m \div 3 = k /\ m % 3 = c
  BY ONLY <1>6, <1>7, SMT
<1>9. k % 3 = b
  BY ONLY <1>5, <1>7, SMT
<1>10. m \div 9 = a
  BY ONLY <1>6, <1>7, SMT
<1>11. Three(a, b, c) \in 1 .. 26
  BY <1>2, <1>6 DEF Three
<1>3. /\ Three(a, b, c) \in 1 .. 26 /\ m \div 9 = a /\ (m \div 3) % 3 = b /\ m % 3 = c
  BY <1>8, <1>9, <1>10, <1>11, Zenon
<1>4. M!Symbols(Three(a, b, c)) = <<m \div 9, (m \div 3) % 3, m % 3>>
  BY <1>2, Zenon DEF M!Symbols
<1> QED
  BY <1>3, <1>4, Zenon DEF KeySize

\* The number of a letter stands for three symbols.
LEMMA SymbolsType ==
  ASSUME NEW n \in 1 .. KeySize
  PROVE  \E a, b, c \in Sym : M!Symbols(n) = <<a, b, c>> /\ n = Three(a, b, c)
<1>1. PICK m \in 0 .. 25 : m = n - 1
  BY DEF KeySize
<1>2. m \div 9 \in 0 .. 2 /\ (m \div 3) % 3 \in 0 .. 2 /\ m % 3 \in 0 .. 2
      /\ n = 1 + (9 * (m \div 9)) + (3 * ((m \div 3) % 3)) + (m % 3)
  BY <1>1, SMT
<1>3. M!Symbols(n) = <<m \div 9, (m \div 3) % 3, m % 3>>
  BY <1>1, Zenon DEF M!Symbols
<1> QED
  BY <1>2, <1>3, Zenon DEF Sym, Three

Triplet(b, a1, a2, a3) ==
  /\ <<a1, a2, a3>> \in Seq(Sym) /\ b \o <<a1, a2, a3>> \in Seq(Sym)
  /\ b \o <<a1, a2, a3>> = Append(Append(Append(b, a1), a2), a3)
  /\ Len(b \o <<a1, a2, a3>>) = Len(b) + 3 /\ Last(<<a1, a2, a3>>) = a3
  /\ Last(b \o <<a1, a2, a3>>) = a3 /\ b \o <<a1, a2, a3>> # <<>>

\* Three symbols at the end of a buffer.
LEMMA TripletIs ==
  ASSUME NEW b \in Seq(Sym), NEW a1 \in Sym, NEW a2 \in Sym, NEW a3 \in Sym
  PROVE  Triplet(b, a1, a2, a3)
<1>a. <<a1, a2, a3>> \in Seq(Sym) /\ Len(<<a1, a2, a3>>) = 3
      /\ <<a1, a2, a3>>[1] = a1 /\ <<a1, a2, a3>>[2] = a2 /\ <<a1, a2, a3>>[3] = a3
  OBVIOUS
<1>1. PICK t \in Seq(Sym) : t = <<a1, a2, a3>> /\ Len(t) = 3 /\ t[1] = a1 /\ t[2] = a2 /\ t[3] = a3
  BY <1>a, Zenon
<1>b. b \o t \in Seq(Sym) /\ Len(b \o t) = Len(b) + Len(t)
      /\ \A i \in 1 .. Len(b) + Len(t) : (b \o t)[i] = IF i <= Len(b) THEN b[i] ELSE t[i - Len(b)]
  BY ConcatProperties, Zenon
<1>2. PICK w \in Seq(Sym) : w = b \o t /\ Len(w) = Len(b) + 3
                           /\ \A i \in 1 .. Len(b) + 3 : w[i] = IF i <= Len(b) THEN b[i] ELSE t[i - Len(b)]
  BY <1>1, <1>b, Zenon
<1>3. PICK n \in Nat : n = Len(b)
  BY LenProperties
<1>4. /\ \A i \in 1 .. n : w[i] = b[i]
      /\ w[n + 1] = a1 /\ w[n + 2] = a2 /\ w[n + 3] = a3
  <2>1. \A i \in 1 .. n + 3 : w[i] = IF i <= n THEN b[i] ELSE t[i - n]
    BY <1>2, <1>3, Zenon
  <2> QED
    BY <1>1, <2>1
<1>c. ASSUME NEW s \in Seq(Sym), NEW a \in Sym
      PROVE  /\ Append(s, a) \in Seq(Sym) /\ Len(Append(s, a)) = Len(s) + 1
             /\ Append(s, a)[Len(s) + 1] = a /\ \A i \in 1 .. Len(s) : Append(s, a)[i] = s[i]
  BY AppendProperties
<1>d. (n + 1) + 1 = n + 2 /\ (n + 2) + 1 = n + 3
  OBVIOUS
<1>5. PICK u \in Seq(Sym) : /\ u = Append(b, a1) /\ Len(u) = n + 1 /\ u[n + 1] = a1
                            /\ \A i \in 1 .. n : u[i] = b[i]
  BY <1>3, <1>c, Zenon
<1>6. PICK v \in Seq(Sym) : /\ v = Append(u, a2) /\ Len(v) = n + 2 /\ v[n + 2] = a2
                            /\ \A i \in 1 .. n + 1 : v[i] = u[i]
  <2>1. /\ Append(u, a2) \in Seq(Sym) /\ Len(Append(u, a2)) = Len(u) + 1
        /\ Append(u, a2)[Len(u) + 1] = a2
        /\ \A i \in 1 .. Len(u) : Append(u, a2)[i] = u[i]
    BY <1>5, <1>c, Zenon
  <2>2. /\ Append(u, a2) \in Seq(Sym) /\ Len(Append(u, a2)) = (n + 1) + 1
        /\ Append(u, a2)[(n + 1) + 1] = a2
        /\ \A i \in 1 .. n + 1 : Append(u, a2)[i] = u[i]
    BY <1>5, <2>1
  <2> QED
    BY <1>d, <2>2, Zenon
<1>7. PICK z \in Seq(Sym) : /\ z = Append(v, a3) /\ Len(z) = n + 3 /\ z[n + 3] = a3
                            /\ \A i \in 1 .. n + 2 : z[i] = v[i]
  <2>1. /\ Append(v, a3) \in Seq(Sym) /\ Len(Append(v, a3)) = Len(v) + 1
        /\ Append(v, a3)[Len(v) + 1] = a3
        /\ \A i \in 1 .. Len(v) : Append(v, a3)[i] = v[i]
    BY <1>6, <1>c, Zenon
  <2>2. /\ Append(v, a3) \in Seq(Sym) /\ Len(Append(v, a3)) = (n + 2) + 1
        /\ Append(v, a3)[(n + 2) + 1] = a3
        /\ \A i \in 1 .. n + 2 : Append(v, a3)[i] = v[i]
    BY <1>6, <2>1
  <2> QED
    BY <1>d, <2>2, Zenon
<1>8. z = w
  <2>1. Len(z) = Len(w)
    BY <1>2, <1>3, <1>7
  <2>2. \A i \in 1 .. Len(z) : z[i] = w[i]
    BY <1>4, <1>5, <1>6, <1>7
  <2> QED
    BY <2>1, <2>2, SeqEqual
<1>9. Last(t) = a3 /\ Last(w) = a3 /\ w # <<>>
  BY <1>1, <1>2, <1>3, <1>4 DEF Last
<1> QED
  BY <1>1, <1>2, <1>5, <1>6, <1>7, <1>8, <1>9, Zenon DEF Triplet

-----------------------------------------------------------------------------
(* Decryption, letter by letter *)

\* A record of the receiver, in a form to instantiate.
LEMMA ReceiverFields ==
  ASSUME NEW b \in Seq(Sym), NEW o \in Seq(Ascii), NEW l \in BOOLEAN, NEW st \in Fares
  PROVE  [buffer |-> b, out |-> o, lastCharWasX |-> l, state |-> st] \in Receiver
  BY DEF Receiver

\* What is printed is printed, and the buffer is empty.
Emptied(d) == d \in Receiver /\ d.buffer = <<>>

\* What secondDecryption leaves is a record of the receiver.
LEMMA SecondType ==
  ASSUME NEW s \in Receiver
  PROVE  Emptied(M!secondDecryption(s))
<1>0. PICK b \in Seq(Sym) : b = s.buffer
  BY DEF Receiver
<1>1. PICK n \in Nat : n = Len(s.buffer)
  BY <1>0, LenProperties
<1>2. PICK r : LettersRun(r, s, n)
  BY <1>1, LettersAreRun, Zenon
<1>3. PICK z : z = r[n]
  OBVIOUS
<1>4. z \in LetterState
  <2>1. n \in 0 .. n
    OBVIOUS
  <2> QED
    BY <1>2, <1>3, <2>1, Zenon DEF LettersRun
<1>5. z.out \in Seq(Ascii) /\ z.lastCharWasX \in BOOLEAN /\ z.state \in Fares
  BY <1>4 DEF LetterState
<1>6. PICK d : d = M!secondDecryption(s)
  OBVIOUS
<1>7. d = [buffer |-> <<>>, out |-> z.out, lastCharWasX |-> z.lastCharWasX, state |-> z.state]
  BY <1>2, <1>3, <1>6, Zenon DEF LettersRun
<1>8. <<>> \in Seq(Sym)
  BY EmptySeq
<1>9. d \in Receiver
  BY <1>5, <1>7, <1>8, ReceiverFields, Zenon
<1>10. d.buffer = <<>>
  BY <1>7, ReceiverRecord, Zenon DEF ReceiverHas
<1> QED
  BY <1>6, <1>9, <1>10, Zenon DEF Emptied

\* Three symbols more.
With(s, n) == [buffer |-> s.buffer \o M!Symbols(n), out |-> s.out,
               lastCharWasX |-> s.lastCharWasX, state |-> "good"]
Lost(s) == [buffer |-> s.buffer, out |-> s.out, lastCharWasX |-> s.lastCharWasX, state |-> "lost"]
Lined(s) == [buffer |-> s.buffer, out |-> Append(s.out, 10), lastCharWasX |-> s.lastCharWasX,
             state |-> "good"]

DecryptCase(s, c, next, key, d) ==
  IF c = 10 THEN d = Lined(s)
  ELSE IF PlaceOf(key, c) = 0 THEN d = Lost(s)
  ELSE d = IF Last(M!Symbols(PlaceOf(key, c))) = X \/ next = 10
           THEN M!secondDecryption(With(s, PlaceOf(key, c))) ELSE With(s, PlaceOf(key, c))

\* decryptMorseCode by its cases: a newline, a letter that is not in the key,
\* a letter.
LEMMA DecryptByCase ==
  \A s, c, next, key : DecryptCase(s, c, next, key, M!decryptMorseCode(s, c, next, key))
<1> TAKE s, c, next, key
<1>1. PICK n : n = PlaceOf(key, c)
  OBVIOUS
<1>2. M!SelectInSeq(key, LAMBDA k : k = c) = n
  BY <1>1, Zenon DEF PlaceOf, M!SelectInSeq
<1>3. PICK d : d = M!decryptMorseCode(s, c, next, key)
  OBVIOUS
<1>4. d = IF c = 10 THEN Lined(s) ELSE IF n = 0 THEN Lost(s)
          ELSE IF Last(M!Symbols(n)) = X \/ next = 10 THEN M!secondDecryption(With(s, n))
          ELSE With(s, n)
  BY <1>1, <1>3, Zenon
     DEF M!decryptMorseCode, Lined, Lost, With, X, M!x, M!NEWLINE, M!Last, Last, PlaceOf, M!SelectInSeq
<1> QED
  BY <1>1, <1>3, <1>4, Zenon DEF DecryptCase

\* Three symbols more make a buffer of symbols.
LEMMA WithType ==
  ASSUME NEW s \in Receiver, NEW n \in 1 .. KeySize
  PROVE  With(s, n) \in Receiver /\ With(s, n).buffer # <<>> /\ With(s, n).state = "good"
<1>1. s.buffer \in Seq(Sym) /\ s.out \in Seq(Ascii) /\ s.lastCharWasX \in BOOLEAN
      /\ "good" \in Fares
  BY DEF Receiver, Fares
<1>2. PICK a, b, c \in Sym : M!Symbols(n) = <<a, b, c>>
  BY SymbolsType, Zenon
<1>3. Triplet(s.buffer, a, b, c)
  BY <1>1, TripletIs, Zenon
<1>4. PICK w \in Seq(Sym) : w = s.buffer \o M!Symbols(n) /\ w # <<>>
  BY <1>2, <1>3, Zenon DEF Triplet
<1>5. ReceiverHas(With(s, n), w, s.out, s.lastCharWasX, "good")
  BY <1>4, ReceiverRecord, Zenon DEF With
<1> QED
  BY <1>1, <1>4, <1>5, ReceiverFields, Zenon DEF With, ReceiverHas

\* A newline printed, and a letter not found, leave records of the receiver.
LEMMA LinedLost ==
  ASSUME NEW s \in Receiver
  PROVE  /\ Lined(s) \in Receiver /\ Lined(s).buffer = s.buffer /\ Lined(s).state = "good"
         /\ Lost(s) \in Receiver /\ Lost(s).state = "lost"
<1>1. s.buffer \in Seq(Sym) /\ s.out \in Seq(Ascii) /\ s.lastCharWasX \in BOOLEAN
      /\ "good" \in Fares /\ "lost" \in Fares
  BY DEF Receiver, Fares
<1>2. Append(s.out, 10) \in Seq(Ascii)
  <2>1. 10 \in Ascii
    BY DEF Ascii
  <2> QED
    BY <1>1, <2>1, AppendProperties
<1>3. Lined(s) \in Receiver /\ Lost(s) \in Receiver
  BY <1>1, <1>2, ReceiverFields, Zenon DEF Lined, Lost
<1>4. /\ ReceiverHas(Lined(s), s.buffer, Append(s.out, 10), s.lastCharWasX, "good")
      /\ ReceiverHas(Lost(s), s.buffer, s.out, s.lastCharWasX, "lost")
  BY ReceiverRecord, Zenon DEF Lined, Lost
<1> QED
  BY <1>3, <1>4, Zenon DEF ReceiverHas

\* Every letter received leaves a record of the receiver.
LEMMA DecryptCodeType ==
  ASSUME NEW key, IsKey(key), NEW s \in Receiver, NEW c, NEW next
  PROVE  M!decryptMorseCode(s, c, next, key) \in Receiver
<1>1. PICK d : d = M!decryptMorseCode(s, c, next, key)
  OBVIOUS
<1>2. DecryptCase(s, c, next, key, d)
  BY <1>1, DecryptByCase, Zenon
<1>3. PICK n \in 0 .. KeySize : n = PlaceOf(key, c)
  BY KeyPlaces, Zenon
<1>4. CASE c = 10 \/ n = 0
  BY <1>1, <1>2, <1>3, <1>4, LinedLost, Zenon DEF DecryptCase
<1>5. CASE c # 10 /\ n # 0
  <2>1. n \in 1 .. KeySize
    BY <1>5 DEF KeySize
  <2>2. With(s, n) \in Receiver
    BY <2>1, WithType, Zenon
  <2>3. M!secondDecryption(With(s, n)) \in Receiver
    BY <2>2, SecondType, Zenon DEF Emptied
  <2>4. d = M!secondDecryption(With(s, n)) \/ d = With(s, n)
    BY <1>2, <1>3, <1>5, Zenon DEF DecryptCase
  <2> QED
    BY <1>1, <2>2, <2>3, <2>4, Zenon
<1> QED
  BY <1>4, <1>5

\* One step of a run of -f -d.
DecNext(s, i, t, key) ==
  IF s.state = "lost" THEN s
  ELSE M!decryptMorseCode(s, t[i], IF i = Len(t) THEN M!EOF ELSE t[i + 1], key)

DecBegin == [buffer |-> <<>>, out |-> <<>>, lastCharWasX |-> FALSE, state |-> "start"]

\* So is the first one, which holds nothing back.
LEMMA DecBeginType == DecBegin \in Receiver /\ DecBegin.buffer = <<>>
  BY EmptySeq DEF DecBegin, Receiver, Fares

DecryptRun(q, t, n, key) ==
  /\ q \in [0 .. n -> Receiver] /\ q[0] = DecBegin
  /\ \A k \in 1 .. n : q[k] = DecNext(q[k - 1], k, t, key)
  /\ M!DecryptMorse(t, key) = q[n]

\* DecryptMorse is such a run.
LEMMA DecryptIsRun ==
  ASSUME NEW key, IsKey(key), NEW t \in Seq(Ascii), NEW n \in Nat, n = Len(t)
  PROVE  \E q : DecryptRun(q, t, n, key)
<1>1. DOMAIN t = 1 .. n
  BY LenProperties
<1>2. PICK base \in Receiver : base = DecBegin
  BY DecBeginType, Zenon
<1>3. PICK g : g = [k \in 1 .. n |-> [r \in Receiver |-> DecNext(r, k, t, key)]]
  OBVIOUS
<1>4. /\ g \in [1 .. n -> [Receiver -> Receiver]]
      /\ \A k \in 1 .. n : \A r \in Receiver : g[k][r] = DecNext(r, k, t, key)
  <2>1. \A k \in 1 .. n : \A r \in Receiver : DecNext(r, k, t, key) \in Receiver
    BY DecryptCodeType, Zenon DEF DecNext
  <2> QED
    BY <1>3, <2>1, Zenon
<1>5. PICK w : FoldTable(w, Receiver, n, base, g)
  BY <1>4, FoldDefined, Zenon
<1>6. /\ w \in [SUBSET (1 .. n) -> Receiver]
      /\ \A v \in SUBSET (1 .. n) :
           w[v] = IF v = {} THEN base
                  ELSE g[CHOOSE m \in v : \A k \in v : m >= k]
                        [w[v \ {CHOOSE m \in v : \A k \in v : m >= k}]]
  BY <1>5, Zenon DEF FoldTable
<1> DEFINE id == [i \in DOMAIN t |-> i]
           Body(f) ==
             [v \in SUBSET (DOMAIN id) |->
               IF v = {} THEN base
               ELSE DecNext(f[v \ {CHOOSE m \in v : \A k \in v : m >= k}],
                            id[CHOOSE m \in v : \A k \in v : m >= k], t, key)]
           E == CHOOSE iter : iter = Body(iter)
<1>7. \A v \in SUBSET (1 .. n) : v # {} =>
        /\ (CHOOSE m \in v : \A k \in v : m >= k) \in 1 .. n
        /\ w[v \ {CHOOSE m \in v : \A k \in v : m >= k}] \in Receiver
  <2> TAKE v \in SUBSET (1 .. n)
  <2> HAVE v # {}
  <2>1. \E m \in v : \A k \in v : m >= k
    BY GreatestOf, Zenon
  <2>2. PICK j : j = CHOOSE m \in v : \A k \in v : m >= k
    OBVIOUS
  <2>3. j \in v
    BY <2>1, <2>2, Zenon
  <2>4. v \ {j} \in SUBSET (1 .. n) /\ j \in 1 .. n
    BY <2>3
  <2> QED
    BY <1>6, <2>2, <2>4, Zenon
<1>a. M!DecryptMorse(t, key) = E[DOMAIN id]
  BY <1>2, Zenon
     DEF M!DecryptMorse, M!FoldLeftDomain, M!FoldLeft, M!MapThenFoldSet, M!Max, DecNext, DecBegin
<1>b. DOMAIN id = 1 .. n /\ \A j \in 1 .. n : id[j] = j
  BY <1>1, Zenon
<1> HIDE DEF id
<1>8. w = Body(w)
  <2>1. \A v \in SUBSET (1 .. n) : w[v] = Body(w)[v]
    <3> TAKE v \in SUBSET (1 .. n)
    <3>1. CASE v = {}
      BY <1>6, <1>b, <3>1, Zenon
    <3>2. CASE v # {}
      <4>1. PICK j : j = CHOOSE m \in v : \A k \in v : m >= k
        OBVIOUS
      <4>2. j \in 1 .. n /\ w[v \ {j}] \in Receiver
        BY <1>7, <3>2, <4>1, Zenon
      <4>3. w[v] = g[j][w[v \ {j}]]
        BY <1>6, <3>2, <4>1, Zenon
      <4>4. w[v] = DecNext(w[v \ {j}], j, t, key)
        BY <1>4, <4>2, <4>3, Zenon
      <4>5. id[j] = j
        BY <1>b, <4>2, Zenon
      <4>6. Body(w)[v] = DecNext(w[v \ {j}], id[j], t, key)
        BY <1>b, <3>2, <4>1, Zenon
      <4> QED
        BY <4>4, <4>5, <4>6, Zenon
    <3> QED
      BY <3>1, <3>2
  <2> QED
    BY <1>6, <1>b, <2>1, Zenon
<1>9. E = Body(E)
  <2> HIDE DEF Body
  <2> QED
    BY <1>8, Zenon
<1>10. M!DecryptMorse(t, key) = E[1 .. n]
  BY <1>a, <1>b, Zenon
<1> HIDE DEF E
<1>11. E[{}] = base
  BY <1>9, <1>b, Zenon
<1>c. \A v \in SUBSET (1 .. n) : v # {} =>
        E[v] = DecNext(E[v \ {CHOOSE m \in v : \A k \in v : m >= k}],
                       id[CHOOSE m \in v : \A k \in v : m >= k], t, key)
  BY <1>9, <1>b, Zenon
<1>12. \A k \in 1 .. n : E[1 .. k - 1] \in Receiver => E[1 .. k] = g[k][E[1 .. k - 1]]
  <2> TAKE k \in 1 .. n
  <2> HAVE E[1 .. k - 1] \in Receiver
  <2>1. k \in Nat /\ k # 0 /\ 1 .. k \in SUBSET (1 .. n)
    BY <1>1
  <2>2. /\ (CHOOSE m \in 1 .. k : \A j \in 1 .. k : m >= j) = k
        /\ (1 .. k) \ {k} = 1 .. (k - 1) /\ 1 .. k # {}
    BY <2>1, GreatestUpTo
  <2>3. E[1 .. k] = DecNext(E[1 .. k - 1], id[k], t, key)
    BY <1>c, <2>1, <2>2, Zenon
  <2>4. id[k] = k
    BY <1>b, Zenon
  <2> QED
    BY <1>4, <2>3, <2>4, Zenon
<1>13. FoldEnds(Receiver, n, base, g, E)
  BY <1>4, <1>11, <1>12, FoldRun, Zenon
<1>14. PICK q \in Runs(Receiver, n, base, g) : E[1 .. n] = q[n]
  BY <1>13, Zenon DEF FoldEnds
<1>15. q \in [0 .. n -> Receiver] /\ q[0] = base /\ \A k \in 1 .. n : q[k] = g[k][q[k - 1]]
  BY <1>14 DEF Runs
<1>16. \A k \in 1 .. n : q[k] = DecNext(q[k - 1], k, t, key)
  <2> TAKE k \in 1 .. n
  <2>1. q[k - 1] \in Receiver
    BY <1>15
  <2> QED
    BY <1>4, <1>15, <2>1, Zenon
<1> QED
  BY <1>2, <1>10, <1>14, <1>15, <1>16, Zenon DEF DecryptRun

\* What is in the buffer is printed before a newline; the program does so one
\* letter earlier.
Flushed(s) == IF s.state = "lost" \/ s.buffer = <<>> THEN s ELSE M!secondDecryption(s)
Ready(s, c) == IF c = 10 THEN Flushed(s) ELSE s
Received(s, c, key) ==
  IF Ready(s, c).state = "lost" THEN Ready(s, c)
  ELSE M!decryptMorseCode(Ready(s, c), c, M!EOF, key)
Receive(key) == [c \in Ascii |-> [s \in Receiver |-> Received(s, c, key)]]
Takes(s, t, key) == FoldOf(Receiver, s, Receive(key), t)

\* After that nothing is held back, or the receiver is lost.
LEMMA FlushedType ==
  ASSUME NEW s \in Receiver
  PROVE  Flushed(s) \in Receiver /\ (Flushed(s).state = "lost" \/ Flushed(s).buffer = <<>>)
  BY SecondType, Zenon DEF Flushed, Emptied

\* A letter received so leaves a record of the receiver.
LEMMA ReceivedType ==
  ASSUME NEW key, IsKey(key), NEW s \in Receiver, NEW c
  PROVE  Received(s, c, key) \in Receiver
<1>1. Ready(s, c) \in Receiver
  BY FlushedType, Zenon DEF Ready
<1> QED
  BY <1>1, DecryptCodeType, Zenon DEF Received

\* Receive is a function, which a fold can take.
LEMMA ReceiveType ==
  ASSUME NEW key, IsKey(key)
  PROVE  Receive(key) \in [Ascii -> [Receiver -> Receiver]]
  BY ReceivedType, Zenon DEF Receive

TakesOn(s, t, c, key) == Takes(s, Append(t, c), key) = Received(Takes(s, t, key), c, key)
TakesMore(s, t, u, key) == Takes(s, t \o u, key) = Takes(Takes(s, t, key), u, key)

\* A text received leaves a record of the receiver; nothing changes nothing.
LEMMA TakesType ==
  ASSUME NEW key, IsKey(key), NEW s \in Receiver
  PROVE  /\ \A t \in Seq(Ascii) : Takes(s, t, key) \in Receiver
         /\ Takes(s, <<>>, key) = s
  BY ReceiveType, FoldOfType, FoldOfEmpty, Zenon DEF Takes

\* One letter more is received behind the others.
LEMMA TakesAppend ==
  ASSUME NEW key, IsKey(key), NEW s \in Receiver, NEW t \in Seq(Ascii), NEW c \in Ascii
  PROVE  TakesOn(s, t, c, key)
<1>1. NextOf(Receiver, s, Receive(key), t, c)
  BY ReceiveType, FoldOfAppend, Zenon
<1>2. Takes(s, t, key) \in Receiver
  BY TakesType, Zenon
<1>3. Receive(key)[c][Takes(s, t, key)] = Received(Takes(s, t, key), c, key)
  BY <1>2, Zenon DEF Receive
<1> QED
  BY <1>1, <1>3, Zenon DEF NextOf, TakesOn, Takes

\* Two texts in a row are received one behind the other.
LEMMA TakesConcat ==
  ASSUME NEW key, IsKey(key), NEW s \in Receiver, NEW t \in Seq(Ascii), NEW u \in Seq(Ascii)
  PROVE  TakesMore(s, t, u, key)
<1>1. GoesOn(Receiver, s, Receive(key), t, u)
  BY ReceiveType, FoldOfConcat, Zenon
<1> QED
  BY <1>1, Zenon DEF GoesOn, TakesMore, Takes

\* Printing early or late is the same.
LEMMA Later ==
  ASSUME NEW key, IsKey(key), NEW s \in Receiver, s.state # "lost", NEW c, c # 10
  PROVE  /\ M!decryptMorseCode(s, c, 10, key) = Flushed(M!decryptMorseCode(s, c, M!EOF, key))
         /\ \A next : next # 10 => M!decryptMorseCode(s, c, next, key)
                                     = M!decryptMorseCode(s, c, M!EOF, key)
<1>1. \A next : DecryptCase(s, c, next, key, M!decryptMorseCode(s, c, next, key))
  BY DecryptByCase, Zenon
<1>2. PICK n \in 0 .. KeySize : n = PlaceOf(key, c)
  BY KeyPlaces, Zenon
<1>3. M!EOF # 10
  BY DEF M!EOF
<1>4. CASE n = 0
  <2>1. \A next : M!decryptMorseCode(s, c, next, key) = Lost(s)
    BY <1>1, <1>2, <1>4, Zenon DEF DecryptCase
  <2>2. Flushed(Lost(s)) = Lost(s)
    BY LinedLost, Zenon DEF Flushed
  <2> QED
    BY <2>1, <2>2, Zenon
<1>5. CASE n # 0
  <2>1. n \in 1 .. KeySize
    BY <1>5 DEF KeySize
  <2>2. PICK l \in Receiver : l = With(s, n) /\ l.buffer # <<>> /\ l.state = "good"
    BY <2>1, WithType, Zenon
  <2>3. PICK d : d = M!secondDecryption(l)
    OBVIOUS
  <2>4. d.buffer = <<>>
    BY <2>2, <2>3, SecondType, Zenon DEF Emptied
  <2>5. \A next : M!decryptMorseCode(s, c, next, key)
                    = IF Last(M!Symbols(n)) = X \/ next = 10 THEN d ELSE l
    BY <1>1, <1>2, <1>5, <2>2, <2>3, Zenon DEF DecryptCase
  <2>6. Flushed(d) = d
    BY <2>4, Zenon DEF Flushed
  <2>7. Flushed(l) = d
    <3>1. l.state # "lost"
      BY <2>2
    <3> QED
      BY <2>2, <2>3, <3>1, Zenon DEF Flushed
  <2> QED
    BY <1>3, <2>5, <2>6, <2>7, Zenon
<1> QED
  BY <1>4, <1>5

\* What a run of -f -d prints is what Received prints, letter by letter.
LEMMA DecryptIsTakes ==
  ASSUME NEW key, IsKey(key)
  PROVE  \A t \in Seq(Ascii) : M!DecryptMorse(t, key) = Takes(DecBegin, t, key)
<1> TAKE t \in Seq(Ascii)
<1>1. PICK n \in Nat : n = Len(t)
  BY LenProperties
<1>2. PICK r : DecryptRun(r, t, n, key)
  BY <1>1, DecryptIsRun, Zenon
<1>3. /\ r \in [0 .. n -> Receiver] /\ r[0] = DecBegin
      /\ \A k \in 1 .. n : r[k] = DecNext(r[k - 1], k, t, key)
      /\ M!DecryptMorse(t, key) = r[n]
  BY <1>2, Zenon DEF DecryptRun
<1>4. PICK step \in [Ascii -> [Receiver -> Receiver]] : step = Receive(key)
  BY ReceiveType, Zenon
<1>5. DecBegin \in Receiver /\ DecBegin.buffer = <<>>
  BY DecBeginType
<1>6. PICK g : g = Steps(step, t)
  OBVIOUS
<1>7. PICK q : q \in Runs(Receiver, Len(t), DecBegin, g)
  BY <1>5, <1>6, StepsType, Zenon
<1>8. EndsAt(Receiver, DecBegin, step, t, q)
  BY <1>5, <1>6, <1>7, FoldOfRun, Zenon
<1>9. q \in [0 .. n -> Receiver] /\ q[0] = DecBegin /\ \A k \in 1 .. n : q[k] = g[k][q[k - 1]]
  BY <1>1, <1>7 DEF Runs
<1>10. \A k \in 1 .. n : t[k] \in Ascii /\ q[k] = Received(q[k - 1], t[k], key)
  <2> TAKE k \in 1 .. n
  <2>1. q[k - 1] \in Receiver
    BY <1>9
  <2>2. t[k] \in Ascii
    BY <1>1, ElementOfSeq
  <2>3. g[k] = step[t[k]]
    BY <1>1, <1>6, Zenon DEF Steps
  <2> QED
    BY <1>4, <1>9, <2>1, <2>2, <2>3, Zenon DEF Receive
<1>11. Takes(DecBegin, t, key) = q[n]
  BY <1>1, <1>4, <1>8, Zenon DEF EndsAt, Takes
<1> DEFINE K == {k \in 0 .. n : r[k] = IF k < n /\ t[k + 1] = 10 THEN Flushed(q[k]) ELSE q[k]}
<1>12. 0 \in K
  <2>1. Flushed(q[0]) = q[0] /\ r[0] = q[0]
    BY <1>3, <1>5, <1>9, Zenon DEF Flushed
  <2>2. 0 \in 0 .. n
    OBVIOUS
  <2> QED
    BY <2>1, <2>2, Zenon
<1>13. ASSUME NEW i \in 0 .. n - 1 PROVE i \in K => i + 1 \in K
  <2> HAVE i \in K
  <2>1. PICK k \in 1 .. n : k = i + 1 /\ k - 1 = i /\ k \in 0 .. n /\ i < n /\ i \in 0 .. n
    OBVIOUS
  <2>2. r[i] = IF t[k] = 10 THEN Flushed(q[i]) ELSE q[i]
    BY <2>1, Zenon
  <2>3. PICK c \in Ascii : c = t[k]
    BY <1>10, Zenon
  <2>4. q[i] \in Receiver /\ r[i] = Ready(q[i], c) /\ r[i] \in Receiver
    BY <1>3, <1>9, <2>1, <2>2, <2>3, Zenon DEF Ready
  <2>5. PICK next : next = IF k = n THEN M!EOF ELSE t[k + 1]
    OBVIOUS
  <2>6. r[k] = IF r[i].state = "lost" THEN r[i] ELSE M!decryptMorseCode(r[i], c, next, key)
    BY <1>1, <1>3, <2>1, <2>3, <2>5, Zenon DEF DecNext
  <2>7. q[k] = IF r[i].state = "lost" THEN r[i] ELSE M!decryptMorseCode(r[i], c, M!EOF, key)
    BY <1>10, <2>1, <2>3, <2>4, Zenon DEF Received
  <2>8. next = 10 <=> k < n /\ t[k + 1] = 10
    <3>1. M!EOF # 10
      BY DEF M!EOF
    <3>2. k = n \/ k < n
      OBVIOUS
    <3>3. ~(k = n /\ k < n)
      OBVIOUS
    <3> QED
      BY <2>5, <3>1, <3>2, <3>3, Zenon
  <2>9. r[k] = IF next = 10 THEN Flushed(q[k]) ELSE q[k]
    <3>1. CASE r[i].state = "lost"
      BY <2>6, <2>7, <3>1, Zenon DEF Flushed
    <3>2. CASE r[i].state # "lost" /\ c # 10
      BY <2>4, <2>6, <2>7, <3>2, Later, Zenon
    <3>3. CASE r[i].state # "lost" /\ c = 10
      <4>1. r[k] = Lined(r[i]) /\ q[k] = Lined(r[i])
        <5>1. \A a : DecryptCase(r[i], c, a, key, M!decryptMorseCode(r[i], c, a, key))
          BY DecryptByCase, Zenon
        <5>2. \A a : M!decryptMorseCode(r[i], c, a, key) = Lined(r[i])
          BY <3>3, <5>1, Zenon DEF DecryptCase
        <5> QED
          BY <2>6, <2>7, <3>3, <5>2, Zenon
      <4>2. r[i].buffer = <<>>
        BY <2>4, <3>3, FlushedType, Zenon DEF Ready
      <4>3. Lined(r[i]).buffer = <<>>
        BY <2>4, <4>2, LinedLost, Zenon
      <4> QED
        BY <4>1, <4>3, Zenon DEF Flushed
    <3> QED
      BY <3>1, <3>2, <3>3
  <2> QED
    BY <2>1, <2>8, <2>9, Zenon
<1>14. r[n] = q[n]
  <2> HIDE DEF K
  <2>1. \A i \in 0 .. n : i \in K
    BY <1>12, <1>13, InductionUpTo, Zenon
  <2>2. n \in K /\ ~(n < n)
    BY <2>1
  <2> QED
    BY <2>2, Zenon DEF K
<1> QED
  BY <1>3, <1>11, <1>14, Zenon

-----------------------------------------------------------------------------
(* Encryption, character by character *)

\* There is no letter for three x in a row.
NoThree(b) ==
  \A i \in 1 .. Len(b) - 2 : ~(b[i] = X /\ b[i + 1] = X /\ b[i + 2] = X)
Tame == {b \in Seq(Sym) : NoThree(b) /\ (b # <<>> => Last(b) = X)}

LettersOf(b, key, w) ==
  /\ w \in Seq(KeyLetters) /\ Len(w) = Len(b) \div 3
  /\ \A i \in 1 .. Len(b) \div 3 :
       /\ Three(b[(3 * i) - 2], b[(3 * i) - 1], b[3 * i]) \in 1 .. KeySize
       /\ w[i] = key[Three(b[(3 * i) - 2], b[(3 * i) - 1], b[3 * i])]
       /\ M!Symbols(Three(b[(3 * i) - 2], b[(3 * i) - 1], b[3 * i]))
            = <<b[(3 * i) - 2], b[(3 * i) - 1], b[3 * i]>>

\* Every whole triple is sent as a letter that stands for it.
LEMMA SecondEncryptionIs ==
  ASSUME NEW key, IsKey(key), NEW b \in Seq(Sym), NoThree(b)
  PROVE  LettersOf(b, key, M!secondEncryption(b, key))
<1>1. PICK n \in Nat : n = Len(b)
  BY LenProperties
<1>2. PICK m \in Nat : m = n \div 3 /\ 3 * m <= n
  <2>1. n \div 3 \in Nat /\ 3 * (n \div 3) <= n
    BY SMT
  <2> QED
    BY <2>1, Zenon
<1>3. \A k \in 1 .. n : b[k] \in Sym
  BY <1>1, ElementOfSeq
<1>4. \A i \in 1 .. m :
        /\ 3 * i \in 3 .. n /\ ((3 * i) - 2) + 1 = (3 * i) - 1 /\ ((3 * i) - 2) + 2 = 3 * i
        /\ (3 * i) - 2 \in 1 .. Len(b) - 2 /\ (3 * i) - 2 \in 1 .. n /\ (3 * i) - 1 \in 1 .. n
        /\ 3 * i \in 1 .. n
  BY <1>1, <1>2
<1>5. \A i \in 1 .. m :
        /\ Three(b[(3 * i) - 2], b[(3 * i) - 1], b[3 * i]) \in 1 .. KeySize
        /\ M!Symbols(Three(b[(3 * i) - 2], b[(3 * i) - 1], b[3 * i]))
             = <<b[(3 * i) - 2], b[(3 * i) - 1], b[3 * i]>>
  <2> TAKE i \in 1 .. m
  <2>1. PICK j \in 1 .. Len(b) - 2 : j = (3 * i) - 2 /\ j + 1 = (3 * i) - 1 /\ j + 2 = 3 * i
    BY <1>4, Zenon
  <2>2. ~(b[j] = X /\ b[j + 1] = X /\ b[j + 2] = X)
    BY Zenon DEF NoThree
  <2>3. b[j] \in Sym /\ b[j + 1] \in Sym /\ b[j + 2] \in Sym
    BY <1>3, <1>4, <2>1, Zenon
  <2>4. Three(b[j], b[j + 1], b[j + 2]) \in 1 .. KeySize
        /\ M!Symbols(Three(b[j], b[j + 1], b[j + 2])) = <<b[j], b[j + 1], b[j + 2]>>
    BY <2>2, <2>3, ThreeBack, Zenon
  <2> QED
    BY <2>1, <2>4, Zenon
<1>6. PICK f : f = [i \in 1 .. m |-> key[Three(b[(3 * i) - 2], b[(3 * i) - 1], b[3 * i])]]
  OBVIOUS
<1>7. \A i \in 1 .. m : f[i] \in KeyLetters
                       /\ f[i] = key[Three(b[(3 * i) - 2], b[(3 * i) - 1], b[3 * i])]
  BY <1>5, <1>6, KeyPlaces, Zenon
<1>8. f \in Seq(KeyLetters) /\ Len(f) = m
  <2>1. f \in [1 .. m -> KeyLetters]
    BY <1>6, <1>7, Zenon
  <2> QED
    BY ONLY <2>1, m \in Nat, SMT
<1>9. M!secondEncryption(b, key) = f
  <2>1. \A i \in 1 .. m : M!Triple(b, (3 * i) - 2) = Three(b[(3 * i) - 2], b[(3 * i) - 1], b[3 * i])
    BY <1>4, Zenon DEF M!Triple, Three
  <2>2. M!secondEncryption(b, key) = [i \in 1 .. m |-> key[M!Triple(b, (3 * i) - 2)]]
    BY <1>1, <1>2, Zenon DEF M!secondEncryption
  <2>3. PICK g : g = [i \in 1 .. m |-> key[M!Triple(b, (3 * i) - 2)]]
    OBVIOUS
  <2>4. \A i \in 1 .. m : g[i] = f[i]
    BY <1>7, <2>1, <2>3, Zenon
  <2>5. f = [i \in 1 .. m |-> f[i]] /\ g = [i \in 1 .. m |-> g[i]]
    BY <1>6, <2>3, Zenon
  <2> QED
    BY <2>2, <2>3, <2>4, <2>5, Zenon
<1> QED
  BY <1>1, <1>2, <1>5, <1>7, <1>8, <1>9, Zenon DEF LettersOf

\* Where the elements are after one more, and after a second sequence.
Appended(t, s, a, n, A) ==
  t \in Seq(A) /\ Len(t) = n + 1 /\ t[n + 1] = a /\ \A j \in 1 .. n : t[j] = s[j]
Placed(u, s, t, m, k, B) ==
  /\ u \in Seq(B) /\ Len(u) = m + k
  /\ (\A j \in 1 .. m : u[j] = s[j]) /\ \A j \in 1 .. k : u[m + j] = t[j]

\* It is so of Append.
LEMMA AppendedIs ==
  ASSUME NEW A, NEW s \in Seq(A), NEW a \in A, NEW n, n = Len(s)
  PROVE  Appended(Append(s, a), s, a, n, A)
  BY AppendProperties DEF Appended

\* It is so of the concatenation.
LEMMA PlacedIs ==
  ASSUME NEW B, NEW s \in Seq(B), NEW t \in Seq(B), NEW m, m = Len(s), NEW k, k = Len(t)
  PROVE  Placed(s \o t, s, t, m, k, B)
<1>1. PICK u : u = s \o t /\ Joined(u, s, t, B)
  BY Joining, Zenon
<1>2. m \in Nat /\ k \in Nat
  BY LenProperties
<1>3. u \in Seq(B) /\ Len(u) = m + k
  BY <1>1 DEF Joined
<1>4. \A i \in 1 .. m + k : u[i] = IF i <= m THEN s[i] ELSE t[i - m]
  BY <1>1 DEF Joined
<1>5. \A j \in 1 .. m : u[j] = s[j]
  BY ONLY <1>2, <1>4, SMT
<1>6. \A j \in 1 .. k : u[m + j] = t[j]
  <2> TAKE j \in 1 .. k
  <2>1. m + j \in 1 .. m + k /\ ~(m + j <= m) /\ (m + j) - m = j
    BY ONLY <1>2, j \in 1 .. k, SMT
  <2> QED
    BY <1>4, <2>1, Zenon
<1> QED
  BY <1>1, <1>3, <1>5, <1>6, Zenon DEF Placed

\* A letter with its x, in the buffer.
Spelt(b, code) == (b \o code) \o <<X>>
SpeltWell(b, code, w) ==
  /\ w \in Tame /\ w # <<>> /\ Len(w) >= 2 /\ w[Len(w) - 1] # X
  /\ w = b \o (code \o <<X>>) /\ code \o <<X>> = Append(code, X)
  /\ Append(w, X) \in Seq(Sym) /\ NoThree(Append(w, X))

\* A letter with its x keeps the buffer tame, and so does a second x.
LEMMA SpeltIs ==
  ASSUME NEW b \in Tame, NEW code \in Seq(Bits), code # <<>>
  PROVE  SpeltWell(b, code, Spelt(b, code))
<1>1. b \in Seq(Sym) /\ NoThree(b)
  BY DEF Tame
<1>2. PICK c \in Seq(Sym) : c = code
  <2>1. Bits \subseteq Sym
    BY DEF Bits, Sym
  <2> QED
    BY <2>1, SeqInLarger, Zenon
<1>3. X \in Sym
  BY DEF X, Sym
<1>4. PICK m \in Nat, k \in Nat : m = Len(b) /\ k = Len(c) /\ k # 0
  BY <1>1, <1>2, LenProperties, EmptySeq
<1>5. \A j \in 1 .. k : c[j] # X
  <2>1. \A j \in 1 .. Len(code) : code[j] \in Bits
    BY ElementOfSeq
  <2> QED
    BY <1>2, <1>4, <2>1 DEF Bits, X
<1>6. PICK v : v = b \o c /\ Placed(v, b, c, m, k, Sym)
  BY <1>1, <1>4, PlacedIs, Zenon
<1>7. v \in Seq(Sym) /\ Len(v) = m + k
  BY <1>6, Zenon DEF Placed
<1>8. Longer(v, X, Sym)
  BY <1>3, <1>7, Lengthen, Zenon
<1>9. PICK w \in Seq(Sym) : w = Append(v, X) /\ w = v \o <<X>>
  BY <1>8, Zenon DEF Longer
<1>10. Appended(w, v, X, m + k, Sym)
  BY <1>3, <1>7, <1>9, AppendedIs, Zenon
<1>11. PICK u : u = Append(w, X) /\ Appended(u, w, X, (m + k) + 1, Sym)
  <2>1. Len(w) = (m + k) + 1
    BY <1>10, Zenon DEF Appended
  <2> QED
    BY <1>3, <2>1, AppendedIs, Zenon
<1>12. /\ \A j \in 1 .. m + k : j \in 1 .. (m + k) + 1
       /\ \A j \in 1 .. m : j \in 1 .. m + k
       /\ \A j \in m + 1 .. m + k : j - m \in 1 .. k /\ m + (j - m) = j /\ j \in 1 .. m + k
  BY ONLY m \in Nat, k \in Nat, SMT
<1>13. \A j \in m + 1 .. m + k : v[j] # X /\ w[j] # X /\ u[j] # X
  <2> TAKE j \in m + 1 .. m + k
  <2>1. v[m + (j - m)] = c[j - m] /\ c[j - m] # X
    BY <1>5, <1>6, <1>12, Zenon DEF Placed
  <2>2. v[j] # X
    BY <1>12, <2>1, Zenon
  <2>3. w[j] = v[j] /\ u[j] = w[j]
    BY <1>10, <1>11, <1>12, Zenon DEF Appended
  <2> QED
    BY <2>2, <2>3, Zenon
<1>14. \A j \in 1 .. m : w[j] = b[j] /\ u[j] = b[j]
  <2> TAKE j \in 1 .. m
  <2>1. v[j] = b[j]
    BY <1>6, Zenon DEF Placed
  <2>3. w[j] = v[j] /\ u[j] = w[j]
    BY <1>10, <1>11, <1>12, Zenon DEF Appended
  <2> QED
    BY <2>1, <2>3, Zenon
<1>15. \A i \in 1 .. m + k :
         \/ i \in 1 .. m - 2
         \/ i \in m + 1 .. m + k \/ i + 1 \in m + 1 .. m + k \/ i + 2 \in m + 1 .. m + k
  BY <1>4
<1>16. \A i \in 1 .. m - 2 : ~(b[i] = X /\ b[i + 1] = X /\ b[i + 2] = X)
                            /\ i \in 1 .. m /\ i + 1 \in 1 .. m /\ i + 2 \in 1 .. m
  BY <1>1, <1>4 DEF NoThree
<1>17. \A i \in 1 .. m + k : /\ ~(w[i] = X /\ w[i + 1] = X /\ w[i + 2] = X)
                             /\ ~(u[i] = X /\ u[i + 1] = X /\ u[i + 2] = X)
  BY <1>13, <1>14, <1>15, <1>16, Zenon
<1>18. NoThree(w) /\ NoThree(u)
  <2>a. Len(w) = (m + k) + 1 /\ Len(u) = ((m + k) + 1) + 1
    BY <1>10, <1>11, Zenon DEF Appended
  <2>1. Len(w) - 2 = (m + k) - 1 /\ Len(u) - 2 = m + k
    BY ONLY <2>a, m \in Nat, k \in Nat, SMT
  <2>2. \A i \in 1 .. (m + k) - 1 : i \in 1 .. m + k
    OBVIOUS
  <2> QED
    BY <1>17, <2>1, <2>2, Zenon DEF NoThree
<1>19. Last(w) = X /\ w # <<>> /\ Len(w) >= 2 /\ w[Len(w) - 1] # X
  <2>a. Len(w) = (m + k) + 1 /\ w[(m + k) + 1] = X
    BY <1>10, Zenon DEF Appended
  <2>1. Len(w) - 1 = m + k /\ m + k \in m + 1 .. m + k /\ Len(w) >= 2 /\ Len(w) # 0
    BY ONLY <2>a, <1>4, m \in Nat, k \in Nat, SMT
  <2>2. w # <<>>
    BY ONLY <2>1, EmptySeq
  <2>3. Last(w) = X
    BY <2>a, Zenon DEF Last
  <2> QED
    BY <1>13, <2>1, <2>2, <2>3, Zenon
<1>20. w \in Tame
  BY <1>18, <1>19 DEF Tame
<1>21. w = Spelt(b, code)
  BY <1>2, <1>6, <1>9, Zenon DEF Spelt
<1>22. w = b \o (code \o <<X>>) /\ code \o <<X>> = Append(code, X)
  <2>1. PICK one \in Seq(Sym) : one = <<X>>
    BY <1>3, TwoOf, Zenon
  <2>2. Associative(b, c, one)
    BY <1>1, ConcatIsAssociative, Zenon
  <2>3. Longer(c, X, Sym)
    BY <1>3, Lengthen, Zenon
  <2> QED
    BY <1>2, <1>21, <2>1, <2>2, <2>3, Zenon DEF Associative, Spelt, Longer
<1> QED
  <2>1. u \in Seq(Sym)
    BY <1>11, Zenon DEF Appended
  <2> QED
    BY <1>11, <1>18, <1>19, <1>20, <1>21, <1>22, <2>1, Zenon DEF SpeltWell

\* The states of a run of -f -e.
Sender == [buffer : Tame, state : Fares, out : Seq(Ascii)]
SenderHas(s, b, st, o) == s.buffer = b /\ s.state = st /\ s.out = o

\* The fields of a record of the sender.
LEMMA SenderRecord ==
  \A b, st, o : SenderHas([buffer |-> b, state |-> st, out |-> o], b, st, o)
  BY DEF SenderHas

\* A record of the sender, in a form to instantiate.
LEMMA SenderFields ==
  ASSUME NEW b \in Tame, NEW st \in Fares, NEW o \in Seq(Ascii)
  PROVE  [buffer |-> b, state |-> st, out |-> o] \in Sender
  BY DEF Sender

\* The types of the fields.
LEMMA SenderTypes ==
  ASSUME NEW s \in Sender
  PROVE  s.buffer \in Tame /\ s.buffer \in Seq(Sym) /\ NoThree(s.buffer)
         /\ s.state \in Fares /\ s.out \in Seq(Ascii)
  BY DEF Sender, Tame

\* An empty buffer is tame.
LEMMA TameEmpty == <<>> \in Tame
<1>1. <<>> \in Seq(Sym) /\ Len(<<>>) = 0
  BY EmptySeq
<1>2. NoThree(<<>>)
  BY <1>1 DEF NoThree
<1> QED
  BY <1>1, <1>2 DEF Tame

\* The letters of the whole buffer are printed first.
WholeOf(b) == Len(b) % 3 = 0
OutOf(s, key) ==
  IF WholeOf(s.buffer) THEN s.out \o M!secondEncryption(s.buffer, key) ELSE s.out
LeftOf(s) == IF WholeOf(s.buffer) THEN <<>> ELSE s.buffer

EncryptCase(s, c, next, key, e) ==
  IF c = 10
  THEN e = [buffer |-> <<>>, state |-> "good",
            out |-> Append(OutOf(s, key), 10) \o M!secondEncryption(LeftOf(s), key)]
  ELSE IF ~M!InTable(c) THEN e = [buffer |-> s.buffer, state |-> "lost", out |-> s.out]
  ELSE IF M!Code(c) = <<>> THEN e = [buffer |-> s.buffer, state |-> "failed", out |-> s.out]
  ELSE IF next = 10
  THEN e = [buffer |-> <<>>, state |-> "good",
            out |-> OutOf(s, key)
                      \o M!secondEncryption(Append(Spelt(LeftOf(s), M!Code(c)), X), key)]
  ELSE e = [buffer |-> Spelt(LeftOf(s), M!Code(c)), state |-> "good", out |-> OutOf(s, key)]

\* encryptMorseCode by its cases: a newline, a character without a place or a
\* code, the last one of a line, any other.
LEMMA EncryptByCase ==
  \A s, c, next, key : EncryptCase(s, c, next, key, M!encryptMorseCode(s, c, next, key))
<1> TAKE s, c, next, key
<1>1. PICK e : e = M!encryptMorseCode(s, c, next, key)
  OBVIOUS
<1>2. PICK o, l : o = OutOf(s, key) /\ l = LeftOf(s)
  OBVIOUS
<1>3. e = IF c = 10
          THEN [buffer |-> <<>>, state |-> "good",
                out |-> Append(o, 10) \o M!secondEncryption(l, key)]
          ELSE IF ~M!InTable(c) THEN [buffer |-> s.buffer, state |-> "lost", out |-> s.out]
          ELSE IF M!Code(c) = <<>> THEN [buffer |-> s.buffer, state |-> "failed", out |-> s.out]
          ELSE IF next = 10
          THEN [buffer |-> <<>>, state |-> "good",
                out |-> o \o M!secondEncryption(Append(Spelt(l, M!Code(c)), X), key)]
          ELSE [buffer |-> Spelt(l, M!Code(c)), state |-> "good", out |-> o]
  BY <1>1, <1>2, Zenon
     DEF M!encryptMorseCode, WholeOf, OutOf, LeftOf, Spelt, X, M!x, M!NEWLINE
<1> QED
  BY <1>1, <1>2, <1>3, Zenon DEF EncryptCase

\* An x for a space.
Marked(b, stray) == IF Len(b) - 2 < 0 THEN Len(b) - 2 \in stray ELSE b[(Len(b) - 2) + 1] = X
Spaced(s, stray) ==
  [buffer |-> IF Marked(s.buffer, stray) THEN s.buffer ELSE Append(s.buffer, X),
   state |-> IF s.state = "start" THEN "failed" ELSE s.state, out |-> s.out]

\* encryptSpace appends an x where it finds none two places before the end.
LEMMA SpaceIs == \A s, stray : M!encryptSpace(s, stray) = Spaced(s, stray)
  BY Zenon DEF M!encryptSpace, Spaced, Marked, X, M!x

\* The buffer of letters, and the letters that it is printed as.
LEMMA PrintsLetters ==
  ASSUME NEW key, IsKey(key), NEW b \in Seq(Sym), NoThree(b), NEW o \in Seq(Ascii)
  PROVE  o \o M!secondEncryption(b, key) \in Seq(Ascii)
<1>1. PICK w \in Seq(KeyLetters) : w = M!secondEncryption(b, key)
  BY SecondEncryptionIs, Zenon DEF LettersOf
<1>2. w \in Seq(Ascii)
  <2>1. KeyLetters \subseteq Ascii
    BY DEF KeyLetters, Ascii
  <2> QED
    BY <2>1, SeqInLarger, Zenon
<1>3. Joined(o \o w, o, w, Ascii)
  BY <1>2, Joining, Zenon
<1> QED
  BY <1>1, <1>3, Zenon DEF Joined

\* What is printed and what is left have their types.
LEMMA OutLeftType ==
  ASSUME NEW key, IsKey(key), NEW s \in Sender
  PROVE  OutOf(s, key) \in Seq(Ascii) /\ LeftOf(s) \in Tame
<1>1. s.buffer \in Tame /\ s.buffer \in Seq(Sym) /\ NoThree(s.buffer) /\ s.out \in Seq(Ascii)
  BY SenderTypes, Zenon
<1> QED
  BY <1>1, TameEmpty, PrintsLetters, Zenon DEF OutOf, LeftOf

\* A code is dots and dashes.
LEMMA CodeType ==
  ASSUME NEW c, M!InTable(c)
  PROVE  M!Code(c) \in Seq(Bits)
<1>1. c - 32 \in 1 .. Places
  BY CodeTable, Zenon DEF M!InTable
<1> QED
  BY <1>1, CodeTable, Zenon DEF M!Code

\* Every character encrypted leaves a record of the sender.
LEMMA EncryptCodeType ==
  ASSUME NEW key, IsKey(key), NEW s \in Sender, NEW c, NEW next
  PROVE  M!encryptMorseCode(s, c, next, key) \in Sender
<1>1. PICK e : e = M!encryptMorseCode(s, c, next, key) /\ EncryptCase(s, c, next, key, e)
  BY EncryptByCase, Zenon
<1>2. PICK o, l : o = OutOf(s, key) /\ l = LeftOf(s) /\ o \in Seq(Ascii) /\ l \in Tame
  BY OutLeftType, Zenon
<1>3. s.buffer \in Tame /\ s.out \in Seq(Ascii) /\ {"good", "lost", "failed"} \subseteq Fares
  BY SenderTypes DEF Fares
<1>4. l \in Seq(Sym) /\ NoThree(l)
  BY <1>2, Zenon DEF Tame
<1>5. CASE c = 10
  <2>1. e = [buffer |-> <<>>, state |-> "good",
             out |-> Append(o, 10) \o M!secondEncryption(l, key)]
    BY <1>1, <1>2, <1>5, Zenon DEF EncryptCase
  <2>2. 10 \in Ascii
    BY DEF Ascii
  <2>3. Longer(o, 10, Ascii)
    BY <1>2, <2>2, Lengthen, Zenon
  <2>4. PICK v \in Seq(Ascii) : v = Append(o, 10) \o M!secondEncryption(l, key)
    BY <1>4, <2>3, PrintsLetters, Zenon DEF Longer
  <2>5. "good" \in Fares
    BY <1>3
  <2> QED
    BY <1>1, <2>1, <2>4, <2>5, TameEmpty, SenderFields, Zenon
<1>6. CASE c # 10 /\ ~M!InTable(c)
  <2>1. "lost" \in Fares
    BY <1>3
  <2> QED
    BY <1>1, <1>3, <1>6, <2>1, SenderFields, Zenon DEF EncryptCase
<1>7. CASE c # 10 /\ M!InTable(c) /\ M!Code(c) = <<>>
  <2>1. "failed" \in Fares
    BY <1>3
  <2> QED
    BY <1>1, <1>3, <1>7, <2>1, SenderFields, Zenon DEF EncryptCase
<1>8. CASE c # 10 /\ M!InTable(c) /\ M!Code(c) # <<>>
  <2>1. PICK code \in Seq(Bits) : code = M!Code(c) /\ code # <<>>
    BY <1>8, CodeType, Zenon
  <2>2. PICK w : w = Spelt(l, code) /\ SpeltWell(l, code, w)
    BY <1>2, <2>1, SpeltIs, Zenon
  <2>3. w \in Tame /\ Append(w, X) \in Seq(Sym) /\ NoThree(Append(w, X))
    BY <2>2, Zenon DEF SpeltWell
  <2>4. o \o M!secondEncryption(Append(w, X), key) \in Seq(Ascii)
    BY <1>2, <2>3, PrintsLetters, Zenon
  <2>5. "good" \in Fares
    BY <1>3
  <2>6. e = IF next = 10
            THEN [buffer |-> <<>>, state |-> "good",
                  out |-> o \o M!secondEncryption(Append(w, X), key)]
            ELSE [buffer |-> w, state |-> "good", out |-> o]
    BY <1>1, <1>2, <1>8, <2>1, <2>2, Zenon DEF EncryptCase
  <2> QED
    BY <1>1, <1>2, <2>3, <2>4, <2>5, <2>6, TameEmpty, SenderFields, Zenon
<1> QED
  BY <1>5, <1>6, <1>7, <1>8, Zenon

\* A buffer stays without three x, and ends in one.
LEMMA SpaceTame ==
  ASSUME NEW b \in Tame, NEW stray
  PROVE  /\ (IF Marked(b, stray) THEN b ELSE Append(b, X)) \in Tame
         /\ ~Marked(b, stray) => Len(Append(b, X)) < 2 \/ Append(b, X)[Len(Append(b, X)) - 1] = X
         /\ Marked(b, stray) => Len(b) < 2 \/ b[Len(b) - 1] = X
<1>1. PICK n \in Nat : n = Len(b) /\ b \in Seq(Sym) /\ NoThree(b)
  BY LenProperties DEF Tame
<1>2. X \in Sym
  BY DEF X, Sym
<1>3. PICK w : w = Append(b, X) /\ Appended(w, b, X, n, Sym)
  BY <1>1, <1>2, AppendedIs, Zenon
<1>4. Len(w) = n + 1 /\ w[n + 1] = X /\ w \in Seq(Sym)
  BY <1>3, Zenon DEF Appended
<1>a. \A j \in 1 .. n : w[j] = b[j]
  BY <1>3, Zenon DEF Appended
<1>5. n >= 1 => b[n] = X
  <2>1. n >= 1 => b # <<>>
    BY <1>1, EmptySeq
  <2> QED
    BY <1>1, <2>1 DEF Tame, Last
<1>6. (n - 2) + 1 = n - 1 /\ (n - 2 < 0 <=> n < 2) /\ (n + 1) - 1 = n /\ (n + 1) - 2 = n - 1
  OBVIOUS
<1>7. Marked(b, stray) => n < 2 \/ b[n - 1] = X
  BY <1>1, <1>6, Zenon DEF Marked
<1>8. n + 1 < 2 \/ w[n] = X
  <2>1. n + 1 < 2 \/ (n >= 1 /\ n \in 1 .. n)
    OBVIOUS
  <2> QED
    BY <1>a, <1>5, <2>1, Zenon
<1>9. ~Marked(b, stray) => n < 2 \/ b[n - 1] # X
  BY <1>1, <1>6, Zenon DEF Marked
<1>10. ~Marked(b, stray) => NoThree(w)
  <2> HAVE ~Marked(b, stray)
  <2>1. \A i \in 1 .. n - 1 :
          \/ i \in 1 .. n - 2 /\ i \in 1 .. n /\ i + 1 \in 1 .. n /\ i + 2 \in 1 .. n
          \/ i = n - 1 /\ n >= 2 /\ i \in 1 .. n /\ ~(n < 2)
    OBVIOUS
  <2>2. \A i \in 1 .. n - 2 : ~(b[i] = X /\ b[i + 1] = X /\ b[i + 2] = X)
    BY <1>1, Zenon DEF NoThree
  <2>3. \A i \in 1 .. n - 1 : ~(w[i] = X /\ w[i + 1] = X /\ w[i + 2] = X)
    BY <1>a, <1>9, <2>1, <2>2, Zenon
  <2>4. Len(w) - 2 = n - 1
    BY <1>4, <1>6, Zenon
  <2> QED
    BY <2>3, <2>4, Zenon DEF NoThree
<1>11. Last(w) = X
  BY <1>4, Zenon DEF Last
<1>12. ~Marked(b, stray) => w \in Tame
  BY <1>4, <1>10, <1>11, Zenon DEF Tame
<1>13. Len(w) - 1 = n
  BY <1>4, <1>6, Zenon
<1> QED
  BY <1>1, <1>3, <1>4, <1>7, <1>8, <1>12, <1>13, Zenon

\* So does a space.
LEMMA SpaceType ==
  ASSUME NEW s \in Sender, NEW stray
  PROVE  M!encryptSpace(s, stray) \in Sender
<1>1. s.buffer \in Tame /\ s.state \in Fares /\ s.out \in Seq(Ascii)
  BY SenderTypes, Zenon
<1>2. PICK b \in Tame : b = IF Marked(s.buffer, stray) THEN s.buffer ELSE Append(s.buffer, X)
  BY <1>1, SpaceTame, Zenon
<1>3. PICK st \in Fares : st = IF s.state = "start" THEN "failed" ELSE s.state
  BY <1>1 DEF Fares
<1> QED
  BY <1>1, <1>2, <1>3, SpaceIs, SenderFields, Zenon DEF Spaced

\* One step of a run of -f -e.
Bad(s) == s.state \in {"failed", "lost"}
EncNext(s, i, t, key, stray) ==
  IF Bad(s) THEN s
  ELSE IF t[i] = 32 THEN M!encryptSpace(s, stray)
  ELSE M!encryptMorseCode(s, t[i], IF i = Len(t) THEN M!EOF ELSE t[i + 1], key)

EncBegin == [buffer |-> <<>>, out |-> <<>>, state |-> "start"]

\* So is the first one, which has not failed.
LEMMA EncBeginType == EncBegin \in Sender /\ EncBegin.buffer = <<>> /\ ~Bad(EncBegin)
  BY EmptySeq, TameEmpty DEF EncBegin, Sender, Fares, Bad

\* Every step leaves a record of the sender.
LEMMA EncNextType ==
  ASSUME NEW key, IsKey(key), NEW s \in Sender, NEW i, NEW t, NEW stray
  PROVE  EncNext(s, i, t, key, stray) \in Sender
  BY SpaceType, EncryptCodeType, Zenon DEF EncNext

EncryptRun(q, t, n, key, stray) ==
  /\ q \in [0 .. n -> Sender] /\ q[0] = EncBegin
  /\ \A k \in 1 .. n : q[k] = EncNext(q[k - 1], k, t, key, stray)
  /\ M!EncryptMorse(t, key, stray) = q[n]

\* EncryptMorse is such a run.
LEMMA EncryptIsRun ==
  ASSUME NEW key, IsKey(key), NEW stray, NEW t \in Seq(Ascii), NEW n \in Nat, n = Len(t)
  PROVE  \E q : EncryptRun(q, t, n, key, stray)
<1>1. DOMAIN t = 1 .. n
  BY LenProperties
<1>2. PICK base \in Sender : base = EncBegin
  BY EncBeginType, Zenon
<1>3. PICK g : g = [k \in 1 .. n |-> [r \in Sender |-> EncNext(r, k, t, key, stray)]]
  OBVIOUS
<1>4. /\ g \in [1 .. n -> [Sender -> Sender]]
      /\ \A k \in 1 .. n : \A r \in Sender : g[k][r] = EncNext(r, k, t, key, stray)
  <2>1. \A k \in 1 .. n : \A r \in Sender : EncNext(r, k, t, key, stray) \in Sender
    BY EncNextType, Zenon 
  <2> QED
    BY <1>3, <2>1, Zenon
<1>5. PICK w : FoldTable(w, Sender, n, base, g)
  BY <1>4, FoldDefined, Zenon
<1>6. /\ w \in [SUBSET (1 .. n) -> Sender]
      /\ \A v \in SUBSET (1 .. n) :
           w[v] = IF v = {} THEN base
                  ELSE g[CHOOSE m \in v : \A k \in v : m >= k]
                        [w[v \ {CHOOSE m \in v : \A k \in v : m >= k}]]
  BY <1>5, Zenon DEF FoldTable
<1> DEFINE id == [i \in DOMAIN t |-> i]
           Body(f) ==
             [v \in SUBSET (DOMAIN id) |->
               IF v = {} THEN base
               ELSE EncNext(f[v \ {CHOOSE m \in v : \A k \in v : m >= k}],
                            id[CHOOSE m \in v : \A k \in v : m >= k], t, key, stray)]
           E == CHOOSE iter : iter = Body(iter)
<1>7. \A v \in SUBSET (1 .. n) : v # {} =>
        /\ (CHOOSE m \in v : \A k \in v : m >= k) \in 1 .. n
        /\ w[v \ {CHOOSE m \in v : \A k \in v : m >= k}] \in Sender
  <2> TAKE v \in SUBSET (1 .. n)
  <2> HAVE v # {}
  <2>1. \E m \in v : \A k \in v : m >= k
    BY GreatestOf, Zenon
  <2>2. PICK j : j = CHOOSE m \in v : \A k \in v : m >= k
    OBVIOUS
  <2>3. j \in v
    BY <2>1, <2>2, Zenon
  <2>4. v \ {j} \in SUBSET (1 .. n) /\ j \in 1 .. n
    BY <2>3
  <2> QED
    BY <1>6, <2>2, <2>4, Zenon
<1>a. M!EncryptMorse(t, key, stray) = E[DOMAIN id]
  BY <1>2, Zenon
     DEF M!EncryptMorse, M!FoldLeftDomain, M!FoldLeft, M!MapThenFoldSet, M!Max, EncNext, Bad, EncBegin, M!SPACE
<1>b. DOMAIN id = 1 .. n /\ \A j \in 1 .. n : id[j] = j
  BY <1>1, Zenon
<1> HIDE DEF id
<1>8. w = Body(w)
  <2>1. \A v \in SUBSET (1 .. n) : w[v] = Body(w)[v]
    <3> TAKE v \in SUBSET (1 .. n)
    <3>1. CASE v = {}
      BY <1>6, <1>b, <3>1, Zenon
    <3>2. CASE v # {}
      <4>1. PICK j : j = CHOOSE m \in v : \A k \in v : m >= k
        OBVIOUS
      <4>2. j \in 1 .. n /\ w[v \ {j}] \in Sender
        BY <1>7, <3>2, <4>1, Zenon
      <4>3. w[v] = g[j][w[v \ {j}]]
        BY <1>6, <3>2, <4>1, Zenon
      <4>4. w[v] = EncNext(w[v \ {j}], j, t, key, stray)
        BY <1>4, <4>2, <4>3, Zenon
      <4>5. id[j] = j
        BY <1>b, <4>2, Zenon
      <4>6. Body(w)[v] = EncNext(w[v \ {j}], id[j], t, key, stray)
        BY <1>b, <3>2, <4>1, Zenon
      <4> QED
        BY <4>4, <4>5, <4>6, Zenon
    <3> QED
      BY <3>1, <3>2
  <2> QED
    BY <1>6, <1>b, <2>1, Zenon
<1>9. E = Body(E)
  <2> HIDE DEF Body
  <2> QED
    BY <1>8, Zenon
<1>10. M!EncryptMorse(t, key, stray) = E[1 .. n]
  BY <1>a, <1>b, Zenon
<1> HIDE DEF E
<1>11. E[{}] = base
  BY <1>9, <1>b, Zenon
<1>c. \A v \in SUBSET (1 .. n) : v # {} =>
        E[v] = EncNext(E[v \ {CHOOSE m \in v : \A k \in v : m >= k}],
                       id[CHOOSE m \in v : \A k \in v : m >= k], t, key, stray)
  BY <1>9, <1>b, Zenon
<1>12. \A k \in 1 .. n : E[1 .. k - 1] \in Sender => E[1 .. k] = g[k][E[1 .. k - 1]]
  <2> TAKE k \in 1 .. n
  <2> HAVE E[1 .. k - 1] \in Sender
  <2>1. k \in Nat /\ k # 0 /\ 1 .. k \in SUBSET (1 .. n)
    BY <1>1
  <2>2. /\ (CHOOSE m \in 1 .. k : \A j \in 1 .. k : m >= j) = k
        /\ (1 .. k) \ {k} = 1 .. (k - 1) /\ 1 .. k # {}
    BY <2>1, GreatestUpTo
  <2>3. E[1 .. k] = EncNext(E[1 .. k - 1], id[k], t, key, stray)
    BY <1>c, <2>1, <2>2, Zenon
  <2>4. id[k] = k
    BY <1>b, Zenon
  <2> QED
    BY <1>4, <2>3, <2>4, Zenon
<1>13. FoldEnds(Sender, n, base, g, E)
  BY <1>4, <1>11, <1>12, FoldRun, Zenon
<1>14. PICK q \in Runs(Sender, n, base, g) : E[1 .. n] = q[n]
  BY <1>13, Zenon DEF FoldEnds
<1>15. q \in [0 .. n -> Sender] /\ q[0] = base /\ \A k \in 1 .. n : q[k] = g[k][q[k - 1]]
  BY <1>14 DEF Runs
<1>16. \A k \in 1 .. n : q[k] = EncNext(q[k - 1], k, t, key, stray)
  <2> TAKE k \in 1 .. n
  <2>1. q[k - 1] \in Sender
    BY <1>15
  <2> QED
    BY <1>4, <1>15, <2>1, Zenon
<1> QED
  BY <1>2, <1>10, <1>14, <1>15, <1>16, Zenon DEF EncryptRun

\* At the end of a line the last letter has two x, and everything is printed;
\* the program does so when it reads that letter.
Letterlike(b) == Len(b) >= 2 /\ b[Len(b) - 1] # X
Ended(s, key) ==
  IF Bad(s) \/ ~Letterlike(s.buffer) THEN s
  ELSE [buffer |-> <<>>, state |-> "good",
        out |-> s.out \o M!secondEncryption(Append(s.buffer, X), key)]
Sooner(s, c, key) == IF c = 10 THEN Ended(s, key) ELSE s
Sent(s, c, key, stray) ==
  IF Bad(s) THEN s
  ELSE IF c = 32 THEN M!encryptSpace(s, stray)
  ELSE M!encryptMorseCode(Sooner(s, c, key), c, M!EOF, key)
Send(key, stray) == [c \in Ascii |-> [s \in Sender |-> Sent(s, c, key, stray)]]
Sends(s, t, key, stray) == FoldOf(Sender, s, Send(key, stray), t)

\* What is not a letter's end is left alone.
LEMMA EndedSame ==
  /\ \A s, key : s.buffer = <<>> => Ended(s, key) = s
  /\ \A s, key : Bad(s) => Ended(s, key) = s
<1>1. ~Letterlike(<<>>)
  <2>1. Len(<<>>) = 0
    BY EmptySeq
  <2> QED
    BY <2>1 DEF Letterlike
<1> QED
  BY <1>1, Zenon DEF Ended

\* A buffer that ends in a space is left alone at the end of a line.
LEMMA SpaceEnded ==
  ASSUME NEW s \in Sender, NEW stray, NEW key
  PROVE  Ended(M!encryptSpace(s, stray), key) = M!encryptSpace(s, stray)
<1>1. PICK e : e = M!encryptSpace(s, stray) /\ e = Spaced(s, stray)
  BY SpaceIs, Zenon
<1>2. s.buffer \in Tame
  BY SenderTypes, Zenon
<1>3. PICK b : b = IF Marked(s.buffer, stray) THEN s.buffer ELSE Append(s.buffer, X)
  OBVIOUS
<1>4. e.buffer = b
  <2>1. PICK st, o : st = (IF s.state = "start" THEN "failed" ELSE s.state) /\ o = s.out
    OBVIOUS
  <2>2. e = [buffer |-> b, state |-> st, out |-> o]
    BY <1>1, <1>3, <2>1, Zenon DEF Spaced
  <2> QED
    BY <2>2, SenderRecord, Zenon DEF SenderHas
<1>5. Len(b) < 2 \/ b[Len(b) - 1] = X
  BY <1>2, <1>3, SpaceTame, Zenon
<1>6. b \in Seq(Sym)
  BY <1>2, <1>3, SpaceTame, Zenon DEF Tame
<1>7. ~Letterlike(b)
  <2>1. Len(b) \in Nat
    BY <1>6, LenProperties
  <2>2. Len(b) < 2 => ~(Len(b) >= 2)
    BY <2>1
  <2> QED
    BY <1>5, <2>2, Zenon DEF Letterlike
<1> QED
  BY <1>1, <1>4, <1>7, Zenon DEF Ended

\* What is printed at the end of a line leaves a record of the sender.
LEMMA EndedType ==
  ASSUME NEW key, IsKey(key), NEW s \in Sender
  PROVE  Ended(s, key) \in Sender /\ (s.buffer # <<>> /\ s.state = "good" => Ended(s, key).state = "good")
<1>1. s.buffer \in Tame /\ s.buffer \in Seq(Sym) /\ s.out \in Seq(Ascii)
  BY SenderTypes, Zenon
<1>2. CASE Bad(s) \/ ~Letterlike(s.buffer)
  BY <1>2, Zenon DEF Ended
<1>3. CASE ~Bad(s) /\ Letterlike(s.buffer)
  <2>1. PICK u : u = Append(s.buffer, X) /\ u \in Tame
    <3>1. PICK n \in Nat : n = Len(s.buffer)
      BY <1>1, LenProperties
    <3>2. ~Marked(s.buffer, {})
      <4>1. n >= 2 /\ s.buffer[n - 1] # X
        BY <1>3, <3>1, Zenon DEF Letterlike
      <4>2. ~(n - 2 < 0) /\ (n - 2) + 1 = n - 1
        BY <4>1
      <4> QED
        BY <3>1, <4>1, <4>2, Zenon DEF Marked
    <3> QED
      BY <1>1, <3>2, SpaceTame, Zenon
  <2>2. u \in Seq(Sym) /\ NoThree(u)
    BY <2>1, Zenon DEF Tame
  <2>3. s.out \o M!secondEncryption(u, key) \in Seq(Ascii)
    BY <1>1, <2>2, PrintsLetters, Zenon
  <2>4. "good" \in Fares
    BY DEF Fares
  <2>5. PICK e : e = Ended(s, key)
    OBVIOUS
  <2>6. e = [buffer |-> <<>>, state |-> "good", out |-> s.out \o M!secondEncryption(u, key)]
    BY <1>3, <2>1, <2>5, Zenon DEF Ended
  <2>7. e \in Sender
    BY <2>3, <2>4, <2>6, TameEmpty, SenderFields, Zenon
  <2>8. e.state = "good"
    BY <2>6, SenderRecord, Zenon DEF SenderHas
  <2> QED
    BY <2>5, <2>7, <2>8, Zenon
<1> QED
  BY <1>2, <1>3, Zenon

\* A character sent so leaves a record of the sender.
LEMMA SentType ==
  ASSUME NEW key, IsKey(key), NEW stray, NEW s \in Sender, NEW c
  PROVE  Sent(s, c, key, stray) \in Sender
<1>1. Sooner(s, c, key) \in Sender
  BY EndedType, Zenon DEF Sooner
<1> QED
  BY <1>1, SpaceType, EncryptCodeType, Zenon DEF Sent

\* Send is a function, which a fold can take.
LEMMA SendType ==
  ASSUME NEW key, IsKey(key), NEW stray
  PROVE  Send(key, stray) \in [Ascii -> [Sender -> Sender]]
  BY SentType, Zenon DEF Send

SendsOn(s, t, c, key, stray) ==
  Sends(s, Append(t, c), key, stray) = Sent(Sends(s, t, key, stray), c, key, stray)

\* A text sent leaves a record of the sender; nothing changes nothing.
LEMMA SendsType ==
  ASSUME NEW key, IsKey(key), NEW stray, NEW s \in Sender
  PROVE  /\ \A t \in Seq(Ascii) : Sends(s, t, key, stray) \in Sender
         /\ Sends(s, <<>>, key, stray) = s
<1>1. PICK step \in [Ascii -> [Sender -> Sender]] : step = Send(key, stray)
  BY SendType, Zenon
<1> QED
  BY <1>1, FoldOfType, FoldOfEmpty, Zenon DEF Sends

\* One character more is sent behind the others.
LEMMA SendsAppend ==
  ASSUME NEW key, IsKey(key), NEW stray, NEW s \in Sender, NEW t \in Seq(Ascii), NEW c \in Ascii
  PROVE  SendsOn(s, t, c, key, stray)
<1>1. PICK step \in [Ascii -> [Sender -> Sender]] : step = Send(key, stray)
  BY SendType, Zenon
<1>2. PICK e : e = Sends(s, t, key, stray) /\ e \in Sender
  BY SendsType, Zenon
<1>3. NextOf(Sender, s, step, t, c)
  BY <1>1, FoldOfAppend, Zenon
<1>4. Sends(s, Append(t, c), key, stray) = step[c][e]
  BY <1>1, <1>2, <1>3, Zenon DEF NextOf, Sends
<1>5. step[c][e] = Sent(e, c, key, stray)
  BY <1>1, <1>2, Zenon DEF Send
<1> QED
  BY <1>2, <1>4, <1>5, Zenon DEF SendsOn

\* Ending a line early or late is the same.
LEMMA Early ==
  ASSUME NEW key, IsKey(key), NEW s \in Sender, NEW c, c # 10
  PROVE  /\ M!encryptMorseCode(s, c, 10, key) = Ended(M!encryptMorseCode(s, c, M!EOF, key), key)
         /\ \A next : next # 10 => M!encryptMorseCode(s, c, next, key)
                                     = M!encryptMorseCode(s, c, M!EOF, key)
<1>1. \A next : EncryptCase(s, c, next, key, M!encryptMorseCode(s, c, next, key))
  BY EncryptByCase, Zenon
<1>2. PICK o, l : o = OutOf(s, key) /\ l = LeftOf(s) /\ o \in Seq(Ascii) /\ l \in Tame
  BY OutLeftType, Zenon
<1>3. M!EOF # 10
  BY DEF M!EOF
<1>4. CASE ~M!InTable(c) \/ M!Code(c) = <<>>
  <2>1. PICK st \in {"lost", "failed"} : st = IF ~M!InTable(c) THEN "lost" ELSE "failed"
    OBVIOUS
  <2>2. PICK e : e = [buffer |-> s.buffer, state |-> st, out |-> s.out]
    OBVIOUS
  <2>3. \A next : M!encryptMorseCode(s, c, next, key) = e
    BY <1>1, <1>4, <2>1, <2>2, Zenon DEF EncryptCase
  <2>4. e.state = st
    BY <2>2, SenderRecord, Zenon DEF SenderHas
  <2>5. Bad(e)
    BY <2>1, <2>4 DEF Bad
  <2> QED
    BY <2>3, <2>5, Zenon DEF Ended
<1>5. CASE M!InTable(c) /\ M!Code(c) # <<>>
  <2>1. PICK code \in Seq(Bits) : code = M!Code(c) /\ code # <<>>
    BY <1>5, CodeType, Zenon
  <2>2. PICK w : w = Spelt(l, code) /\ SpeltWell(l, code, w)
    BY <1>2, <2>1, SpeltIs, Zenon
  <2>3. PICK z : z = [buffer |-> <<>>, state |-> "good",
                      out |-> o \o M!secondEncryption(Append(w, X), key)]
    OBVIOUS
  <2>4. PICK e : e = [buffer |-> w, state |-> "good", out |-> o]
    OBVIOUS
  <2>5. \A next : M!encryptMorseCode(s, c, next, key) = IF next = 10 THEN z ELSE e
    BY <1>1, <1>2, <1>5, <2>1, <2>2, <2>3, <2>4, Zenon DEF EncryptCase
  <2>6. e.buffer = w /\ e.state = "good" /\ e.out = o
    BY <2>4, SenderRecord, Zenon DEF SenderHas
  <2>7. ~Bad(e)
    BY <2>6 DEF Bad
  <2>8. Letterlike(w)
    BY <2>2, Zenon DEF SpeltWell, Letterlike
  <2>9. Ended(e, key) = z
    BY <2>3, <2>6, <2>7, <2>8, Zenon DEF Ended
  <2> QED
    BY <1>3, <2>5, <2>9, Zenon
<1> QED
  BY <1>4, <1>5, Zenon

\* What a run of -f -e prints is what Sent prints, character by character.
LEMMA EncryptIsSends ==
  ASSUME NEW key, IsKey(key), NEW stray
  PROVE  \A t \in Seq(Ascii) : M!EncryptMorse(t, key, stray) = Sends(EncBegin, t, key, stray)
<1> TAKE t \in Seq(Ascii)
<1>1. PICK n \in Nat : n = Len(t)
  BY LenProperties
<1>2. PICK r : EncryptRun(r, t, n, key, stray)
  BY <1>1, EncryptIsRun, Zenon
<1>3. /\ r \in [0 .. n -> Sender] /\ r[0] = EncBegin
      /\ \A k \in 1 .. n : r[k] = EncNext(r[k - 1], k, t, key, stray)
      /\ M!EncryptMorse(t, key, stray) = r[n]
  BY <1>2, Zenon DEF EncryptRun
<1>4. PICK step \in [Ascii -> [Sender -> Sender]] : step = Send(key, stray)
  BY SendType, Zenon
<1>5. EncBegin \in Sender /\ EncBegin.buffer = <<>>
  BY EncBeginType
<1>6. PICK g : g = Steps(step, t)
  OBVIOUS
<1>7. PICK q : q \in Runs(Sender, Len(t), EncBegin, g)
  BY <1>5, <1>6, StepsType, Zenon
<1>8. EndsAt(Sender, EncBegin, step, t, q)
  BY <1>5, <1>6, <1>7, FoldOfRun, Zenon
<1>9. q \in [0 .. n -> Sender] /\ q[0] = EncBegin /\ \A k \in 1 .. n : q[k] = g[k][q[k - 1]]
  BY <1>1, <1>7 DEF Runs
<1>10. \A k \in 1 .. n : t[k] \in Ascii /\ q[k] = Sent(q[k - 1], t[k], key, stray)
  <2> TAKE k \in 1 .. n
  <2>1. q[k - 1] \in Sender
    BY <1>9
  <2>2. t[k] \in Ascii
    BY <1>1, ElementOfSeq
  <2>3. g[k] = step[t[k]]
    BY <1>1, <1>6, Zenon DEF Steps
  <2> QED
    BY <1>4, <1>9, <2>1, <2>2, <2>3, Zenon DEF Send
<1>11. Sends(EncBegin, t, key, stray) = q[n]
  BY <1>1, <1>4, <1>8, Zenon DEF EndsAt, Sends
<1> DEFINE K == {k \in 0 .. n : r[k] = IF k < n /\ t[k + 1] = 10 THEN Ended(q[k], key) ELSE q[k]}
<1>12. 0 \in K
  <2>1. Ended(q[0], key) = q[0] /\ r[0] = q[0]
    BY <1>3, <1>5, <1>9, EndedSame, Zenon
  <2>2. 0 \in 0 .. n
    OBVIOUS
  <2> QED
    BY <2>1, <2>2, Zenon
<1>13. ASSUME NEW i \in 0 .. n - 1 PROVE i \in K => i + 1 \in K
  <2> HAVE i \in K
  <2>1. PICK k \in 1 .. n : k = i + 1 /\ k - 1 = i /\ k \in 0 .. n /\ i < n /\ i \in 0 .. n
    OBVIOUS
  <2>2. r[i] = IF t[k] = 10 THEN Ended(q[i], key) ELSE q[i]
    BY <2>1, Zenon
  <2>3. PICK c \in Ascii : c = t[k]
    BY <1>10, Zenon
  <2>4. q[i] \in Sender /\ r[i] = Sooner(q[i], c, key) /\ r[i] \in Sender
    BY <1>3, <1>9, <2>1, <2>2, <2>3, Zenon DEF Sooner
  <2>5. PICK next : next = IF k = n THEN M!EOF ELSE t[k + 1]
    OBVIOUS
  <2>6. r[k] = IF Bad(r[i]) THEN r[i]
               ELSE IF c = 32 THEN M!encryptSpace(r[i], stray)
               ELSE M!encryptMorseCode(r[i], c, next, key)
    BY <1>1, <1>3, <2>1, <2>3, <2>5, Zenon DEF EncNext
  <2>7. q[k] = IF Bad(q[i]) THEN q[i]
               ELSE IF c = 32 THEN M!encryptSpace(q[i], stray)
               ELSE M!encryptMorseCode(r[i], c, M!EOF, key)
    BY <1>10, <2>1, <2>3, <2>4, Zenon DEF Sent
  <2>8. next = 10 <=> k < n /\ t[k + 1] = 10
    <3>1. M!EOF # 10
      BY DEF M!EOF
    <3>2. k = n \/ k < n
      OBVIOUS
    <3>3. ~(k = n /\ k < n)
      OBVIOUS
    <3> QED
      BY <2>5, <3>1, <3>2, <3>3, Zenon
  <2>a. Bad(r[i]) <=> Bad(q[i])
    <3>1. CASE Bad(q[i]) \/ ~Letterlike(q[i].buffer) \/ c # 10
      BY <2>4, <3>1, Zenon DEF Sooner, Ended
    <3>2. CASE ~Bad(q[i]) /\ Letterlike(q[i].buffer) /\ c = 10
      <4>1. r[i].state = "good"
        <5>1. PICK o : o = q[i].out \o M!secondEncryption(Append(q[i].buffer, X), key)
          OBVIOUS
        <5>2. r[i] = [buffer |-> <<>>, state |-> "good", out |-> o]
          BY <2>4, <3>2, <5>1, Zenon DEF Sooner, Ended
        <5>3. PICK z : z = [buffer |-> <<>>, state |-> "good", out |-> o]
          OBVIOUS
        <5>4. z.state = "good"
          BY ONLY <5>3, SenderRecord, Zenon DEF SenderHas
        <5> QED
          BY <5>2, <5>3, <5>4, Zenon
      <4> QED
        BY <3>2, <4>1 DEF Bad
    <3> QED
      BY <3>1, <3>2, Zenon
  <2>b. c # 10 => r[i] = q[i]
    BY <2>4, Zenon DEF Sooner
  <2>9. r[k] = IF next = 10 THEN Ended(q[k], key) ELSE q[k]
    <3>1. CASE Bad(q[i])
      <4>1. Ended(q[i], key) = q[i]
        BY <3>1, EndedSame, Zenon
      <4>2. r[i] = q[i]
        BY <2>4, <4>1, Zenon DEF Sooner
      <4> QED
        BY <2>6, <2>7, <3>1, <4>1, <4>2, Zenon
    <3>2. CASE ~Bad(q[i]) /\ c = 32
      <4>1. r[i] = q[i]
        <5>1. 32 # 10
          OBVIOUS
        <5> QED
          BY <2>b, <3>2, <5>1, Zenon
      <4> QED
        BY <2>4, <2>6, <2>7, <3>2, <4>1, SpaceEnded, Zenon
    <3>3. CASE ~Bad(q[i]) /\ c # 32 /\ c # 10
      <4>1. r[i] = q[i]
        BY <2>b, <3>3, Zenon
      <4> QED
        BY <2>4, <2>6, <2>7, <3>3, <4>1, Early, Zenon
    <3>4. CASE ~Bad(q[i]) /\ c # 32 /\ c = 10
      <4>1. \A a : EncryptCase(r[i], c, a, key, M!encryptMorseCode(r[i], c, a, key))
        BY EncryptByCase, Zenon
      <4>2. PICK z : z = [buffer |-> <<>>, state |-> "good",
                          out |-> Append(OutOf(r[i], key), 10)
                                    \o M!secondEncryption(LeftOf(r[i]), key)]
        OBVIOUS
      <4>3. \A a : M!encryptMorseCode(r[i], c, a, key) = z
        BY <3>4, <4>1, <4>2, Zenon DEF EncryptCase
      <4>4. r[k] = z /\ q[k] = z
        BY <2>6, <2>7, <2>a, <3>4, <4>3, Zenon
      <4>5. z.buffer = <<>>
        BY <4>2, SenderRecord, Zenon DEF SenderHas
      <4> QED
        BY <4>4, <4>5, EndedSame, Zenon
    <3> QED
      BY <3>1, <3>2, <3>3, <3>4, Zenon
  <2> QED
    BY <2>1, <2>8, <2>9, Zenon
<1>14. r[n] = q[n]
  <2> HIDE DEF K
  <2>1. \A i \in 0 .. n : i \in K
    BY <1>12, <1>13, InductionUpTo, Zenon
  <2>2. n \in K /\ ~(n < n)
    BY <2>1
  <2> QED
    BY <2>2, Zenon DEF K
<1> QED
  BY <1>3, <1>11, <1>14, Zenon

-----------------------------------------------------------------------------
(* The key of -f *)

KeyGiven(key) == IF key = P!NoKey THEN M!fm_alphabet ELSE M!loadMorseKeyWithKey(key)

\* Morse's FlattenSeq is this one.
LEMMA FlattenM == \A s : M!FlattenSeq(s) = FlattenSeq(s)
  BY Zenon DEF M!FlattenSeq, FlattenSeq

\* The key that is made from the argument is one (morsecipher.c).
LEMMA KeyIs ==
  ASSUME NEW key, key # P!NoKey => key \in Seq(Ascii) /\ M!checkKeyValidF(key)
  PROVE  IsKey(KeyGiven(key))
<1> DEFINE alphabet == [i \in 1 .. KeySize |-> 64 + i]
<1>1. M!fm_alphabet = alphabet
  BY Zenon DEF M!fm_alphabet, KeySize
<1>2. KeyLetters = 64 + 1 .. 64 + KeySize /\ 64 \in Nat /\ KeySize \in Nat
  BY DEF KeyLetters, KeySize
<1>a. Len(alphabet) = KeySize /\ (\A j \in 1 .. KeySize : alphabet[j] \in KeyLetters)
      /\ alphabet \in Seq(KeyLetters) /\ DOMAIN alphabet = 1 .. KeySize
  BY DEF KeyLetters, KeySize
<1>3. CASE key = P!NoKey
  <2>1. IsInjective(alphabet)
    <3>1. \A i \in 1 .. KeySize : \A j \in 1 .. KeySize : alphabet[i] = alphabet[j] => i = j
      <4>1. \A i \in 1 .. KeySize : \A j \in 1 .. KeySize : 64 + i = 64 + j => i = j
        BY DEF KeySize
      <4> QED
        BY <4>1, Zenon
    <3> HIDE DEF alphabet
    <3> QED
      BY <1>a, <3>1, Zenon DEF IsInjective
  <2>2. Range(alphabet) = KeyLetters
    <3>1. \A c \in KeyLetters : c - 64 \in 1 .. KeySize /\ alphabet[c - 64] = c
      BY DEF KeyLetters, KeySize
    <3> HIDE DEF alphabet
    <3> QED
      BY <1>a, <3>1, Zenon DEF Range
  <2> HIDE DEF alphabet
  <2> QED
    BY <1>1, <1>3, <1>a, <2>1, <2>2, Zenon DEF KeyGiven, IsKey, EveryOnce
<1>4. CASE key # P!NoKey
  <2>1. key \in Seq(Ascii) /\ M!IsInjective(key)
        /\ \A i \in DOMAIN key : M!Contains(alphabet, key[i])
    BY <1>1, <1>4, Zenon DEF M!checkKeyValidF
  <2>2. \A i \in 1 .. Len(key) : key[i] \in KeyLetters
    <3>1. DOMAIN key = 1 .. Len(key)
      BY <2>1, LenProperties
    <3> HIDE DEF alphabet
    <3>3. \A a : M!Contains(alphabet, a) => a \in KeyLetters
      BY <1>a, Zenon DEF M!Contains
    <3> QED
      BY <2>1, <3>1, <3>3, Zenon
  <2>3. key \in Seq(KeyLetters)
    <3>1. key = [i \in 1 .. Len(key) |-> key[i]] /\ Len(key) \in Nat
      BY <2>1, LenProperties
    <3> QED
      BY <2>2, <3>1
  <2>4. IsInjective(key)
    BY <2>1, Zenon DEF M!IsInjective, IsInjective
  <2>5. PICK rest : rest = Each(Leave(KeyLetters, Range(key)), alphabet)
    OBVIOUS
  <2>6. M!loadMorseKeyWithKey(key) = key \o rest
    <3>1. RestOf(key, alphabet, KeySize) = rest
      <4> HIDE DEF alphabet
      <4>1. key \in Seq(64 + 1 .. 64 + KeySize)
        BY <1>2, <2>3, Zenon
      <4>2. alphabet = [i \in 1 .. KeySize |-> 64 + i]
        BY DEF alphabet
      <4> QED
        BY <1>2, <2>5, <4>1, <4>2, RestIs, ZenonT(60)
    <3> HIDE DEF alphabet
    <3>2. M!FlattenSeq([i \in 1 .. KeySize |-> IF M!Contains(key, alphabet[i])
                                          THEN <<>> ELSE <<alphabet[i]>>]) = rest
      BY <3>1, FlattenM, Zenon DEF M!Contains, RestOf
    <3> QED
      BY <1>1, <3>2, Zenon DEF M!loadMorseKeyWithKey, KeySize
  <2>7. PICK table : table = key \o rest
    OBVIOUS
  <2>8. EveryOnce(table, KeyLetters, KeySize)
    <3>1. alphabet = [i \in 1 .. KeySize |-> 64 + i] /\ table = key \o Each(Leave(KeyLetters, Range(key)), alphabet)
      BY <2>5, <2>7, Zenon
    <3> HIDE DEF alphabet
    <3> QED
      BY <1>2, <2>3, <2>4, <3>1, KeyThenRest, Zenon
  <2> QED
    BY <1>4, <2>6, <2>7, <2>8, Zenon DEF KeyGiven, IsKey
<1> QED
  BY <1>3, <1>4

-----------------------------------------------------------------------------
(* What is sent is heard *)

\* A receiver who has heard h: what he has printed and what he holds back say it.
Fed(d, h) ==
  /\ d \in Receiver /\ d.state # "lost"
  /\ Listen(Start(d), d.buffer) = h
  /\ d.buffer = <<>> \/ (d.state = "good" /\ Len(d.buffer) >= 2)

\* Behind an x nothing is held back.
LEMMA HeardX ==
  ASSUME NEW s, Heard(s, X).kind # "bad"
  PROVE  Heard(s, X).kind # "code"
<1>1. CASE s.kind = "bad"
  BY <1>1, Zenon DEF Heard
<1>2. CASE s.kind # "bad" /\ s.kind = "code" /\ Char(s.code) # SP
  <2>1. PICK o : o = Append(s.out, Char(s.code))
    OBVIOUS
  <2>2. Heard(s, X) = [out |-> o, code |-> <<>>, kind |-> "x"]
    BY <1>2, <2>1, Zenon DEF Heard
  <2>3. Heard(s, X).kind = "x"
    BY <2>2
  <2> QED
    BY <2>3
<1>3. CASE s.kind # "bad" /\ ~(s.kind = "code" /\ Char(s.code) # SP) /\ s.kind = "x"
  <2>1. PICK o : o = Append(s.out, SP)
    OBVIOUS
  <2>2. Heard(s, X) = [out |-> o, code |-> <<>>, kind |-> "xx"]
    BY <1>3, <2>1, Zenon DEF Heard
  <2>3. Heard(s, X).kind = "xx"
    BY <2>2
  <2> QED
    BY <2>3
<1>4. CASE s.kind # "bad" /\ ~(s.kind = "code" /\ Char(s.code) # SP) /\ s.kind # "x"
  <2>1. Heard(s, X) = [out |-> s.out, code |-> <<>>, kind |-> "bad"]
    BY <1>4, Zenon DEF Heard
  <2>2. Heard(s, X).kind = "bad"
    BY <2>1
  <2> QED
    BY <2>2
<1> QED
  BY <1>1, <1>2, <1>3, <1>4, Zenon

\* A receiver who has printed everything starts from what was heard.
LEMMA StartAgain ==
  ASSUME NEW d, NEW h \in HearState, AllTold(d, h), h.kind # "code"
  PROVE  Start(d) = h
<1>1. Paused(h) /\ d.out = h.out /\ d.lastCharWasX = (h.kind = "x")
  BY Zenon DEF AllTold
<1>2. h.code = <<>> /\ (h.kind = "x" \/ h.kind = "xx")
  BY <1>1, Zenon DEF Paused
<1>3. PICK k : k = IF d.lastCharWasX THEN "x" ELSE "xx"
  OBVIOUS
<1>4. k = h.kind
  BY <1>1, <1>2, <1>3
<1>5. HeardFields(h, d.out, <<>>, k)
  BY <1>1, <1>2, <1>4, Zenon DEF HeardFields
<1>6. h = [out |-> d.out, code |-> <<>>, kind |-> k]
  BY <1>5, HeardSame, Zenon
<1> QED
  BY <1>3, <1>6, Zenon DEF Start

\* When a letter is received, its three symbols are heard.
LEMMA FedStep ==
  ASSUME NEW key, IsKey(key), NEW s, NEW h \in HearState, Fed(s, h),
         NEW a1 \in Sym, NEW a2 \in Sym, NEW a3 \in Sym, ~(a1 = X /\ a2 = X /\ a3 = X),
         NEW g, g = Heard(Heard(Heard(h, a1), a2), a3), g.kind # "bad",
         NEW c, c = key[Three(a1, a2, a3)]
  PROVE  Fed(Received(s, c, key), g)
<1>1. PICK n \in 1 .. KeySize : n = Three(a1, a2, a3) /\ M!Symbols(n) = <<a1, a2, a3>>
  BY ThreeBack, Zenon
<1>2. PlaceOf(key, c) = n /\ c \in KeyLetters
  BY <1>1, KeyPlaces, Zenon
<1>3. n # 0 /\ c # 10 /\ M!EOF # 10
  <2>1. c # 10
    BY <1>2 DEF KeyLetters
  <2> QED
    BY <2>1 DEF KeySize, M!EOF
<1>4. s \in Receiver /\ s.state # "lost" /\ Listen(Start(s), s.buffer) = h
  BY Zenon DEF Fed
<1>5. PICK l \in Receiver : l = With(s, n) /\ l.state = "good"
  BY <1>1, <1>4, WithType, Zenon
<1>6. Ready(s, c) = s
  BY <1>3, Zenon DEF Ready
<1>7. PICK d : d = Received(s, c, key)
  OBVIOUS
<1>8. d = M!decryptMorseCode(s, c, M!EOF, key)
  BY <1>4, <1>6, <1>7, Zenon DEF Received
<1>9. DecryptCase(s, c, M!EOF, key, d)
  BY <1>8, DecryptByCase, Zenon
<1>10. Triplet(s.buffer, a1, a2, a3)
  <2>1. s.buffer \in Seq(Sym)
    BY <1>4 DEF Receiver
  <2> QED
    BY <2>1, TripletIs, Zenon
<1>11. d = IF a3 = X THEN M!secondDecryption(l) ELSE l
  <2>1. Last(M!Symbols(n)) = a3
    BY <1>1, <1>10, Zenon DEF Triplet
  <2> QED
    BY <1>2, <1>3, <1>5, <1>9, <2>1, Zenon DEF DecryptCase
<1>12. ReceiverHas(l, s.buffer \o <<a1, a2, a3>>, s.out, s.lastCharWasX, "good")
  BY <1>1, <1>5, ReceiverRecord, Zenon DEF With
<1>13. PICK b : b = l.buffer /\ b = s.buffer \o <<a1, a2, a3>>
  BY <1>12, Zenon DEF ReceiverHas
<1>14. Start(l) = Start(s)
  BY <1>12, Zenon DEF ReceiverHas, Start
<1>15. Listen(Start(s), b) = g
  <2>1. PICK z \in HearState : z = Start(s)
    <3>1. s.out \in Seq(Ascii)
      BY <1>4 DEF Receiver
    <3> QED
      BY <3>1, StartType, Zenon
  <2>2. PICK b0 \in Seq(Sym) : b0 = s.buffer
    BY <1>4 DEF Receiver
  <2>3. PICK b1 \in Seq(Sym) : b1 = Append(b0, a1)
    BY <2>2, AppendProperties
  <2>4. PICK b2 \in Seq(Sym) : b2 = Append(b1, a2)
    BY <2>3, AppendProperties
  <2>5. b = Append(b2, a3)
    BY <1>10, <1>13, <2>2, <2>3, <2>4, Zenon DEF Triplet
  <2>6. ListensOn(z, b0, a1) /\ ListensOn(z, b1, a2) /\ ListensOn(z, b2, a3)
    BY ListenAppend, Zenon
  <2> QED
    BY <1>4, <2>1, <2>2, <2>3, <2>4, <2>5, <2>6, Zenon DEF ListensOn
<1>16. Len(b) >= 3 /\ Last(b) = a3 /\ Len(b) >= 2
  <2>1. s.buffer \in Seq(Sym)
    BY <1>4 DEF Receiver
  <2>2. Len(s.buffer) \in Nat
    BY <2>1, LenProperties
  <2>3. Len(b) = Len(s.buffer) + 3 /\ Last(b) = a3
    BY <1>10, <1>13, Zenon DEF Triplet
  <2> QED
    BY <2>2, <2>3
<1>17. CASE a3 # X
  <2>1. d = l /\ d.state # "lost"
    BY <1>5, <1>11, <1>17
  <2> QED
    BY <1>5, <1>7, <1>13, <1>14, <1>15, <1>16, <1>17, <2>1, Zenon DEF Fed
<1>18. CASE a3 = X
  <2>1. PICK g2 : g2 = Heard(Heard(h, a1), a2) /\ g = Heard(g2, X)
    BY <1>18, Zenon
  <2>2. g.kind # "code"
    BY <2>1, HeardX, Zenon
  <2>3. Sense(g)
    BY <2>2, Zenon DEF Sense
  <2>4. Said(d, g)
    BY <1>5, <1>11, <1>13, <1>14, <1>15, <1>16, <1>18, <2>3, SecondDecryption, Zenon
  <2>5. Emptied(d)
    BY <1>5, <1>11, <1>18, SecondType, Zenon
  <2>6. d \in Receiver /\ d.buffer = <<>> /\ d.state = "good" /\ AllTold(d, g)
    BY <2>4, <2>5, Zenon DEF Said, Emptied
  <2>7. g \in HearState
    <3>1. Heard(h, a1) \in HearState
      BY HeardType, Zenon
    <3>2. Heard(Heard(h, a1), a2) \in HearState
      BY <3>1, HeardType, Zenon
    <3> QED
      BY <3>2, HeardType, Zenon
  <2>8. Start(d) = g
    BY <2>2, <2>6, <2>7, StartAgain, Zenon
  <2>9. Listen(Start(d), d.buffer) = g
    BY <2>6, <2>7, <2>8, ListenEmpty, Zenon
  <2>10. d.state # "lost"
    BY <2>6
  <2> QED
    BY <1>7, <2>6, <2>9, <2>10, Zenon DEF Fed
<1> QED
  BY <1>17, <1>18, Zenon

\* The whole triples of b are heard when the letters for them are received.
LEMMA Feed ==
  ASSUME NEW key, IsKey(key), NEW d, NEW h \in HearState, Fed(d, h),
         NEW b \in Seq(Sym), NoThree(b), NEW n \in Nat, n = Len(b),
         NEW q, HeardAlong(q, h, b, n), q[n].kind # "bad"
  PROVE  M!secondEncryption(b, key) \in Seq(Ascii)
         /\ Fed(Takes(d, M!secondEncryption(b, key), key), q[3 * (n \div 3)])
<1>1. PICK w \in Seq(KeyLetters) : w = M!secondEncryption(b, key) /\ LettersOf(b, key, w)
  BY SecondEncryptionIs, Zenon DEF LettersOf
<1>2. w \in Seq(Ascii)
  <2>1. KeyLetters \subseteq Ascii
    BY DEF KeyLetters, Ascii
  <2> QED
    BY <2>1, SeqInLarger, Zenon
<1>3. PICK m \in Nat : m = n \div 3 /\ 3 * m <= n
  <2>1. n \div 3 \in Nat /\ 3 * (n \div 3) <= n
    BY SMT
  <2> QED
    BY <2>1, Zenon
<1>4. Len(w) = m
  BY <1>1, <1>3, Zenon DEF LettersOf
<1>5. PICK step \in [Ascii -> [Receiver -> Receiver]] : step = Receive(key)
  BY ReceiveType, Zenon
<1>6. d \in Receiver
  BY Zenon DEF Fed
<1>7. PICK g : g = Steps(step, w)
  OBVIOUS
<1>8. PICK r : r \in Runs(Receiver, Len(w), d, g)
  BY <1>2, <1>5, <1>6, <1>7, StepsType, Zenon
<1>9. EndsAt(Receiver, d, step, w, r)
  BY <1>2, <1>5, <1>6, <1>7, <1>8, FoldOfRun, Zenon
<1>10. r \in [0 .. m -> Receiver] /\ r[0] = d /\ \A k \in 1 .. m : r[k] = g[k][r[k - 1]]
  BY <1>4, <1>8 DEF Runs
<1>11. \A k \in 1 .. m : w[k] \in Ascii /\ r[k] = Received(r[k - 1], w[k], key)
  <2> TAKE k \in 1 .. m
  <2>1. r[k - 1] \in Receiver
    BY <1>10
  <2>2. w[k] \in Ascii
    BY <1>2, <1>4, ElementOfSeq
  <2>3. g[k] = step[w[k]]
    BY <1>4, <1>7, Zenon DEF Steps
  <2> QED
    BY <1>5, <1>10, <2>1, <2>2, <2>3, Zenon DEF Receive
<1>12. Takes(d, w, key) = r[m]
  BY <1>4, <1>5, <1>9, Zenon DEF EndsAt, Takes
<1>13. q[0] = h /\ (\A k \in 1 .. n : q[k] = Heard(q[k - 1], b[k]))
       /\ (\A k \in 0 .. n : q[k] \in HearState) /\ \A k \in 0 .. n : q[k].kind # "bad"
  <2>1. Listen(h, b) = q[n]
    BY Zenon DEF HeardAlong
  <2> QED
    BY <2>1, Zenon DEF HeardAlong
<1> DEFINE K == {j \in 0 .. m : Fed(r[j], q[3 * j])}
<1>14. 0 \in K
  <2>1. 3 * 0 = 0 /\ 0 \in 0 .. m
    OBVIOUS
  <2> QED
    BY <1>10, <1>13, <2>1, Zenon
<1>15. ASSUME NEW i \in 0 .. m - 1 PROVE i \in K => i + 1 \in K
  <2> HAVE i \in K
  <2>1. PICK j \in 1 .. m : j = i + 1 /\ j - 1 = i /\ j \in 0 .. m
    OBVIOUS
  <2>2. PICK k1, k2, k3 : k1 = (3 * j) - 2 /\ k2 = (3 * j) - 1 /\ k3 = 3 * j
    OBVIOUS
  <2>3. k1 \in 1 .. n /\ k2 \in 1 .. n /\ k3 \in 1 .. n /\ k1 - 1 = 3 * i /\ k2 - 1 = k1 /\ k3 - 1 = k2
        /\ 3 * i \in 0 .. n /\ k3 \in 0 .. n /\ k1 \in 1 .. n - 2 /\ k1 + 1 = k2 /\ k1 + 2 = k3
    BY ONLY <1>3, <2>1, <2>2, m \in Nat, n \in Nat, i \in 0 .. m - 1, j \in 1 .. m, SMT
  <2>4. PICK a1 \in Sym, a2 \in Sym, a3 \in Sym : a1 = b[k1] /\ a2 = b[k2] /\ a3 = b[k3]
    <3>1. \A k \in 1 .. n : b[k] \in Sym
      BY ElementOfSeq
    <3> QED
      BY <2>3, <3>1, Zenon
  <2>5. ~(a1 = X /\ a2 = X /\ a3 = X)
    BY <2>3, <2>4, Zenon DEF NoThree
  <2>6. w[j] = key[Three(a1, a2, a3)]
    BY <1>1, <1>3, <2>2, <2>4, Zenon DEF LettersOf
  <2>7. q[k3] = Heard(Heard(Heard(q[3 * i], a1), a2), a3)
    BY <1>13, <2>3, <2>4, Zenon
  <2>8. Fed(r[i], q[3 * i]) /\ q[3 * i] \in HearState /\ q[k3].kind # "bad"
    BY <1>13, <2>3, Zenon
  <2>9. Fed(Received(r[i], w[j], key), q[k3])
    BY <2>5, <2>6, <2>7, <2>8, FedStep, Zenon
  <2>10. Fed(r[j], q[3 * j])
    BY <1>11, <2>1, <2>2, <2>9, Zenon
  <2> QED
    BY <2>1, <2>10, Zenon
<1>16. Fed(r[m], q[3 * m])
  <2> HIDE DEF K
  <2>1. \A j \in 0 .. m : j \in K
    BY <1>14, <1>15, InductionUpTo, Zenon
  <2>2. m \in K
    BY <2>1
  <2> QED
    BY <2>2, Zenon DEF K
<1> QED
  BY <1>1, <1>2, <1>3, <1>12, <1>16, Zenon

-----------------------------------------------------------------------------
(* Runs of spaces *)

\* What is left of t when c comes behind it.
Dropped(t, n, c, i) == t[i] = 32 /\ (IF i < n THEN t[i + 1] ELSE c) \in {32, 10}
Pieces(t, n, c) == [i \in 1 .. n |-> IF Dropped(t, n, c, i) THEN <<>> ELSE <<t[i]>>]
Squashed(t, c) == FlattenSeq(Pieces(t, Len(t), c))

\* The text itself has nothing behind it.
LEMMA SqueezedIs ==
  ASSUME NEW t \in Seq(Ascii)
  PROVE  Squeezed(t) = Squashed(t, 0)
<1>1. PICK n \in Nat : n = Len(t) /\ DOMAIN t = 1 .. n
  BY LenProperties
<1>2. \A i \in 1 .. n : (t[i] = 32 /\ i < n /\ t[i + 1] \in {32, 10}) <=> Dropped(t, n, 0, i)
  <2>1. 0 \notin {32, 10}
    OBVIOUS
  <2> QED
    BY <2>1, Zenon DEF Dropped
<1>3. [i \in 1 .. n |-> IF t[i] = 32 /\ i < n /\ t[i + 1] \in {32, 10} THEN <<>> ELSE <<t[i]>>]
        = Pieces(t, n, 0)
  BY <1>2, Zenon DEF Pieces
<1> QED
  BY <1>1, <1>3, Zenon DEF Squeezed, Squashed

\* A piece for every character.
LEMMA PiecesType ==
  ASSUME NEW t \in Seq(Ascii), NEW n \in Nat, n = Len(t), NEW c
  PROVE  Pieces(t, n, c) \in Seq(Seq(Ascii)) /\ Len(Pieces(t, n, c)) = n
<1>1. \A i \in 1 .. n : t[i] \in Ascii
  BY ElementOfSeq
<1>2. \A a \in Ascii : <<a>> \in Seq(Ascii)
  OBVIOUS
<1>3. <<>> \in Seq(Ascii)
  BY EmptySeq
<1>4. Pieces(t, n, c) \in [1 .. n -> Seq(Ascii)]
  BY <1>1, <1>2, <1>3, Zenon DEF Pieces
<1> QED
  BY ONLY <1>4, n \in Nat, SMT

SquashedMore(t, a, c) ==
  Squashed(Append(t, a), c)
    = IF a = 32 /\ c \in {32, 10} THEN Squashed(t, a) ELSE Append(Squashed(t, a), a)

\* What is left of a text is a text.
LEMMA SquashedType ==
  ASSUME NEW t \in Seq(Ascii), NEW c
  PROVE  Squashed(t, c) \in Seq(Ascii)
<1>1. PICK n \in Nat : n = Len(t)
  BY LenProperties
<1> QED
  BY <1>1, PiecesType, FlattenType, Zenon DEF Squashed

\* Of nothing, nothing.
LEMMA SquashedEmpty == \A c : Squashed(<<>>, c) = <<>>
<1> TAKE c
<1>1. <<>> \in Seq(Ascii) /\ Len(<<>>) = 0
  BY EmptySeq
<1>2. Pieces(<<>>, 0, c) \in Seq(Seq(Ascii)) /\ Len(Pieces(<<>>, 0, c)) = 0
  BY <1>1, PiecesType
<1>3. Pieces(<<>>, 0, c) = <<>>
  BY <1>2, EmptySeq
<1> QED
  BY <1>1, <1>3, FlattenEmpty, Zenon DEF Squashed

\* Only a space at the end depends on what comes behind it.
LEMMA SquashedAppend ==
  ASSUME NEW t \in Seq(Ascii), NEW a \in Ascii, NEW c
  PROVE  SquashedMore(t, a, c)
<1>1. PICK n \in Nat : n = Len(t)
  BY LenProperties
<1>2. PICK s : s = Append(t, a) /\ Appended(s, t, a, n, Ascii)
  BY <1>1, AppendedIs, Zenon
<1>3. s \in Seq(Ascii) /\ Len(s) = n + 1 /\ s[n + 1] = a
  BY <1>2, Zenon DEF Appended
<1>4. \A i \in 1 .. n : s[i] = t[i]
  BY <1>2, Zenon DEF Appended
<1>5. PICK e \in Seq(Ascii) : e = IF a = 32 /\ c \in {32, 10} THEN <<>> ELSE <<a>>
  <2>1. <<>> \in Seq(Ascii)
    BY EmptySeq
  <2>2. <<a>> \in Seq(Ascii)
    OBVIOUS
  <2> QED
    BY <2>1, <2>2, Zenon
<1>6. PICK k \in Nat : k = n + 1
  OBVIOUS
<1>7. PICK p \in Seq(Seq(Ascii)) : p = Pieces(t, n, a) /\ Len(p) = n
  BY <1>1, PiecesType, Zenon
<1>8. PICK r \in Seq(Seq(Ascii)) : r = Pieces(s, k, c) /\ Len(r) = k
  BY <1>3, <1>6, PiecesType, Zenon
<1>9. Appended(Append(p, e), p, e, n, Seq(Ascii))
  BY <1>5, <1>7, AppendedIs, Zenon
<1>10. PICK z \in Seq(Seq(Ascii)) : z = Append(p, e) /\ Len(z) = n + 1 /\ z[n + 1] = e
                                   /\ \A i \in 1 .. n : z[i] = p[i]
  BY <1>9, Zenon DEF Appended
<1>11. \A i \in 1 .. n : r[i] = p[i]
  <2> TAKE i \in 1 .. n
  <2>1. i \in 1 .. k /\ i < k /\ (i < n => i + 1 \in 1 .. n) /\ (~(i < n) => i + 1 = n + 1)
    BY <1>6
  <2>2. s[i] = t[i]
    BY <1>4, Zenon
  <2>3. s[i + 1] = IF i < n THEN t[i + 1] ELSE a
    BY <1>3, <1>4, <2>1, Zenon
  <2>4. Dropped(s, k, c, i) <=> Dropped(t, n, a, i)
    BY <2>1, <2>2, <2>3, Zenon DEF Dropped
  <2>5. r[i] = IF Dropped(s, k, c, i) THEN <<>> ELSE <<s[i]>>
    BY <1>8, <2>1, Zenon DEF Pieces
  <2>6. p[i] = IF Dropped(t, n, a, i) THEN <<>> ELSE <<t[i]>>
    BY <1>7, Zenon DEF Pieces
  <2> QED
    BY <2>2, <2>4, <2>5, <2>6, Zenon
<1>12. r[n + 1] = e
  <2>1. k \in 1 .. k /\ ~(k < k)
    BY <1>6
  <2>2. r[k] = IF Dropped(s, k, c, k) THEN <<>> ELSE <<s[k]>>
    BY <1>8, <2>1, Zenon DEF Pieces
  <2>3. s[k] = a
    BY <1>3, <1>6, Zenon
  <2>4. Dropped(s, k, c, k) <=> a = 32 /\ c \in {32, 10}
    BY <2>1, <2>3, Zenon DEF Dropped
  <2> QED
    BY <1>5, <1>6, <2>2, <2>3, <2>4, Zenon
<1>13. r = z
  <2>1. \A i \in 1 .. k : i \in 1 .. n \/ i = n + 1
    BY <1>6
  <2>2. \A i \in 1 .. k : r[i] = z[i]
    BY <1>10, <1>11, <1>12, <2>1, Zenon
  <2>3. Len(r) = Len(z) /\ Len(r) = k
    BY <1>6, <1>8, <1>10, Zenon
  <2> QED
    BY <2>2, <2>3, SeqEqual, Zenon
<1>14. FlattenSeq(z) = FlattenSeq(p) \o e
  BY <1>5, <1>7, <1>10, FlattenAppend, Zenon
<1>15. PICK f \in Seq(Ascii) : f = Squashed(t, a) /\ f = FlattenSeq(p)
  BY <1>1, <1>7, SquashedType, Zenon DEF Squashed
<1>16. Squashed(s, c) = f \o e
  BY <1>3, <1>6, <1>8, <1>13, <1>14, <1>15, Zenon DEF Squashed
<1>17. f \o <<>> = f
  BY ConcatEmptySeq
<1>18. Longer(f, a, Ascii)
  BY Lengthen, Zenon
<1> QED
  BY <1>2, <1>5, <1>15, <1>16, <1>17, <1>18, Zenon DEF SquashedMore, Longer

\* Two texts that are the same but for runs of spaces.
Alike(p, u) == \A c : Squashed(p, c) = Squashed(u, c)

\* A space behind a space changes nothing, one before a newline neither.
LEMMA AlikeMore ==
  ASSUME NEW p \in Seq(Ascii), NEW u \in Seq(Ascii), Alike(p, u), NEW a \in Ascii
  PROVE  Alike(Append(p, a), Append(u, a))
<1>1. \A c : SquashedMore(p, a, c) /\ SquashedMore(u, a, c)
  BY SquashedAppend, Zenon
<1> QED
  BY <1>1, Zenon DEF SquashedMore, Alike

\* A space behind a space may be left out.
LEMMA AlikeSpace ==
  ASSUME NEW p \in Seq(Ascii), NEW s, s = Append(p, 32), NEW u, Alike(s, u)
  PROVE  Alike(Append(s, 32), u)
<1>1. 32 \in Ascii /\ 32 \in {32, 10}
  BY DEF Ascii
<1>2. s \in Seq(Ascii)
  BY <1>1, AppendProperties
<1>3. \A c : SquashedMore(p, 32, c) /\ SquashedMore(s, 32, c)
  BY <1>1, <1>2, SquashedAppend, Zenon
<1>4. \A c : Squashed(Append(s, 32), c) = Squashed(s, c)
  BY <1>1, <1>3, Zenon DEF SquashedMore
<1> QED
  BY <1>4, Zenon DEF Alike

\* What is left is the same before a space and before a newline.
LEMMA SpaceOrLine ==
  ASSUME NEW u \in Seq(Ascii)
  PROVE  Squashed(u, 32) = Squashed(u, 10)
<1>1. PICK n : n = Len(u)
  OBVIOUS
<1>2. \A i : Dropped(u, n, 32, i) <=> Dropped(u, n, 10, i)
  BY Zenon DEF Dropped
<1>3. Pieces(u, n, 32) = Pieces(u, n, 10)
  BY <1>2, Zenon DEF Pieces
<1> QED
  BY <1>1, <1>3, Zenon DEF Squashed

\* A space before a newline may be added.
LEMMA AlikeLine ==
  ASSUME NEW p \in Seq(Ascii), NEW u \in Seq(Ascii), Alike(p, u)
  PROVE  Alike(Append(p, 10), Append(Append(u, 32), 10))
<1>1. 32 \in Ascii /\ 10 \in Ascii /\ 10 # 32 /\ 10 \in {32, 10}
  BY DEF Ascii
<1>2. Append(u, 32) \in Seq(Ascii)
  BY <1>1, AppendProperties
<1>3. SquashedMore(u, 32, 10)
  BY <1>1, SquashedAppend, Zenon
<1>4. Squashed(Append(u, 32), 10) = Squashed(p, 10)
  BY <1>1, <1>3, SpaceOrLine, Zenon DEF SquashedMore, Alike
<1>5. \A c : SquashedMore(p, 10, c) /\ SquashedMore(Append(u, 32), 10, c)
  BY <1>1, <1>2, SquashedAppend, Zenon
<1> QED
  BY <1>1, <1>4, <1>5, Zenon DEF SquashedMore, Alike

\* Such texts are squeezed to the same.
LEMMA AlikeSqueezed ==
  ASSUME NEW p \in Seq(Ascii), NEW u \in Seq(Ascii), Alike(p, u)
  PROVE  Squeezed(p) = Squeezed(u)
  BY SqueezedIs, Zenon DEF Alike

-----------------------------------------------------------------------------
(* Sender and receiver in step *)

HeardThat(u, k) == [out |-> u, code |-> <<>>, kind |-> k]

\* What the last character that was sent says of the two: at the beginning of
\* a line, behind a space, and behind a letter.
Stands(p, e, d, k) ==
  IF p = <<>> \/ Last(p) = 10 THEN e.buffer = <<>> /\ d.buffer = <<>>
  ELSE IF Last(p) = 32
  THEN e.state = "good" /\ Len(e.buffer) >= 2 /\ ~Letterlike(e.buffer) /\ k = "xx"
  ELSE e.state = "good" /\ Letterlike(e.buffer) /\ k = "x"

\* The dots and dashes of a letter, between two letters.
LEMMA CodeHeard ==
  ASSUME NEW u \in Seq(Ascii), NEW k \in {"x", "xx"}
  PROVE  \A code \in Seq(Bits) : code # <<>> =>
           HeardFields(Listen(HeardThat(u, k), code), u, code, "code")
<1>1. PICK s \in HearState : s = HeardThat(u, k)
  <2>1. <<>> \in Seq(Bits) /\ k \in HearKinds
    BY EmptySeq DEF HearKinds
  <2> QED
    BY <2>1, HeardState, Zenon DEF HeardThat
<1>2. HeardFields(s, u, <<>>, k)
  BY <1>1, HeardRecord, Zenon DEF HeardThat
<1> DEFINE G == {code \in Seq(Bits) : code # <<>> => HeardFields(Listen(s, code), u, code, "code")}
<1>3. <<>> \in G
  BY EmptySeq
<1>4. ASSUME NEW code \in G, NEW a \in Bits PROVE Append(code, a) \in G
  <2>1. PICK c2 \in Seq(Bits) : c2 = Append(code, a)
    BY AppendProperties
  <2>2. code \in Seq(Sym) /\ a \in Sym /\ a # X
    <3>1. Bits \subseteq Sym
      BY DEF Bits, Sym
    <3>2. a # X
      BY DEF Bits, X
    <3> QED
      BY <3>1, <3>2, SeqInLarger, Zenon
  <2>3. PICK z : z = Listen(s, code)
    OBVIOUS
  <2>4. ListensOn(s, code, a)
    BY <2>2, ListenAppend, Zenon
  <2>5. Listen(s, c2) = Heard(z, a)
    BY <2>1, <2>3, <2>4, Zenon DEF ListensOn
  <2>6. z.out = u /\ z.code = code /\ z.kind # "bad"
    <3>1. CASE code = <<>>
      <4>1. z = s
        BY <2>3, <3>1, ListenEmpty, Zenon
      <4> QED
        BY <1>2, <3>1, <4>1 DEF HeardFields
    <3>2. CASE code # <<>>
      <4>1. HeardFields(z, u, code, "code")
        BY <2>3, <3>2, Zenon
      <4> QED
        BY <4>1 DEF HeardFields
    <3> QED
      BY <3>1, <3>2
  <2>7. HeardFields(Heard(z, a), z.out, Append(z.code, a), "code")
    BY <2>2, <2>6, HeardBit, Zenon
  <2>8. HeardFields(Listen(s, c2), u, c2, "code")
    BY <2>1, <2>5, <2>6, <2>7, Zenon
  <2> QED
    BY <2>1, <2>8, Zenon
<1>5. G \in SUBSET Seq(Bits)
  OBVIOUS
<1> HIDE DEF G
<1>6. G = Seq(Bits)
  BY <1>3, <1>4, <1>5, SeqInduction, Zenon
<1> QED
  BY <1>1, <1>6, Zenon DEF G

\* A letter and its x.
LEMMA LetterHeard ==
  ASSUME NEW u \in Seq(Ascii), NEW k \in {"x", "xx"}, NEW c \in Ascii, Coded(c)
  PROVE  Listen(HeardThat(u, k), M!Code(c) \o <<X>>) = HeardThat(Append(u, c), "x")
<1>1. PICK code \in Seq(Bits) : code = M!Code(c) /\ code # <<>> /\ Char(code) = c /\ c # SP
  <2>1. c # SP
    <3>1. c \in 33 .. 122
      BY CodedChar, Zenon
    <3> QED
      BY <3>1 DEF SP
  <2> QED
    BY <2>1, CodedChar, Zenon DEF Coded
<1>2. PICK s \in HearState : s = HeardThat(u, k)
  <2>1. <<>> \in Seq(Bits) /\ k \in HearKinds
    BY EmptySeq DEF HearKinds
  <2> QED
    BY <2>1, HeardState, Zenon DEF HeardThat
<1>3. PICK z : z = Listen(s, code)
  OBVIOUS
<1>4. z.out = u /\ z.code = code /\ z.kind = "code"
  <2>1. \A b \in Seq(Bits) : b # <<>> => HeardFields(Listen(HeardThat(u, k), b), u, b, "code")
    BY CodeHeard, Zenon
  <2>2. HeardFields(z, u, code, "code")
    BY <1>1, <1>2, <1>3, <2>1, Zenon
  <2> QED
    BY <2>2, Zenon DEF HeardFields
<1>5. code \in Seq(Sym) /\ X \in Sym
  <2>1. Bits \subseteq Sym /\ X \in Sym
    BY DEF Bits, Sym, X
  <2> QED
    BY <2>1, SeqInLarger, Zenon
<1>6. ListensOn(s, code, X)
  BY <1>5, ListenAppend, Zenon
<1>7. Append(code, X) = code \o <<X>>
  BY <1>5, AppendIsConcat, Zenon
<1>8. Listen(s, code \o <<X>>) = Heard(z, X)
  BY <1>3, <1>6, <1>7, Zenon DEF ListensOn
<1>9. z.kind # "bad"
  BY <1>4
<1>10. Heard(z, X) = [out |-> Append(u, c), code |-> <<>>, kind |-> "x"]
  BY <1>1, <1>4, <1>9, Zenon DEF Heard
<1> QED
  BY <1>1, <1>2, <1>8, <1>10, Zenon DEF HeardThat

\* A second x.
LEMMA SpaceHeard ==
  \A u : Heard(HeardThat(u, "x"), X) = HeardThat(Append(u, 32), "xx")
<1> TAKE u
<1>1. PICK s : s = HeardThat(u, "x")
  OBVIOUS
<1>2. s.out = u /\ s.kind = "x"
  BY <1>1, HeardRecord, Zenon DEF HeardThat, HeardFields
<1>3. s.kind # "bad" /\ s.kind # "code"
  BY <1>2
<1>4. Heard(s, X) = [out |-> Append(u, 32), code |-> <<>>, kind |-> "xx"]
  BY <1>2, <1>3, Zenon DEF Heard, SP
<1> QED
  BY <1>1, <1>4, Zenon DEF HeardThat

\* What was heard before the last x of a letter.
LEMMA BeforeX ==
  ASSUME NEW g, NEW u, Heard(g, X) = HeardThat(u, "x")
  PROVE  g.kind = "code" /\ Char(g.code) # SP /\ u = Append(g.out, Char(g.code))
<1>a. PICK z : z = Heard(g, X)
  OBVIOUS
<1>b. z = [out |-> u, code |-> <<>>, kind |-> "x"]
  BY <1>a, Zenon DEF HeardThat
<1>c. HeardFields(z, u, <<>>, "x")
  BY <1>b, HeardRecord, Zenon
<1>1. z = Heard(g, X) /\ z.out = u /\ z.kind = "x" /\ z.code = <<>>
  BY <1>a, <1>c, Zenon DEF HeardFields
<1>2. g.kind # "bad"
  <2>1. g.kind = "bad" => z = g
    BY <1>1, Zenon DEF Heard
  <2> QED
    BY <1>1, <2>1
<1>3. CASE g.kind = "code" /\ Char(g.code) # SP
  <2>a. PICK o : o = Append(g.out, Char(g.code))
    OBVIOUS
  <2>1. z = [out |-> o, code |-> <<>>, kind |-> "x"]
    BY <1>1, <1>2, <1>3, <2>a, Zenon DEF Heard
  <2>b. HeardFields(z, o, <<>>, "x")
    BY <2>1, HeardRecord, Zenon
  <2>2. z.out = Append(g.out, Char(g.code))
    BY <2>a, <2>b, Zenon DEF HeardFields
  <2> QED
    BY <1>1, <1>3, <2>2, Zenon
<1>4. CASE ~(g.kind = "code" /\ Char(g.code) # SP)
  <2>1. z = [out |-> Append(g.out, SP), code |-> <<>>, kind |-> "xx"]
        \/ z = [out |-> g.out, code |-> <<>>, kind |-> "bad"]
    BY <1>1, <1>2, <1>4, Zenon DEF Heard
  <2>a. PICK o, q : o = Append(g.out, SP) /\ q = g.out
    OBVIOUS
  <2>b. HeardFields(z, o, <<>>, "xx") \/ HeardFields(z, q, <<>>, "bad")
    BY <2>1, <2>a, HeardRecord, Zenon
  <2>2. z.kind = "xx" \/ z.kind = "bad"
    BY <2>b, Zenon DEF HeardFields
  <2> QED
    BY <1>1, <2>2
<1> QED
  BY <1>3, <1>4, Zenon

\* A receiver d who has heard h, the sender e, and what the two make of the
\* text p: when what e holds back is heard, u is.
Follows(p, u, e, d, h, k) ==
  Fed(d, h) /\ Listen(h, e.buffer) = HeardThat(u, k) /\ Stands(p, e, d, k)

\* p is sent as u is, and heard as u.
SentAs(p, e, key) == \A stray : Sends(EncBegin, p, key, stray) = e
InStep(p, u, e, key) ==
  /\ p \in Seq(Ascii) /\ u \in Seq(Ascii) /\ e \in Sender /\ ~Bad(e)
  /\ SentAs(p, e, key) /\ SentAs(u, e, key) /\ Alike(p, u)
  /\ \E h \in HearState : \E k \in {"x", "xx"} :
       Follows(p, u, e, Takes(DecBegin, e.out, key), h, k)

\* It stays so when one character more is sent.
LEMMA SentAsMore ==
  ASSUME NEW key, IsKey(key), NEW p \in Seq(Ascii), NEW e, SentAs(p, e, key), NEW c \in Ascii,
         NEW e2, \A stray : Sent(e, c, key, stray) = e2
  PROVE  SentAs(Append(p, c), e2, key)
<1>1. EncBegin \in Sender
  BY EncBeginType
<1>2. \A stray : SendsOn(EncBegin, p, c, key, stray)
  BY <1>1, SendsAppend, Zenon
<1> QED
  BY <1>2, Zenon DEF SentAs, SendsOn

\* A text that was heard to its end is a record of what was heard.
LEMMA HeardThatType ==
  ASSUME NEW u \in Seq(Ascii), NEW k \in {"x", "xx"}
  PROVE  HeardThat(u, k) \in HearState /\ HeardFields(HeardThat(u, k), u, <<>>, k)
         /\ HeardThat(u, k).kind # "bad"
<1>1. <<>> \in Seq(Bits) /\ k \in HearKinds
  BY EmptySeq DEF HearKinds
<1>2. HeardThat(u, k) \in HearState
  BY <1>1, HeardState, Zenon DEF HeardThat
<1>3. HeardFields(HeardThat(u, k), u, <<>>, k)
  BY HeardRecord, Zenon DEF HeardThat
<1>4. HeardThat(u, k).kind = k
  BY <1>3, Zenon DEF HeardFields
<1> QED
  BY <1>2, <1>3, <1>4

\* What a receiver has heard when he has received w more.
LEMMA TakesSent ==
  ASSUME NEW key, IsKey(key), NEW o \in Seq(Ascii), NEW d, d = Takes(DecBegin, o, key),
         NEW w \in Seq(Ascii)
  PROVE  Takes(DecBegin, o \o w, key) = Takes(d, w, key)
<1>1. DecBegin \in Receiver
  BY DecBeginType
<1>2. TakesMore(DecBegin, o, w, key)
  BY <1>1, TakesConcat, Zenon
<1> QED
  BY <1>2, Zenon DEF TakesMore

Flushes(e, h, h2, key) ==
  Fed(Takes(DecBegin, OutOf(e, key), key), h2) /\ Listen(h2, LeftOf(e)) = Listen(h, e.buffer)

\* What is printed when the buffer is whole is heard, and nothing gets lost.
LEMMA FlushWhole ==
  ASSUME NEW key, IsKey(key), NEW e \in Sender, NEW h \in HearState,
         Fed(Takes(DecBegin, e.out, key), h), Listen(h, e.buffer).kind # "bad"
  PROVE  \E h2 \in HearState : Flushes(e, h, h2, key)
<1>1. PICK b \in Seq(Sym) : b = e.buffer /\ NoThree(b) /\ e.out \in Seq(Ascii)
  BY SenderTypes, Zenon
<1>2. CASE ~WholeOf(b)
  BY <1>1, <1>2, Zenon DEF Flushes, OutOf, LeftOf
<1>3. CASE WholeOf(b)
  <2>1. PICK n \in Nat : n = Len(b)
    BY <1>1, LenProperties
  <2>2. 3 * (n \div 3) = n
    <3>1. n % 3 = 0
      BY <1>3, <2>1, Zenon DEF WholeOf
    <3> QED
      BY ONLY <3>1, n \in Nat, SMT
  <2>3. PICK q : HeardAlong(q, h, b, n)
    BY <2>1, HeardIsRun, Zenon
  <2>4. q[n] = Listen(h, b) /\ q[n] \in HearState
    <3>1. n \in 0 .. n
      BY <2>1
    <3> QED
      BY <2>3, <3>1, Zenon DEF HeardAlong
  <2>5. PICK d : d = Takes(DecBegin, e.out, key)
    OBVIOUS
  <2>6. PICK w \in Seq(Ascii) : w = M!secondEncryption(b, key) /\ Fed(Takes(d, w, key), q[n])
    <3>1. Fed(d, h) /\ q[n].kind # "bad"
      BY <1>1, <2>4, <2>5, Zenon
    <3>2. M!secondEncryption(b, key) \in Seq(Ascii)
          /\ Fed(Takes(d, M!secondEncryption(b, key), key), q[3 * (n \div 3)])
      BY <1>1, <2>1, <2>3, <3>1, Feed, Zenon
    <3> QED
      BY <2>2, <3>2, Zenon
  <2>7. Takes(DecBegin, e.out \o w, key) = Takes(d, w, key)
    BY <1>1, <2>5, <2>6, TakesSent, Zenon
  <2>8. OutOf(e, key) = e.out \o w /\ LeftOf(e) = <<>>
    BY <1>1, <1>3, <2>6, Zenon DEF OutOf, LeftOf
  <2>9. Listen(q[n], <<>>) = q[n]
    BY <2>4, ListenEmpty, Zenon
  <2> QED
    BY <1>1, <2>4, <2>6, <2>7, <2>8, <2>9, Zenon DEF Flushes
<1> QED
  BY <1>2, <1>3, Zenon

\* A letter more.
LEMMA LetterInStep ==
  ASSUME NEW key, IsKey(key), NEW p, NEW u, NEW e, InStep(p, u, e, key),
         NEW c \in Ascii, c # 32, c # 10, NEW e2, e2 = M!encryptMorseCode(e, c, M!EOF, key), ~Bad(e2)
  PROVE  InStep(Append(p, c), Append(u, c), e2, key)
<1>1. p \in Seq(Ascii) /\ u \in Seq(Ascii) /\ e \in Sender /\ ~Bad(e)
      /\ SentAs(p, e, key) /\ SentAs(u, e, key) /\ Alike(p, u)
  BY Zenon DEF InStep
<1>2. PICK h \in HearState, k \in {"x", "xx"} : Follows(p, u, e, Takes(DecBegin, e.out, key), h, k)
  BY Zenon DEF InStep
<1>3. Listen(h, e.buffer) = HeardThat(u, k) /\ Fed(Takes(DecBegin, e.out, key), h)
  BY <1>2, Zenon DEF Follows
<1>4. HeardThat(u, k).kind # "bad"
  BY <1>1, HeardThatType, Zenon
<1>5. PICK h2 \in HearState : Flushes(e, h, h2, key)
  BY <1>1, <1>3, <1>4, FlushWhole, Zenon
<1>6. EncryptCase(e, c, M!EOF, key, e2)
  BY EncryptByCase, Zenon
<1>7. PICK o, l : o = OutOf(e, key) /\ l = LeftOf(e) /\ o \in Seq(Ascii) /\ l \in Tame
  BY <1>1, OutLeftType, Zenon
<1>8. Coded(c)
  <2>1. CASE ~M!InTable(c)
    <3>1. e2 = [buffer |-> e.buffer, state |-> "lost", out |-> e.out]
      BY <1>6, <2>1, Zenon DEF EncryptCase
    <3>2. e2.state = "lost"
      BY <3>1
    <3> QED
      BY <3>2 DEF Bad
  <2>2. CASE M!InTable(c) /\ M!Code(c) = <<>>
    <3>1. e2 = [buffer |-> e.buffer, state |-> "failed", out |-> e.out]
      BY <1>6, <2>2, Zenon DEF EncryptCase
    <3>2. e2.state = "failed"
      BY <3>1
    <3> QED
      BY <3>2 DEF Bad
  <2> QED
    BY <2>1, <2>2, Zenon DEF Coded
<1>9. PICK code \in Seq(Bits) : code = M!Code(c) /\ code # <<>>
  BY <1>8, CodeType, Zenon DEF Coded
<1>10. PICK w : w = Spelt(l, code) /\ SpeltWell(l, code, w)
  BY <1>7, <1>9, SpeltIs, Zenon
<1>11. M!EOF # 10
  BY DEF M!EOF
<1>12. e2 = [buffer |-> w, state |-> "good", out |-> o]
  BY <1>6, <1>7, <1>8, <1>9, <1>10, <1>11, Zenon DEF EncryptCase, Coded
<1>13. SenderHas(e2, w, "good", o)
  BY <1>12, SenderRecord, Zenon
<1>14. e2.buffer = w /\ e2.state = "good" /\ e2.out = o
  BY <1>13, Zenon DEF SenderHas
<1>15. e2 \in Sender
  BY <1>1, EncryptCodeType, Zenon
<1>16. \A stray : Sent(e, c, key, stray) = e2
  BY <1>1, Zenon DEF Sent, Sooner
<1>17. PICK p2 \in Seq(Ascii) : p2 = Append(p, c)
  BY <1>1, AppendProperties
<1>18. PICK u2 \in Seq(Ascii) : u2 = Append(u, c)
  BY <1>1, AppendProperties
<1>19. SentAs(p2, e2, key) /\ SentAs(u2, e2, key)
  BY <1>1, <1>16, <1>17, <1>18, SentAsMore, Zenon
<1>20. Alike(p2, u2)
  BY <1>1, <1>17, <1>18, AlikeMore, Zenon
<1>21. Listen(h2, w) = HeardThat(u2, "x")
  <2>1. PICK t \in Seq(Sym) : t = code \o <<X>>
    <3>1. Bits \subseteq Sym /\ X \in Sym
      BY DEF Bits, Sym, X
    <3>2. code \in Seq(Sym)
      BY <3>1, SeqInLarger, Zenon
    <3>3. Longer(code, X, Sym)
      BY <3>1, <3>2, Lengthen, Zenon
    <3> QED
      BY <3>3, Zenon DEF Longer
  <2>2. l \in Seq(Sym)
    BY <1>7, Zenon DEF Tame
  <2>3. w = l \o t
    BY <1>10, <2>1, Zenon DEF SpeltWell
  <2>4. ListensTo(h2, l, t)
    BY <2>2, ListenConcat, Zenon
  <2>5. Listen(h2, l) = HeardThat(u, k)
    BY <1>3, <1>5, <1>7, Zenon DEF Flushes
  <2>6. Listen(HeardThat(u, k), t) = HeardThat(u2, "x")
    BY <1>1, <1>8, <1>9, <1>18, <2>1, LetterHeard, Zenon
  <2> QED
    BY <2>3, <2>4, <2>5, <2>6, Zenon DEF ListensTo
<1>22. PICK d : d = Takes(DecBegin, o, key) /\ Fed(d, h2)
  BY <1>5, <1>7, Zenon DEF Flushes
<1>23. p2 # <<>> /\ Last(p2) = c
  BY <1>1, <1>17, AppendProperties DEF Last
<1>24. Letterlike(w)
  BY <1>10, Zenon DEF SpeltWell, Letterlike
<1>25. Stands(p2, e2, d, "x")
  BY <1>14, <1>23, <1>24, Zenon DEF Stands
<1>26. Follows(p2, u2, e2, Takes(DecBegin, e2.out, key), h2, "x")
  BY <1>14, <1>21, <1>22, <1>25, Zenon DEF Follows
<1>27. "x" \in {"x", "xx"} /\ ~Bad(e2)
  OBVIOUS
<1> QED
  BY <1>15, <1>17, <1>18, <1>19, <1>20, <1>26, <1>27, Zenon DEF InStep

\* Behind a letter or its space no other memory is looked at.
LEMMA MarkedIs ==
  ASSUME NEW b \in Seq(Sym), Len(b) >= 2
  PROVE  \A stray : Marked(b, stray) <=> ~Letterlike(b)
<1>1. PICK n \in Nat : n = Len(b) /\ n >= 2
  BY LenProperties
<1>2. ~(n - 2 < 0) /\ (n - 2) + 1 = n - 1
  BY <1>1
<1> QED
  BY <1>1, <1>2, Zenon DEF Marked, Letterlike

\* The types, and what does not speak of the receiver.
LEMMA InStepFacts ==
  ASSUME NEW key, NEW p, NEW u, NEW e, InStep(p, u, e, key)
  PROVE  p \in Seq(Ascii) /\ u \in Seq(Ascii) /\ e \in Sender /\ ~Bad(e)
         /\ SentAs(p, e, key) /\ SentAs(u, e, key) /\ Alike(p, u)
         /\ e.buffer \in Tame /\ e.buffer \in Seq(Sym) /\ e.out \in Seq(Ascii)
  BY SenderTypes, Zenon DEF InStep

\* A space behind a space.
LEMMA SpaceAgain ==
  ASSUME NEW key, IsKey(key), NEW p, NEW u, NEW e, InStep(p, u, e, key),
         p # <<>>, Last(p) = 32
  PROVE  InStep(Append(p, 32), u, e, key)
<1>1. p \in Seq(Ascii) /\ u \in Seq(Ascii) /\ e \in Sender /\ ~Bad(e)
      /\ SentAs(p, e, key) /\ SentAs(u, e, key) /\ Alike(p, u)
      /\ e.buffer \in Tame /\ e.buffer \in Seq(Sym) /\ e.out \in Seq(Ascii)
  BY InStepFacts, Zenon
<1>2. PICK h \in HearState, k \in {"x", "xx"} : Follows(p, u, e, Takes(DecBegin, e.out, key), h, k)
  BY Zenon DEF InStep
<1>3. PICK d : d = Takes(DecBegin, e.out, key)
  OBVIOUS
<1>4. 32 # 10 /\ 32 \in Ascii
  BY DEF Ascii
<1>5. e.state = "good" /\ Len(e.buffer) >= 2 /\ ~Letterlike(e.buffer) /\ k = "xx"
  BY <1>2, <1>4, Zenon DEF Follows, Stands
<1>6. \A stray : M!encryptSpace(e, stray) = e
  <2> TAKE stray
  <2>1. Marked(e.buffer, stray)
    BY <1>1, <1>5, MarkedIs, Zenon
  <2>2. e.state # "start"
    BY <1>5
  <2>3. M!encryptSpace(e, stray) = [buffer |-> e.buffer, state |-> e.state, out |-> e.out]
    BY <2>1, <2>2, SpaceIs, Zenon DEF Spaced
  <2>4. e = [buffer |-> e.buffer, state |-> e.state, out |-> e.out]
    BY <1>1 DEF Sender
  <2> QED
    BY <2>3, <2>4, Zenon
<1>7. \A stray : Sent(e, 32, key, stray) = e
  BY <1>1, <1>6, Zenon DEF Sent
<1>8. PICK p2 \in Seq(Ascii) : p2 = Append(p, 32)
  BY <1>1, <1>4, AppendProperties
<1>9. SentAs(p2, e, key)
  BY <1>1, <1>4, <1>7, <1>8, SentAsMore, Zenon
<1>10. Alike(p2, u)
  <2>1. PICK p0 \in Seq(Ascii), a \in Ascii : p = Append(p0, a)
    BY <1>1, SequenceEmptyOrAppend, Zenon
  <2>2. Last(p) = a
    BY <2>1, AppendProperties DEF Last
  <2>3. p = Append(p0, 32)
    BY <2>1, <2>2, Zenon
  <2> QED
    BY <1>1, <1>8, <2>3, AlikeSpace, Zenon
<1>11. p2 # <<>> /\ Last(p2) = 32
  BY <1>1, <1>4, <1>8, AppendProperties DEF Last
<1>12. Follows(p2, u, e, d, h, k)
  BY <1>2, <1>3, <1>4, <1>5, <1>11, Zenon DEF Follows, Stands
<1> QED
  BY <1>1, <1>3, <1>8, <1>9, <1>10, <1>12, Zenon DEF InStep

\* A letter's buffer with a second x.
LetterSpace(b, w, n) ==
  /\ w = Append(b, X) /\ Appended(w, b, X, n, Sym) /\ w \in Tame /\ b[n] = X
  /\ Len(w) = n + 1 /\ n + 1 >= 2 /\ ~Letterlike(w)

\* It is so of Append.
LEMMA LetterSpaceIs ==
  ASSUME NEW b \in Tame, Letterlike(b), NEW n \in Nat, n = Len(b)
  PROVE  LetterSpace(b, Append(b, X), n)
<1>1. b \in Seq(Sym) /\ X \in Sym
  BY DEF Tame, X, Sym
<1>2. PICK w : w = Append(b, X) /\ Appended(w, b, X, n, Sym)
  BY <1>1, AppendedIs, Zenon
<1>3. n >= 2
  BY Zenon DEF Letterlike
<1>4. ~Marked(b, {})
  BY <1>1, <1>3, MarkedIs, Zenon
<1>5. w \in Tame
  BY <1>2, <1>4, SpaceTame, Zenon
<1>6. b[n] = X
  <2>1. b # <<>>
    BY <1>1, <1>3, EmptySeq
  <2> QED
    BY <2>1 DEF Tame, Last
<1>7. Len(w) = n + 1 /\ w[n] = b[n]
  <2>1. n \in 1 .. n
    BY <1>3
  <2> QED
    BY <1>2, <2>1, Zenon DEF Appended
<1>8. (n + 1) - 1 = n /\ n + 1 >= 2
  BY <1>3
<1>9. ~Letterlike(w)
  BY <1>6, <1>7, <1>8, Zenon DEF Letterlike
<1> QED
  BY <1>2, <1>5, <1>6, <1>7, <1>8, <1>9, Zenon DEF LetterSpace

\* Behind a letter a space is a second x, in both texts.
SpaceSent(e, w) == [buffer |-> w, state |-> "good", out |-> e.out]

\* Behind a letter a space is such an x, whatever other memory says.
LEMMA SpaceIsSent ==
  ASSUME NEW e \in Sender, e.state = "good", Letterlike(e.buffer), NEW w, w = Append(e.buffer, X),
         NEW key
  PROVE  \A stray : Sent(e, 32, key, stray) = SpaceSent(e, w)
<1> TAKE stray
<1>1. e.buffer \in Seq(Sym)
  BY SenderTypes, Zenon
<1>2. Len(e.buffer) >= 2
  BY Zenon DEF Letterlike
<1>3. ~Marked(e.buffer, stray)
  BY <1>1, <1>2, MarkedIs, Zenon
<1>4. e.state # "start" /\ ~Bad(e)
  BY DEF Bad
<1> QED
  BY <1>3, <1>4, SpaceIs, Zenon DEF Sent, Spaced, SpaceSent

\* Sender and receiver stay in step when a space comes behind a letter.
LEMMA SpaceInStep ==
  ASSUME NEW key, IsKey(key), NEW p, NEW u, NEW e, InStep(p, u, e, key),
         p # <<>>, Last(p) # 10, Last(p) # 32
  PROVE  \E u2, e2 : InStep(Append(p, 32), u2, e2, key)
<1>1. p \in Seq(Ascii) /\ u \in Seq(Ascii) /\ e \in Sender /\ ~Bad(e)
      /\ SentAs(p, e, key) /\ SentAs(u, e, key) /\ Alike(p, u)
      /\ e.buffer \in Tame /\ e.buffer \in Seq(Sym) /\ e.out \in Seq(Ascii)
  BY InStepFacts, Zenon
<1>2. PICK h \in HearState, k \in {"x", "xx"} : Follows(p, u, e, Takes(DecBegin, e.out, key), h, k)
  BY Zenon DEF InStep
<1>3. PICK d : d = Takes(DecBegin, e.out, key)
  OBVIOUS
<1>4. 32 # 10 /\ 32 \in Ascii /\ X \in Sym
  BY DEF Ascii, X, Sym
<1>5. e.state = "good" /\ Letterlike(e.buffer) /\ k = "x"
  BY <1>2, Zenon DEF Follows, Stands
<1>6. PICK b \in Tame : b = e.buffer /\ b \in Seq(Sym)
  BY <1>1, Zenon
<1>7. PICK n \in Nat : n = Len(b)
  BY <1>6, LenProperties
<1>8. PICK w : w = Append(b, X) /\ LetterSpace(b, w, n)
  BY <1>5, <1>6, <1>7, LetterSpaceIs, Zenon
<1>9. w \in Tame /\ Len(w) >= 2 /\ ~Letterlike(w)
  BY <1>8, Zenon DEF LetterSpace
<1>10. PICK e2 : e2 = SpaceSent(e, w)
  OBVIOUS
<1>11. SenderHas(e2, w, "good", e.out)
  BY <1>10, SenderRecord, Zenon DEF SpaceSent
<1>12. e2.buffer = w /\ e2.state = "good" /\ e2.out = e.out
  BY <1>11, Zenon DEF SenderHas
<1>13. e2 \in Sender /\ ~Bad(e2)
  <2>1. "good" \in Fares
    BY DEF Fares
  <2>2. e2 \in Sender
    BY <1>1, <1>9, <1>10, <2>1, SenderFields, Zenon DEF SpaceSent
  <2> QED
    BY <1>12, <2>2 DEF Bad
<1>14. \A stray : Sent(e, 32, key, stray) = e2
  BY <1>1, <1>5, <1>6, <1>8, <1>10, SpaceIsSent, Zenon
<1>15. PICK p2 \in Seq(Ascii) : p2 = Append(p, 32)
  BY <1>1, <1>4, AppendProperties
<1>16. PICK u2 \in Seq(Ascii) : u2 = Append(u, 32)
  BY <1>1, <1>4, AppendProperties
<1>17. SentAs(p2, e2, key) /\ SentAs(u2, e2, key)
  BY <1>1, <1>4, <1>14, <1>15, <1>16, SentAsMore, Zenon
<1>18. Alike(p2, u2)
  BY <1>1, <1>4, <1>15, <1>16, AlikeMore, Zenon
<1>19. p2 # <<>> /\ Last(p2) = 32
  BY <1>1, <1>4, <1>15, AppendProperties DEF Last
<1>20. Listen(h, w) = HeardThat(u2, "xx")
  <2>1. ListensOn(h, b, X)
    BY <1>4, <1>6, ListenAppend, Zenon
  <2>2. Listen(h, b) = HeardThat(u, "x")
    BY <1>2, <1>5, <1>6, Zenon DEF Follows
  <2> QED
    BY <1>8, <1>16, <2>1, <2>2, SpaceHeard, Zenon DEF ListensOn
<1>21. Follows(p2, u2, e2, d, h, "xx")
  BY <1>2, <1>3, <1>4, <1>9, <1>12, <1>19, <1>20, Zenon DEF Follows, Stands
<1>22. "xx" \in {"x", "xx"}
  OBVIOUS
<1> QED
  BY <1>3, <1>12, <1>13, <1>15, <1>16, <1>17, <1>18, <1>21, <1>22, Zenon DEF InStep

\* The end of a line that has been printed.
LineSent(o) == [buffer |-> <<>>, state |-> "good", out |-> Append(o, 10)]

\* An empty buffer has no letters.
LEMMA NothingPrinted ==
  ASSUME NEW key, IsKey(key)
  PROVE  M!secondEncryption(<<>>, key) = <<>>
<1>1. <<>> \in Seq(Sym) /\ NoThree(<<>>) /\ Len(<<>>) = 0
  BY TameEmpty, EmptySeq DEF Tame
<1>2. PICK w \in Seq(KeyLetters) : w = M!secondEncryption(<<>>, key) /\ Len(w) = Len(<<>>) \div 3
  BY <1>1, SecondEncryptionIs, Zenon DEF LettersOf
<1>3. Len(w) = 0
  BY <1>1, <1>2
<1> QED
  BY <1>2, <1>3, EmptySeq

\* A newline prints what is whole; here nothing is left.
LEMMA LineOf ==
  ASSUME NEW key, IsKey(key), NEW s, NEW o \in Seq(Ascii), OutOf(s, key) = o, LeftOf(s) = <<>>
  PROVE  M!encryptMorseCode(s, 10, M!EOF, key) = LineSent(o)
<1>1. EncryptCase(s, 10, M!EOF, key, M!encryptMorseCode(s, 10, M!EOF, key))
  BY EncryptByCase, Zenon
<1>2. PICK v \in Seq(Ascii) : v = Append(o, 10)
  <2>1. 10 \in Ascii
    BY DEF Ascii
  <2> QED
    BY <2>1, AppendProperties
<1>3. v \o <<>> = v
  BY ConcatEmptySeq
<1> QED
  BY <1>1, <1>2, <1>3, NothingPrinted, Zenon DEF EncryptCase, LineSent

\* With an empty buffer nothing is printed first.
LEMMA EmptyLeft ==
  ASSUME NEW key, IsKey(key), NEW s \in Sender, s.buffer = <<>>
  PROVE  OutOf(s, key) = s.out /\ LeftOf(s) = <<>>
<1>1. WholeOf(<<>>)
  <2>1. Len(<<>>) = 0
    BY EmptySeq
  <2> QED
    BY <2>1 DEF WholeOf
<1>2. s.out \in Seq(Ascii)
  BY SenderTypes, Zenon
<1>3. s.out \o <<>> = s.out
  BY <1>2, ConcatEmptySeq
<1> QED
  BY <1>1, <1>3, NothingPrinted, Zenon DEF OutOf, LeftOf

\* What a receiver has printed when a newline comes.
ToldBy(h) == IF h.kind = "code" THEN Append(h.out, Char(h.code)) ELSE h.out
LineRead(d, u) ==
  d \in Receiver /\ d.buffer = <<>> /\ \E k \in {"x", "xx"} : Fed(d, HeardThat(u, k))

\* What is held back is printed as what is heard.
LEMMA FlushedTells ==
  ASSUME NEW d, NEW h \in HearState, Fed(d, h), Sense(h)
  PROVE  /\ Flushed(d) \in Receiver /\ Flushed(d).buffer = <<>> /\ Flushed(d).state # "lost"
         /\ Flushed(d).out = ToldBy(h)
<1>1. d \in Receiver /\ d.state # "lost" /\ Listen(Start(d), d.buffer) = h
      /\ (d.buffer = <<>> \/ (d.state = "good" /\ Len(d.buffer) >= 2))
  BY Zenon DEF Fed
<1>2. CASE d.buffer = <<>>
  <2>1. Flushed(d) = d
    BY <1>2, Zenon DEF Flushed
  <2>2. d.out \in Seq(Ascii)
    BY <1>1 DEF Receiver
  <2>3. Start(d) \in HearState /\ Paused(Start(d)) /\ Start(d).out = d.out
    BY <2>2, StartType, Zenon
  <2>4. Start(d) = h
    BY <1>1, <1>2, <2>3, ListenEmpty, Zenon
  <2>5. h.kind # "code"
    <3>1. h.kind = "x" \/ h.kind = "xx"
      BY <2>3, <2>4, Zenon DEF Paused
    <3> QED
      BY <3>1
  <2> QED
    BY <1>1, <1>2, <2>1, <2>3, <2>4, <2>5, Zenon DEF ToldBy
<1>3. CASE d.buffer # <<>>
  <2>1. PICK f : f = Flushed(d) /\ f = M!secondDecryption(d)
    BY <1>1, <1>3, Zenon DEF Flushed
  <2>2. Said(f, h)
    BY <1>1, <1>3, <2>1, SecondDecryption, Zenon
  <2>3. f.buffer = <<>> /\ f.state = "good" /\ AllTold(f, h)
    BY <2>2, Zenon DEF Said
  <2>4. f \in Receiver
    BY <1>1, <2>1, FlushedType, Zenon
  <2>5. f.out = ToldBy(h)
    <3>1. CASE Paused(h) /\ f.out = h.out
      <4>1. h.kind = "x" \/ h.kind = "xx"
        BY <3>1, Zenon DEF Paused
      <4>2. h.kind # "code"
        BY <4>1
      <4> QED
        BY <3>1, <4>2, Zenon DEF ToldBy
    <3>2. CASE h.kind = "code" /\ f.out = Append(h.out, Char(h.code))
      BY <3>2, Zenon DEF ToldBy
    <3> QED
      BY <2>3, <3>1, <3>2, Zenon DEF AllTold
  <2>6. f.state # "lost"
    BY <2>3
  <2> QED
    BY <2>1, <2>3, <2>4, <2>5, <2>6, Zenon
<1> QED
  BY <1>2, <1>3, Zenon

\* Then the newline is printed, and nothing is held back.
LEMMA LineReceived ==
  ASSUME NEW key, IsKey(key), NEW d, NEW h \in HearState, Fed(d, h), Sense(h)
  PROVE  LineRead(Received(d, 10, key), Append(ToldBy(h), 10))
<1>1. PICK f \in Receiver : f = Flushed(d) /\ f.buffer = <<>> /\ f.state # "lost" /\ f.out = ToldBy(h)
  BY FlushedTells, Zenon
<1>2. Ready(d, 10) = f
  BY <1>1, Zenon DEF Ready
<1>3. PICK z : z = Received(d, 10, key)
  OBVIOUS
<1>4. z = M!decryptMorseCode(f, 10, M!EOF, key)
  BY <1>1, <1>2, <1>3, Zenon DEF Received
<1>5. DecryptCase(f, 10, M!EOF, key, z)
  BY <1>4, DecryptByCase, Zenon
<1>6. z = Lined(f)
  BY <1>5, Zenon DEF DecryptCase
<1>7. z \in Receiver /\ z.buffer = <<>> /\ z.state = "good"
  BY <1>1, <1>6, LinedLost, Zenon
<1>8. PICK u : u = Append(ToldBy(h), 10)
  OBVIOUS
<1>9. ReceiverHas(z, f.buffer, u, f.lastCharWasX, "good")
  BY <1>1, <1>6, <1>8, ReceiverRecord, Zenon DEF Lined
<1>10. z.out = u
  BY <1>9, Zenon DEF ReceiverHas
<1>11. PICK k \in {"x", "xx"} : k = IF z.lastCharWasX THEN "x" ELSE "xx"
  OBVIOUS
<1>12. Start(z) = HeardThat(u, k)
  BY <1>10, <1>11, Zenon DEF Start, HeardThat
<1>13. Start(z) \in HearState
  <2>1. z.out \in Seq(Ascii)
    BY <1>7 DEF Receiver
  <2> QED
    BY <2>1, StartType, Zenon
<1>14. Listen(Start(z), z.buffer) = HeardThat(u, k)
  BY <1>7, <1>12, <1>13, ListenEmpty, Zenon
<1>15. z.state # "lost"
  BY <1>7
<1>16. Fed(z, HeardThat(u, k))
  BY <1>7, <1>14, <1>15, Zenon DEF Fed
<1> QED
  BY <1>3, <1>7, <1>8, <1>11, <1>16, Zenon DEF LineRead

\* At the end of a line nothing is held back.
LEMMA LineInStep ==
  ASSUME NEW key, NEW p \in Seq(Ascii), p # <<>>, Last(p) = 10, NEW u \in Seq(Ascii),
         NEW o \in Seq(Ascii), NEW e, e = LineSent(o), SentAs(p, e, key), SentAs(u, e, key),
         Alike(p, u), LineRead(Takes(DecBegin, Append(o, 10), key), u)
  PROVE  InStep(p, u, e, key)
<1>1. SenderHas(e, <<>>, "good", Append(o, 10))
  BY SenderRecord, Zenon DEF LineSent
<1>2. e.buffer = <<>> /\ e.state = "good" /\ e.out = Append(o, 10)
  BY <1>1, Zenon DEF SenderHas
<1>3. e \in Sender /\ ~Bad(e)
  <2>1. "good" \in Fares
    BY DEF Fares
  <2>2. Append(o, 10) \in Seq(Ascii)
    <3>1. 10 \in Ascii
      BY DEF Ascii
    <3> QED
      BY <3>1, AppendProperties
  <2>3. e \in Sender
    BY <2>1, <2>2, TameEmpty, SenderFields, Zenon DEF LineSent
  <2> QED
    BY <1>2, <2>3 DEF Bad
<1>4. PICK d : d = Takes(DecBegin, e.out, key) /\ LineRead(d, u)
  BY <1>2, Zenon
<1>5. PICK k \in {"x", "xx"} : Fed(d, HeardThat(u, k))
  BY <1>4, Zenon DEF LineRead
<1>6. PICK h \in HearState : h = HeardThat(u, k)
  BY HeardThatType, Zenon
<1>7. Listen(h, e.buffer) = h
  BY <1>2, <1>6, ListenEmpty, Zenon
<1>8. Stands(p, e, d, k)
  BY <1>2, <1>4, Zenon DEF Stands, LineRead
<1>9. Follows(p, u, e, d, h, k)
  BY <1>5, <1>6, <1>7, <1>8, Zenon DEF Follows
<1> QED
  BY <1>3, <1>4, <1>6, <1>9, Zenon DEF InStep

\* A newline is received behind the letters of its line.
LEMMA TakesLine ==
  ASSUME NEW key, IsKey(key), NEW o \in Seq(Ascii)
  PROVE  Takes(DecBegin, Append(o, 10), key) = Received(Takes(DecBegin, o, key), 10, key)
<1>1. DecBegin \in Receiver /\ 10 \in Ascii
  BY DecBeginType DEF Ascii
<1>2. TakesOn(DecBegin, o, 10, key)
  BY <1>1, TakesAppend, Zenon
<1> QED
  BY <1>2, Zenon DEF TakesOn

\* A newline behind a newline.
LEMMA LineAgain ==
  ASSUME NEW key, IsKey(key), NEW p, NEW u, NEW e, InStep(p, u, e, key),
         p = <<>> \/ Last(p) = 10
  PROVE  \E u2, e2 : InStep(Append(p, 10), u2, e2, key)
<1>1. p \in Seq(Ascii) /\ u \in Seq(Ascii) /\ e \in Sender /\ ~Bad(e)
      /\ SentAs(p, e, key) /\ SentAs(u, e, key) /\ Alike(p, u)
      /\ e.buffer \in Tame /\ e.buffer \in Seq(Sym) /\ e.out \in Seq(Ascii)
  BY InStepFacts, Zenon
<1>2. PICK h \in HearState, k \in {"x", "xx"} : Follows(p, u, e, Takes(DecBegin, e.out, key), h, k)
  BY Zenon DEF InStep
<1>3. PICK d : d = Takes(DecBegin, e.out, key)
  OBVIOUS
<1>4. e.buffer = <<>> /\ Fed(d, h) /\ Listen(h, e.buffer) = HeardThat(u, k)
  BY <1>2, <1>3, Zenon DEF Follows, Stands
<1>5. h = HeardThat(u, k)
  BY <1>4, ListenEmpty, Zenon
<1>6. h.out = u /\ h.kind = k
  BY <1>5, HeardRecord, Zenon DEF HeardThat, HeardFields
<1>7. Sense(h) /\ ToldBy(h) = u
  <2>1. h.kind # "bad" /\ h.kind # "code"
    BY <1>6
  <2> QED
    BY <1>6, <2>1, Zenon DEF Sense, ToldBy
<1>8. LineRead(Received(d, 10, key), Append(u, 10))
  BY <1>4, <1>7, LineReceived, Zenon
<1>9. LineRead(Takes(DecBegin, Append(e.out, 10), key), Append(u, 10))
  BY <1>1, <1>3, <1>8, TakesLine, Zenon
<1>10. PICK e2 : e2 = LineSent(e.out)
  OBVIOUS
<1>11. \A stray : Sent(e, 10, key, stray) = e2
  <2>1. Sooner(e, 10, key) = e
    BY <1>4, EndedSame, Zenon DEF Sooner
  <2>2. M!encryptMorseCode(e, 10, M!EOF, key) = e2
    BY <1>1, <1>4, <1>10, EmptyLeft, LineOf, Zenon
  <2>3. 10 # 32
    OBVIOUS
  <2> QED
    BY <1>1, <2>1, <2>2, <2>3, Zenon DEF Sent
<1>12. 10 \in Ascii
  BY DEF Ascii
<1>13. PICK p2 \in Seq(Ascii) : p2 = Append(p, 10)
  BY <1>1, <1>12, AppendProperties
<1>14. PICK u2 \in Seq(Ascii) : u2 = Append(u, 10)
  BY <1>1, <1>12, AppendProperties
<1>15. SentAs(p2, e2, key) /\ SentAs(u2, e2, key)
  BY <1>1, <1>11, <1>12, <1>13, <1>14, SentAsMore, Zenon
<1>16. Alike(p2, u2)
  BY <1>1, <1>12, <1>13, <1>14, AlikeMore, Zenon
<1>17. p2 # <<>> /\ Last(p2) = 10
  BY <1>1, <1>12, <1>13, AppendProperties DEF Last
<1>18. InStep(p2, u2, e2, key)
  BY <1>1, <1>9, <1>10, <1>14, <1>15, <1>16, <1>17, LineInStep, Zenon
<1> QED
  BY <1>13, <1>18, Zenon

\* The fields of what was heard to its end.
LEMMA HeardThatHas ==
  \A u, k : HeardFields(HeardThat(u, k), u, <<>>, k)
  BY HeardRecord, Zenon DEF HeardThat

\* What is heard of a beginning.
LEMMA HeardPrefix ==
  ASSUME NEW h \in HearState, NEW b \in Seq(Sym), NEW n \in Nat, n = Len(b), NEW a \in Sym,
         NEW w, w = Append(b, a), NEW q, HeardAlong(q, h, w, n + 1)
  PROVE  q[n] = Listen(h, b)
<1>1. PICK r : HeardAlong(r, h, b, n)
  BY HeardIsRun, Zenon
<1>2. r[0] = h /\ (\A k \in 1 .. n : r[k] = Heard(r[k - 1], b[k])) /\ Listen(h, b) = r[n]
  BY <1>1, Zenon DEF HeardAlong
<1>3. q[0] = h /\ (\A k \in 1 .. n + 1 : q[k] = Heard(q[k - 1], w[k]))
  BY Zenon DEF HeardAlong
<1>4. \A k \in 1 .. n : w[k] = b[k]
  <2>1. Appended(w, b, a, n, Sym)
    BY AppendedIs, Zenon
  <2> QED
    BY <2>1, Zenon DEF Appended
<1> DEFINE K == {k \in 0 .. n : q[k] = r[k]}
<1>5. 0 \in K
  <2>1. 0 \in 0 .. n
    OBVIOUS
  <2> QED
    BY <1>2, <1>3, <2>1, Zenon
<1>6. ASSUME NEW i \in 0 .. n - 1 PROVE i \in K => i + 1 \in K
  <2> HAVE i \in K
  <2>1. PICK k \in 1 .. n : k = i + 1 /\ k - 1 = i /\ k \in 0 .. n /\ k \in 1 .. n + 1
    OBVIOUS
  <2>2. q[i] = r[i]
    OBVIOUS
  <2>3. q[k] = r[k]
    BY <1>2, <1>3, <1>4, <2>1, <2>2, Zenon
  <2> QED
    BY <2>1, <2>3, Zenon
<1>7. n \in K
  <2> HIDE DEF K
  <2>1. \A i \in 0 .. n : i \in K
    BY <1>5, <1>6, InductionUpTo, Zenon
  <2>2. n \in 0 .. n
    OBVIOUS
  <2> QED
    BY <2>1, <2>2, Zenon
<1> QED
  BY <1>2, <1>7, Zenon

\* What is heard of the whole triples of a line that ends in a letter: the
\* letter, and a space when its second x is in them.
Rest(n) == n % 3
HeardLine(g, u, n) ==
  /\ g \in HearState /\ Sense(g)
  /\ ToldBy(g) = IF Rest(n) = 0 THEN Append(u, 32) ELSE u

\* It is so, by how many of the two x are behind the last whole triple.
LEMMA LineHeard ==
  ASSUME NEW h \in HearState, NEW b \in Tame, Letterlike(b), NEW n \in Nat, n = Len(b),
         NEW w, w = Append(b, X), NEW u \in Seq(Ascii), Listen(h, b) = HeardThat(u, "x"),
         NEW q, HeardAlong(q, h, w, n + 1)
  PROVE  HeardLine(q[3 * ((n + 1) \div 3)], u, n + 1) /\ q[n + 1].kind # "bad"
<1>1. b \in Seq(Sym) /\ X \in Sym /\ n >= 2
  BY DEF Tame, X, Sym, Letterlike
<1>2. LetterSpace(b, w, n)
  BY LetterSpaceIs, Zenon
<1>3. q[n] = HeardThat(u, "x")
  BY <1>1, HeardPrefix, Zenon
<1>4. (\A k \in 1 .. n + 1 : q[k] = Heard(q[k - 1], w[k])) /\ \A k \in 0 .. n + 1 : q[k] \in HearState
  BY Zenon DEF HeardAlong
<1>5. w[n + 1] = X /\ w[n] = X
  <2>1. n \in 1 .. n
    BY <1>1
  <2> QED
    BY <1>2, <2>1, Zenon DEF LetterSpace, Appended
<1>6. q[n + 1] = HeardThat(Append(u, 32), "xx")
  <2>1. n + 1 \in 1 .. n + 1 /\ (n + 1) - 1 = n
    OBVIOUS
  <2> QED
    BY <1>3, <1>4, <1>5, <2>1, SpaceHeard, Zenon
<1>7. HeardThat(u, "x") = Heard(q[n - 1], X)
  <2>1. n \in 1 .. n + 1
    BY <1>1
  <2> QED
    BY <1>3, <1>4, <1>5, <2>1, Zenon
<1>8. q[n + 1].kind = "xx" /\ q[n + 1].out = Append(u, 32)
  <2>1. HeardFields(HeardThat(Append(u, 32), "xx"), Append(u, 32), <<>>, "xx")
    BY HeardThatHas, Zenon
  <2> QED
    BY <1>6, <2>1, Zenon DEF HeardFields
<1>9. q[n + 1].kind # "bad" /\ q[n + 1].kind # "code"
  BY <1>8
<1>10. n - 1 \in 0 .. n + 1 /\ n \in 0 .. n + 1 /\ n + 1 \in 0 .. n + 1
  BY <1>1
<1>11. CASE Rest(n + 1) = 0
  <2>1. 3 * ((n + 1) \div 3) = n + 1
    BY ONLY n \in Nat, <1>11, SMT DEF Rest
  <2>2. Sense(q[n + 1]) /\ ToldBy(q[n + 1]) = Append(u, 32)
    BY <1>8, <1>9, Zenon DEF Sense, ToldBy
  <2> QED
    BY <1>4, <1>9, <1>10, <1>11, <2>1, <2>2, Zenon DEF HeardLine
<1>12. CASE Rest(n + 1) = 1
  <2>1. 3 * ((n + 1) \div 3) = n /\ Rest(n + 1) # 0
    BY ONLY n \in Nat, <1>12, SMT DEF Rest
  <2>2. q[n].kind = "x" /\ q[n].out = u
    <3>1. HeardFields(HeardThat(u, "x"), u, <<>>, "x")
      BY HeardThatHas, Zenon
    <3> QED
      BY <1>3, <3>1, Zenon DEF HeardFields
  <2>3. q[n].kind # "bad" /\ q[n].kind # "code"
    BY <2>2
  <2>4. Sense(q[n]) /\ ToldBy(q[n]) = u
    BY <2>2, <2>3, Zenon DEF Sense, ToldBy
  <2> QED
    BY <1>4, <1>9, <1>10, <2>1, <2>4, Zenon DEF HeardLine
<1>13. CASE Rest(n + 1) = 2
  <2>1. 3 * ((n + 1) \div 3) = n - 1 /\ Rest(n + 1) # 0
    BY ONLY n \in Nat, <1>13, SMT DEF Rest
  <2>2. PICK g : g = q[n - 1]
    OBVIOUS
  <2>3. g.kind = "code" /\ Char(g.code) # SP /\ u = Append(g.out, Char(g.code))
    BY <1>7, <2>2, BeforeX, Zenon
  <2>4. g.kind # "bad"
    BY <2>3
  <2>5. Sense(g) /\ ToldBy(g) = u
    BY <2>3, <2>4, Zenon DEF Sense, ToldBy
  <2> QED
    BY <1>4, <1>9, <1>10, <2>1, <2>2, <2>5, Zenon DEF HeardLine
<1>14. Rest(n + 1) = 0 \/ Rest(n + 1) = 1 \/ Rest(n + 1) = 2
  BY ONLY n \in Nat, SMT DEF Rest
<1> QED
  BY <1>11, <1>12, <1>13, <1>14, Zenon

\* A newline behind a letter.
LEMMA LineBehindLetter ==
  ASSUME NEW key, IsKey(key), NEW p, NEW u, NEW e, InStep(p, u, e, key),
         p # <<>>, Last(p) # 10, Last(p) # 32
  PROVE  \E u2, e2 : InStep(Append(p, 10), u2, e2, key)
<1>1. p \in Seq(Ascii) /\ u \in Seq(Ascii) /\ e \in Sender /\ ~Bad(e)
      /\ SentAs(p, e, key) /\ SentAs(u, e, key) /\ Alike(p, u)
      /\ e.buffer \in Tame /\ e.buffer \in Seq(Sym) /\ e.out \in Seq(Ascii)
  BY InStepFacts, Zenon
<1>2. PICK h \in HearState, k \in {"x", "xx"} : Follows(p, u, e, Takes(DecBegin, e.out, key), h, k)
  BY Zenon DEF InStep
<1>3. PICK d : d = Takes(DecBegin, e.out, key)
  OBVIOUS
<1>4. e.state = "good" /\ Letterlike(e.buffer) /\ k = "x" /\ Fed(d, h)
      /\ Listen(h, e.buffer) = HeardThat(u, "x")
  BY <1>2, <1>3, Zenon DEF Follows, Stands
<1>5. PICK b \in Tame : b = e.buffer /\ b \in Seq(Sym)
  BY <1>1, Zenon
<1>6. PICK n \in Nat : n = Len(b)
  BY <1>5, LenProperties
<1>7. PICK w : w = Append(b, X) /\ LetterSpace(b, w, n)
  BY <1>4, <1>5, <1>6, LetterSpaceIs, Zenon
<1>8. w \in Tame /\ w \in Seq(Sym) /\ NoThree(w) /\ Len(w) = n + 1 /\ ~Letterlike(w)
  BY <1>7, Zenon DEF LetterSpace, Tame
<1>9. n + 1 \in Nat
  OBVIOUS
<1>10. PICK q : HeardAlong(q, h, w, n + 1)
  BY <1>8, <1>9, HeardIsRun, Zenon
<1>11. PICK g : g = q[3 * ((n + 1) \div 3)]
  OBVIOUS
<1>12. HeardLine(g, u, n + 1) /\ q[n + 1].kind # "bad"
  BY <1>1, <1>4, <1>5, <1>6, <1>7, <1>10, <1>11, LineHeard, Zenon
<1>13. PICK v \in Seq(Ascii) : v = M!secondEncryption(w, key) /\ Fed(Takes(d, v, key), g)
  <2>1. M!secondEncryption(w, key) \in Seq(Ascii)
        /\ Fed(Takes(d, M!secondEncryption(w, key), key), q[3 * ((n + 1) \div 3)])
    BY <1>4, <1>8, <1>9, <1>10, <1>12, Feed, Zenon
  <2> QED
    BY <1>11, <2>1, Zenon
<1>14. PICK u1 : u1 = IF Rest(n + 1) = 0 THEN Append(u, 32) ELSE u
  OBVIOUS
<1>15. g \in HearState /\ Sense(g) /\ ToldBy(g) = u1
  BY <1>12, <1>14, Zenon DEF HeardLine
<1>16. 10 \in Ascii /\ 32 \in Ascii /\ 10 # 32
  BY DEF Ascii
<1>17. u1 \in Seq(Ascii)
  <2>1. Append(u, 32) \in Seq(Ascii)
    BY <1>1, <1>16, AppendProperties
  <2> QED
    BY <1>1, <1>14, <2>1, Zenon
<1>18. LineRead(Received(Takes(d, v, key), 10, key), Append(u1, 10))
  BY <1>13, <1>15, LineReceived, Zenon
<1>19. PICK o \in Seq(Ascii) : o = e.out \o v
  <2>1. Joined(e.out \o v, e.out, v, Ascii)
    BY <1>1, <1>13, Joining, Zenon
  <2> QED
    BY <2>1, Zenon DEF Joined
<1>20. LineRead(Takes(DecBegin, Append(o, 10), key), Append(u1, 10))
  <2>1. Takes(DecBegin, o, key) = Takes(d, v, key)
    <3>1. PICK eo \in Seq(Ascii) : eo = e.out
      BY <1>1, Zenon
    <3>2. d = Takes(DecBegin, eo, key) /\ v \in Seq(Ascii)
      BY <1>3, <1>13, <3>1, Zenon
    <3>3. Takes(DecBegin, eo \o v, key) = Takes(d, v, key)
      BY ONLY <3>2, eo \in Seq(Ascii), IsKey(key), TakesSent, Zenon
    <3>4. Takes(DecBegin, e.out \o v, key) = Takes(d, v, key)
      BY <3>1, <3>3, Zenon
    <3> QED
      BY <1>19, <3>4, Zenon
  <2> QED
    BY <1>18, <1>19, <2>1, TakesLine, Zenon
<1>21. PICK e2 : e2 = LineSent(o)
  OBVIOUS
<1>22. \A stray : Sent(e, 10, key, stray) = e2
  <2>1. PICK e1 : e1 = Ended(e, key) /\ e1 \in Sender
    BY <1>1, EndedType, Zenon
  <2>2. e1 = [buffer |-> <<>>, state |-> "good", out |-> o]
    BY <1>1, <1>4, <1>5, <1>7, <1>13, <1>19, <2>1, Zenon DEF Ended
  <2>3. SenderHas(e1, <<>>, "good", o)
    BY <2>2, SenderRecord, Zenon
  <2>4. OutOf(e1, key) = o /\ LeftOf(e1) = <<>>
    BY <2>1, <2>3, EmptyLeft, Zenon DEF SenderHas
  <2>5. M!encryptMorseCode(e1, 10, M!EOF, key) = e2
    BY <1>19, <1>21, <2>4, LineOf, Zenon
  <2> QED
    BY <1>1, <1>16, <2>1, <2>5, Zenon DEF Sent, Sooner
<1>23. PICK p2 \in Seq(Ascii) : p2 = Append(p, 10)
  BY <1>1, <1>16, AppendProperties
<1>24. PICK u2 \in Seq(Ascii) : u2 = Append(u1, 10)
  BY <1>16, <1>17, AppendProperties
<1>25. SentAs(p2, e2, key)
  BY <1>1, <1>16, <1>22, <1>23, SentAsMore, Zenon
<1>26. SentAs(u2, e2, key) /\ Alike(p2, u2)
  <2>1. CASE Rest(n + 1) # 0
    <3>1. u1 = u
      BY <1>14, <2>1, Zenon
    <3> QED
      BY <1>1, <1>16, <1>22, <1>23, <1>24, <3>1, SentAsMore, AlikeMore, Zenon
  <2>2. CASE Rest(n + 1) = 0
    <3>1. u1 = Append(u, 32)
      BY <1>14, <2>2, Zenon
    <3>2. PICK s : s = SpaceSent(e, w)
      OBVIOUS
    <3>3. \A stray : Sent(e, 32, key, stray) = s
      BY <1>1, <1>4, <1>5, <1>7, <3>2, SpaceIsSent, Zenon
    <3>4. SentAs(u1, s, key)
      BY <1>1, <1>16, <3>1, <3>3, SentAsMore, Zenon
    <3>5. SenderHas(s, w, "good", e.out)
      BY <3>2, SenderRecord, Zenon DEF SpaceSent
    <3>6. s.buffer = w /\ s.state = "good" /\ s.out = e.out
      BY <3>5, Zenon DEF SenderHas
    <3>7. WholeOf(w)
      BY <1>8, <2>2, Zenon DEF WholeOf, Rest
    <3>8. OutOf(s, key) = o /\ LeftOf(s) = <<>>
      BY <1>13, <1>19, <3>6, <3>7, Zenon DEF OutOf, LeftOf
    <3>9. M!encryptMorseCode(s, 10, M!EOF, key) = e2
      BY <1>19, <1>21, <3>8, LineOf, Zenon
    <3>10. ~Bad(s)
      BY <3>6 DEF Bad
    <3>11. Sooner(s, 10, key) = s
      BY <1>8, <3>6, Zenon DEF Sooner, Ended
    <3>12. \A stray : Sent(s, 10, key, stray) = e2
      BY <1>16, <3>9, <3>10, <3>11, Zenon DEF Sent
    <3>13. SentAs(u2, e2, key)
      BY <1>16, <1>17, <1>24, <3>4, <3>12, SentAsMore, Zenon
    <3>14. Alike(p2, u2)
      BY <1>1, <1>23, <1>24, <3>1, AlikeLine, Zenon
    <3> QED
      BY <3>13, <3>14
  <2> QED
    BY <2>1, <2>2
<1>27. p2 # <<>> /\ Last(p2) = 10
  <2>1. p \in Seq(Ascii) /\ 10 \in Ascii
    BY <1>1, <1>16
  <2> QED
    BY ONLY <1>23, <2>1, AppendProperties DEF Last
<1>28. InStep(p2, u2, e2, key)
  BY <1>19, <1>20, <1>21, <1>24, <1>25, <1>26, <1>27, LineInStep, Zenon
<1> QED
  BY <1>23, <1>28, Zenon

\* No space at the beginning of a line, nor at its end.
OnLine(t) ==
  /\ t # <<>> => Head(t) # 32
  /\ \A i \in 1 .. Len(t) - 1 : t[i] = 10 => t[i + 1] # 32
  /\ \A i \in 1 .. Len(t) - 1 : t[i] = 32 => t[i + 1] # 10

\* It is so of the beginning of such a text.
LEMMA OnLineBefore ==
  ASSUME NEW p \in Seq(Ascii), NEW c \in Ascii, OnLine(Append(p, c))
  PROVE  /\ OnLine(p)
         /\ c = 32 => p # <<>> /\ Last(p) # 10
         /\ c = 10 => p = <<>> \/ Last(p) # 32
<1>1. PICK n \in Nat : n = Len(p)
  BY LenProperties
<1>2. PICK s : s = Append(p, c) /\ Appended(s, p, c, n, Ascii)
  BY <1>1, AppendedIs, Zenon
<1>3. Len(s) = n + 1 /\ s[n + 1] = c
  BY <1>2, Zenon DEF Appended
<1>4. \A i \in 1 .. n : s[i] = p[i]
  BY <1>2, Zenon DEF Appended
<1>5. s # <<>> /\ Head(s) = IF p = <<>> THEN c ELSE Head(p)
  <2>1. s # <<>>
    BY <1>2, AppendProperties
  <2>2. Head(s) = IF p = <<>> THEN c ELSE Head(p)
    BY <1>2, HeadTailAppend
  <2> QED
    BY <2>1, <2>2
<1>6. \A i \in 1 .. n : (s[i] = 10 => s[i + 1] # 32) /\ (s[i] = 32 => s[i + 1] # 10)
  <2>1. Len(s) - 1 = n
    BY <1>3
  <2> QED
    BY <1>2, <2>1, Zenon DEF OnLine
<1>7. \A i \in 1 .. n - 1 : i \in 1 .. n /\ i + 1 \in 1 .. n
  OBVIOUS
<1>8. OnLine(p)
  <2>1. \A i \in 1 .. n - 1 : (p[i] = 10 => p[i + 1] # 32) /\ (p[i] = 32 => p[i + 1] # 10)
    BY <1>4, <1>6, <1>7, Zenon
  <2>2. p # <<>> => Head(p) # 32
    BY <1>2, <1>5, Zenon DEF OnLine
  <2> QED
    BY <1>1, <2>1, <2>2, Zenon DEF OnLine
<1>9. p # <<>> => (Last(p) = 10 => c # 32) /\ (Last(p) = 32 => c # 10)
  <2> HAVE p # <<>>
  <2>1. n # 0
    BY <1>1, EmptySeq
  <2>2. n \in 1 .. n
    BY <2>1
  <2>3. s[n] = p[n] /\ (s[n] = 10 => s[n + 1] # 32) /\ (s[n] = 32 => s[n + 1] # 10)
    BY <1>4, <1>6, <2>2, Zenon
  <2>4. Last(p) = p[n]
    BY <1>1, Zenon DEF Last
  <2> QED
    BY <1>3, <2>3, <2>4, Zenon
<1>10. p = <<>> => c # 32
  BY <1>2, <1>5, Zenon DEF OnLine
<1> QED
  BY <1>8, <1>9, <1>10, Zenon

\* Nothing was sent.
LEMMA BeginInStep ==
  ASSUME NEW key, IsKey(key)
  PROVE  InStep(<<>>, <<>>, EncBegin, key)
<1>1. EncBegin \in Sender /\ EncBegin.buffer = <<>> /\ ~Bad(EncBegin)
  BY EncBeginType
<1>2. EncBegin.out = <<>>
  BY DEF EncBegin
<1>3. <<>> \in Seq(Ascii)
  BY EmptySeq
<1>4. SentAs(<<>>, EncBegin, key)
  BY <1>1, SendsType, Zenon DEF SentAs
<1>5. DecBegin \in Receiver /\ DecBegin.buffer = <<>>
  BY DecBeginType
<1>6. DecBegin.out = <<>> /\ DecBegin.lastCharWasX = FALSE /\ DecBegin.state # "lost"
  BY DEF DecBegin
<1>7. Takes(DecBegin, EncBegin.out, key) = DecBegin
  BY <1>2, <1>5, TakesType, Zenon
<1>8. PICK h \in HearState : h = HeardThat(<<>>, "xx")
  <2>1. "xx" \in {"x", "xx"}
    OBVIOUS
  <2> QED
    BY <1>3, <2>1, HeardThatType, Zenon
<1>9. Start(DecBegin) = h
  BY <1>6, <1>8, Zenon DEF Start, HeardThat
<1>10. Fed(DecBegin, h)
  BY <1>5, <1>6, <1>8, <1>9, ListenEmpty, Zenon DEF Fed
<1>11. Follows(<<>>, <<>>, EncBegin, DecBegin, h, "xx")
  BY <1>1, <1>5, <1>8, <1>10, ListenEmpty, Zenon DEF Follows, Stands
<1>12. Alike(<<>>, <<>>)
  BY Zenon DEF Alike
<1>13. "xx" \in {"x", "xx"}
  OBVIOUS
<1> QED
  BY <1>1, <1>3, <1>4, <1>7, <1>8, <1>11, <1>12, <1>13, Zenon DEF InStep

\* A character more.
LEMMA MoreInStep ==
  ASSUME NEW key, IsKey(key), NEW stray, NEW p \in Seq(Ascii), NEW c \in Ascii,
         OnLine(Append(p, c)), NEW u, NEW e, InStep(p, u, e, key),
         ~Bad(Sends(EncBegin, Append(p, c), key, stray))
  PROVE  \E u2, e2 : InStep(Append(p, c), u2, e2, key)
<1>1. /\ c = 32 => p # <<>> /\ Last(p) # 10
      /\ c = 10 => p = <<>> \/ Last(p) # 32
  BY OnLineBefore, Zenon
<1>2. CASE c = 32
  <2>1. CASE Last(p) = 32
    BY <1>1, <1>2, <2>1, SpaceAgain, Zenon
  <2>2. CASE Last(p) # 32
    BY <1>1, <1>2, <2>2, SpaceInStep, Zenon
  <2> QED
    BY <2>1, <2>2
<1>3. CASE c = 10
  <2>1. CASE p = <<>> \/ Last(p) = 10
    BY <1>3, <2>1, LineAgain, Zenon
  <2>2. CASE p # <<>> /\ Last(p) # 10
    BY <1>1, <1>3, <2>2, LineBehindLetter, Zenon
  <2> QED
    BY <2>1, <2>2
<1>4. CASE c # 32 /\ c # 10
  <2>1. PICK e2 : e2 = M!encryptMorseCode(e, c, M!EOF, key)
    OBVIOUS
  <2>2. ~Bad(e) /\ SentAs(p, e, key)
    BY InStepFacts, Zenon
  <2>3. Sent(e, c, key, stray) = e2
    BY <1>4, <2>1, <2>2, Zenon DEF Sent, Sooner
  <2>4. SendsOn(EncBegin, p, c, key, stray)
    BY EncBeginType, SendsAppend, Zenon
  <2>5. Sends(EncBegin, Append(p, c), key, stray) = e2
    BY <2>2, <2>3, <2>4, Zenon DEF SendsOn, SentAs
  <2> QED
    BY <1>4, <2>1, <2>5, LetterInStep, Zenon
<1> QED
  BY <1>2, <1>3, <1>4

\* Sender and receiver are in step as long as the sender succeeds.
LEMMA AllInStep ==
  ASSUME NEW key, IsKey(key), NEW stray
  PROVE  \A p \in Seq(Ascii) : OnLine(p) /\ ~Bad(Sends(EncBegin, p, key, stray))
           => \E u, e : InStep(p, u, e, key)
<1> DEFINE G == {p \in Seq(Ascii) : OnLine(p) /\ ~Bad(Sends(EncBegin, p, key, stray))
                                      => \E u, e : InStep(p, u, e, key)}
<1>1. <<>> \in G
  <2>1. <<>> \in Seq(Ascii)
    BY EmptySeq
  <2> QED
    BY <2>1, BeginInStep, Zenon
<1>2. ASSUME NEW p \in G, NEW c \in Ascii PROVE Append(p, c) \in G
  <2>1. PICK s \in Seq(Ascii) : s = Append(p, c)
    BY AppendProperties
  <2>2. ASSUME OnLine(s), ~Bad(Sends(EncBegin, s, key, stray)) PROVE \E u, e : InStep(s, u, e, key)
    <3>1. OnLine(p)
      BY <2>1, <2>2, OnLineBefore, Zenon
    <3>2. ~Bad(Sends(EncBegin, p, key, stray))
      <4>1. SendsOn(EncBegin, p, c, key, stray)
        BY EncBeginType, SendsAppend, Zenon
      <4> QED
        BY <2>1, <2>2, <4>1, Zenon DEF SendsOn, Sent
    <3>3. PICK u, e : InStep(p, u, e, key)
      BY <3>1, <3>2, Zenon
    <3> QED
      BY <2>1, <2>2, <3>3, MoreInStep, Zenon
  <2> QED
    BY <2>1, <2>2, Zenon
<1>3. G \in SUBSET Seq(Ascii)
  OBVIOUS
<1> HIDE DEF G
<1>4. G = Seq(Ascii)
  BY <1>1, <1>2, <1>3, SeqInduction, Zenon
<1> QED
  BY <1>4, Zenon DEF G

\* What -f -e has encrypted, -f -d turns into a text that is the same but for
\* runs of spaces, and that is encrypted to the same letters
\* (morsecipher.c).
ReadBack(t, u, e, key) ==
  /\ u \in Seq(Ascii) /\ Squeezed(t) = Squeezed(u)
  /\ M!DecryptMorse(e.out, key).out = u
  /\ \A stray : M!EncryptMorse(t, key, stray) = e /\ M!EncryptMorse(u, key, stray) = e

\* It is so for every text of lines and every key, when the encryption
\* succeeds.
THEOREM MorseReadsBack ==
  ASSUME NEW key, IsKey(key), NEW stray, NEW t \in Seq(Ascii), InLines(t),
         NEW e, e = M!EncryptMorse(t, key, stray), e.state = "good"
  PROVE  \E u : ReadBack(t, u, e, key)
<1>1. OnLine(t) /\ t # <<>> /\ Last(t) = 10
  BY Zenon DEF OnLine, InLines
<1>2. e = Sends(EncBegin, t, key, stray)
  BY EncryptIsSends, Zenon
<1>3. ~Bad(e)
  BY DEF Bad
<1>4. PICK u, e2 : InStep(t, u, e2, key)
  BY <1>1, <1>2, <1>3, AllInStep, Zenon
<1>5. u \in Seq(Ascii) /\ e2 \in Sender /\ SentAs(t, e2, key) /\ SentAs(u, e2, key) /\ Alike(t, u)
      /\ e2.out \in Seq(Ascii)
  BY <1>4, InStepFacts, Zenon
<1>6. e = e2
  BY <1>2, <1>5, Zenon DEF SentAs
<1>7. \A s : M!EncryptMorse(t, key, s) = e /\ M!EncryptMorse(u, key, s) = e
  <2>1. ASSUME NEW s, NEW x \in Seq(Ascii), SentAs(x, e2, key) PROVE M!EncryptMorse(x, key, s) = e
    <3>1. \A y \in Seq(Ascii) : M!EncryptMorse(y, key, s) = Sends(EncBegin, y, key, s)
      BY EncryptIsSends, Zenon
    <3>2. Sends(EncBegin, x, key, s) = e2
      BY <2>1, Zenon DEF SentAs
    <3> QED
      BY <1>6, <3>1, <3>2, Zenon
  <2> QED
    BY <1>5, <2>1, Zenon
<1>8. Squeezed(t) = Squeezed(u)
  BY <1>5, AlikeSqueezed, Zenon
<1>9. PICK d : d = M!DecryptMorse(e.out, key) /\ d = Takes(DecBegin, e.out, key)
  BY <1>5, <1>6, DecryptIsTakes, Zenon
<1>10. PICK h \in HearState, k \in {"x", "xx"} : Follows(t, u, e, d, h, k)
  BY <1>4, <1>6, <1>9, Zenon DEF InStep
<1>11. e.buffer = <<>> /\ d.buffer = <<>> /\ Fed(d, h) /\ Listen(h, <<>>) = HeardThat(u, k)
  BY <1>1, <1>10, Zenon DEF Follows, Stands
<1>12. d.out = u
  <2>1. d.out \in Seq(Ascii)
    BY <1>11 DEF Fed, Receiver
  <2>2. Start(d) \in HearState /\ Start(d).out = d.out
    BY <2>1, StartType, Zenon
  <2>3. Start(d) = HeardThat(u, k)
    BY <1>11, <2>2, ListenEmpty, Zenon DEF Fed
  <2>4. HeardFields(HeardThat(u, k), u, <<>>, k)
    BY HeardThatHas, Zenon
  <2> QED
    BY <2>2, <2>3, <2>4, Zenon DEF HeardFields
<1> QED
  BY <1>5, <1>7, <1>8, <1>9, <1>12, Zenon DEF ReadBack

MorseOptions == {[NoOptions EXCEPT !.key = k] : k \in MorseKeys}

\* e is what a run of -f -e that succeeds makes of t.
Encrypts(t, e, key) == e.state = "good" /\ \E stray : e = M!EncryptMorse(t, key, stray)

\* What the contents c of a file are when h was done to get there.
MorseHolds(c, h, t, key) ==
  /\ h = "text" => c = t
  /\ h = "nothing" => c = <<>>
  /\ h = "cipher" /\ InLines(t) => \E e : Encrypts(t, e, key) /\ c = e.out
  /\ h = "back" /\ InLines(t) => \E e : Encrypts(t, e, key) /\ ReadBack(t, c, e, key)

\* What every run of hw1 -f leaves: the text, what it is encrypted to, a text
\* that is encrypted to the same, or what a run that failed has printed.
MorseInv ==
  tool = "morse" =>
    /\ options \in MorseOptions /\ IsKey(KeyGiven(options.key))
    /\ text \in Seq(Ascii)
    /\ files \in [Files -> Seq(Ascii)]
    /\ holds \in [Files -> Kinds]
    /\ \A f \in Files : MorseHolds(files[f], holds[f], text, KeyGiven(options.key))

\* The first file is the text, and the key has every letter once.
LEMMA MorseInit == Init => MorseInv
<1> SUFFICES ASSUME Init, tool = "morse" PROVE MorseInv
  BY DEF MorseInv
<1>1. /\ options \in MorseOptions
      /\ options.key # P!NoKey => M!checkKeyValidF(options.key)
      /\ text \in MorseTexts /\ files = [a |-> text, b |-> <<>>]
      /\ holds = [a |-> "text", b |-> "nothing"]
  BY DEF Init, InitUtf, InitPoly, InitMorse, MorseOptions
<1>2. IsKey(KeyGiven(options.key))
  <2>1. PICK k \in MorseKeys : options = [NoOptions EXCEPT !.key = k]
    BY <1>1, Zenon DEF MorseOptions
  <2>2. options.key = k
    BY <2>1 DEF NoOptions
  <2>3. options.key \in Seq(Ascii)
    BY <2>2, KeysAndTexts, Zenon DEF Ascii
  <2> QED
    BY <1>1, <2>3, KeyIs, Zenon
<1>3. PICK t \in Seq(Ascii) : t = text
  <2>1. 1 .. 127 \subseteq Ascii
    BY DEF Ascii
  <2>2. text \in Seq(1 .. 127)
    BY <1>1, KeysAndTexts, Zenon
  <2> QED
    BY <2>1, <2>2, SeqInLarger, Zenon
<1>4. files \in [Files -> Seq(Ascii)] /\ files["a"] = t /\ files["b"] = <<>>
  <2>1. files = [f \in Files |-> IF f = "a" THEN t ELSE <<>>]
    BY <1>1, <1>3 DEF Files
  <2>2. "a" # "b" /\ "a" \in Files /\ "b" \in Files
    BY DEF Files
  <2> QED
    BY <1>3, <2>1, <2>2, HexIsAscii, Zenon
<1>5. holds \in [Files -> Kinds] /\ holds["a"] = "text" /\ holds["b"] = "nothing"
  BY <1>1 DEF Files, Kinds
<1>6. \A f \in Files : MorseHolds(files[f], holds[f], text, KeyGiven(options.key))
  <2>1. MorseHolds(files["a"], holds["a"], text, KeyGiven(options.key))
    BY <1>3, <1>4, <1>5 DEF MorseHolds
  <2>2. MorseHolds(files["b"], holds["b"], text, KeyGiven(options.key))
    BY <1>4, <1>5 DEF MorseHolds
  <2> QED
    BY <2>1, <2>2, Zenon DEF Files
<1> QED
  BY <1>1, <1>2, <1>3, <1>4, <1>5, <1>6, Zenon DEF MorseInv

\* A run that leaves what it says keeps the invariant.
LEMMA MorseLeaves ==
  ASSUME MorseInv, tool = "morse", NEW y \in Files, NEW out \in Seq(Ascii), NEW what \in Kinds,
         Leaves(y, out, what), MorseHolds(out, what, text, KeyGiven(options.key))
  PROVE  MorseInv'
<1>1. /\ options \in MorseOptions /\ IsKey(KeyGiven(options.key)) /\ text \in Seq(Ascii)
      /\ files \in [Files -> Seq(Ascii)] /\ holds \in [Files -> Kinds]
      /\ \A f \in Files : MorseHolds(files[f], holds[f], text, KeyGiven(options.key))
  BY Zenon DEF MorseInv
<1>2. /\ files' = [files EXCEPT ![y] = out] /\ holds' = [holds EXCEPT ![y] = what]
      /\ options' = options /\ text' = text
  BY Zenon DEF Leaves
<1>3. files' \in [Files -> Seq(Ascii)] /\ holds' \in [Files -> Kinds]
  BY <1>1, <1>2, Zenon
<1>4. ASSUME NEW f \in Files PROVE MorseHolds(files'[f], holds'[f], text, KeyGiven(options.key))
  <2>1. CASE f = y
    BY <1>1, <1>2, <2>1, Zenon
  <2>2. CASE f # y
    BY <1>1, <1>2, <2>2, Zenon
  <2> QED
    BY <2>1, <2>2
<1> QED
  BY <1>1, <1>2, <1>3, <1>4, Zenon DEF MorseInv

\* A run of -f -e prints ASCII.
LEMMA SendsPrint ==
  ASSUME NEW key, IsKey(key), NEW stray, NEW c \in Seq(Ascii)
  PROVE  M!EncryptMorse(c, key, stray).out \in Seq(Ascii)
<1>1. M!EncryptMorse(c, key, stray) = Sends(EncBegin, c, key, stray)
  BY EncryptIsSends, Zenon
<1>2. EncBegin \in Sender
  BY EncBeginType
<1>3. \A t \in Seq(Ascii) : Sends(EncBegin, t, key, stray) \in Sender
  BY <1>2, SendsType, Zenon
<1>4. PICK s \in Sender : s = M!EncryptMorse(c, key, stray)
  BY <1>1, <1>3, Zenon
<1>5. s.out \in Seq(Ascii)
  BY DEF Sender
<1> QED
  BY <1>4, <1>5, Zenon

\* What a run of -f -e prints, and what it is when the run has read the text
\* or a text that is encrypted to the same.
LEMMA EncryptLeaves ==
  ASSUME NEW key, IsKey(key), NEW stray, NEW t \in Seq(Ascii), NEW c \in Seq(Ascii), NEW h,
         h \in {"text", "back"}, MorseHolds(c, h, t, key),
         NEW r, r = M!EncryptMorse(c, key, stray)
  PROVE  /\ r.out \in Seq(Ascii)
         /\ r.state = "good" => MorseHolds(r.out, "cipher", t, key)
<1>1. r.out \in Seq(Ascii)
  BY SendsPrint, Zenon
<1>2. ASSUME r.state = "good", InLines(t) PROVE Encrypts(t, r, key)
  <2>1. CASE h = "text"
    <3>1. r = M!EncryptMorse(t, key, stray)
      BY <2>1, Zenon DEF MorseHolds
    <3> QED
      BY <1>2, <3>1, Zenon DEF Encrypts
  <2>2. CASE h = "back"
    <3>1. PICK e : Encrypts(t, e, key) /\ ReadBack(t, c, e, key)
      BY <1>2, <2>2, Zenon DEF MorseHolds
    <3>2. r = e
      BY <3>1, Zenon DEF ReadBack
    <3> QED
      BY <3>1, <3>2, Zenon
  <2> QED
    BY <2>1, <2>2
<1>3. ASSUME r.state = "good" PROVE MorseHolds(r.out, "cipher", t, key)
  <2>1. "cipher" # "text" /\ "cipher" # "nothing" /\ "cipher" # "back"
    OBVIOUS
  <2> QED
    BY <1>2, <1>3, <2>1, Zenon DEF MorseHolds
<1> QED
  BY <1>1, <1>3, Zenon

\* The same of a run of -f -d.
LEMMA DecryptLeaves ==
  ASSUME NEW key, IsKey(key), NEW t \in Seq(Ascii), NEW c \in Seq(Ascii),
         NEW r, r = M!DecryptMorse(c, key)
  PROVE  /\ r.out \in Seq(Ascii)
         /\ MorseHolds(c, "cipher", t, key) => MorseHolds(r.out, "back", t, key)
<1>1. r \in Receiver
  <2>1. r = Takes(DecBegin, c, key)
    BY DecryptIsTakes, Zenon
  <2>2. DecBegin \in Receiver
    BY DecBeginType
  <2> QED
    BY <2>1, <2>2, TakesType, Zenon
<1>2. r.out \in Seq(Ascii)
  BY <1>1 DEF Receiver
<1>3. ASSUME MorseHolds(c, "cipher", t, key), InLines(t)
      PROVE  \E e : Encrypts(t, e, key) /\ ReadBack(t, r.out, e, key)
  <2>1. PICK e : Encrypts(t, e, key) /\ c = e.out
    BY <1>3, Zenon DEF MorseHolds
  <2>2. PICK stray : e = M!EncryptMorse(t, key, stray) /\ e.state = "good"
    BY <2>1, Zenon DEF Encrypts
  <2>3. PICK u : ReadBack(t, u, e, key)
    BY <1>3, <2>2, MorseReadsBack, Zenon
  <2>4. r.out = u
    BY <2>1, <2>3, Zenon DEF ReadBack
  <2> QED
    BY <2>1, <2>3, <2>4, Zenon
<1>4. ASSUME MorseHolds(c, "cipher", t, key) PROVE MorseHolds(r.out, "back", t, key)
  <2>1. "back" # "text" /\ "back" # "nothing" /\ "back" # "cipher"
    OBVIOUS
  <2> QED
    BY <1>3, <1>4, <2>1, Zenon DEF MorseHolds
<1> QED
  BY <1>2, <1>4, Zenon

\* A run of hw1 -f leaves a file as the invariant says.
LEMMA MorseStep == MorseInv /\ [Next]_vars => MorseInv'
<1> SUFFICES ASSUME MorseInv, [Next]_vars, tool' = "morse" PROVE MorseInv'
  BY DEF MorseInv
<1>0. tool = "morse"
  BY NextKeeps
<1>1. /\ options \in MorseOptions /\ IsKey(KeyGiven(options.key)) /\ text \in Seq(Ascii)
      /\ files \in [Files -> Seq(Ascii)] /\ holds \in [Files -> Kinds]
      /\ \A f \in Files : MorseHolds(files[f], holds[f], text, KeyGiven(options.key))
  BY <1>0, Zenon DEF MorseInv
<1>2. \/ UNCHANGED vars
      \/ \E x \in Files, y \in Files : \E begins \in BOOLEAN :
           EncryptMorse(x, y, begins) \/ DecryptMorse(x, y, begins)
  BY <1>0 DEF Next, Refuse, Convert, Encrypt, Decrypt
<1>3. CASE UNCHANGED vars
  BY <1>0, <1>1, <1>3, Zenon DEF vars, MorseInv
<1>a. fm_key = KeyGiven(options.key)
  BY Zenon DEF fm_key, KeyGiven
<1>b. \A out \in Seq(Ascii) : MorseHolds(out, "partial", text, KeyGiven(options.key))
  BY DEF MorseHolds
<1>c. "cipher" \in Kinds /\ "back" \in Kinds /\ "partial" \in Kinds
  BY DEF Kinds
<1>d. <<>> \in Seq(Ascii)
  BY EmptySeq
<1>4. ASSUME NEW x \in Files, NEW y \in Files, NEW begins \in BOOLEAN, EncryptMorse(x, y, begins)
      PROVE  MorseInv'
  <2>1. holds[x] \in {"text", "back"}
    BY <1>4, Zenon DEF EncryptMorse
  <2>2. PICK stray, r : /\ r = M!EncryptMorse(IF begins THEN files[x] ELSE <<>>, fm_key, stray)
                        /\ Leaves(y, r.out, IF r.state = "good" /\ begins THEN "cipher" ELSE "partial")
    BY <1>4, Zenon DEF EncryptMorse
  <2>3. PICK c \in Seq(Ascii) : c = IF begins THEN files[x] ELSE <<>>
    BY <1>1, <1>d, Zenon
  <2>4. r = M!EncryptMorse(c, KeyGiven(options.key), stray)
    BY <1>a, <2>2, <2>3, Zenon
  <2>5. r.out \in Seq(Ascii)
    BY <1>1, <2>4, SendsPrint, Zenon
  <2>6. CASE r.state = "good" /\ begins
    <3>1. Leaves(y, r.out, "cipher")
      BY <2>2, <2>6, Zenon
    <3>2. MorseHolds(c, holds[x], text, KeyGiven(options.key))
      BY <1>1, <2>3, <2>6, Zenon
    <3>3. MorseHolds(r.out, "cipher", text, KeyGiven(options.key))
      BY <1>1, <2>1, <2>4, <2>6, <3>2, EncryptLeaves, Zenon
    <3> QED
      BY <1>0, <1>c, <2>5, <3>1, <3>3, MorseLeaves, Zenon
  <2>7. CASE ~(r.state = "good" /\ begins)
    <3>1. Leaves(y, r.out, "partial")
      BY <2>2, <2>7, Zenon
    <3> QED
      BY <1>0, <1>b, <1>c, <2>5, <3>1, MorseLeaves, Zenon
  <2> QED
    BY <2>6, <2>7, Zenon
<1>5. ASSUME NEW x \in Files, NEW y \in Files, NEW begins \in BOOLEAN, DecryptMorse(x, y, begins)
      PROVE  MorseInv'
  <2>1. holds[x] = "cipher"
    BY <1>5, Zenon DEF DecryptMorse
  <2>2. PICK r : /\ r = M!DecryptMorse(IF begins THEN files[x] ELSE <<>>, fm_key)
                 /\ Leaves(y, r.out, IF r.state = "good" /\ begins THEN "back" ELSE "partial")
    BY <1>5, Zenon DEF DecryptMorse
  <2>3. PICK c \in Seq(Ascii) : c = IF begins THEN files[x] ELSE <<>>
    BY <1>1, <1>d, Zenon
  <2>4. r = M!DecryptMorse(c, KeyGiven(options.key))
    BY <1>a, <2>2, <2>3, Zenon
  <2>5. r.out \in Seq(Ascii)
    BY <1>1, <2>4, DecryptLeaves, Zenon
  <2>6. CASE r.state = "good" /\ begins
    <3>1. Leaves(y, r.out, "back")
      BY <2>2, <2>6, Zenon
    <3>2. MorseHolds(c, "cipher", text, KeyGiven(options.key))
      BY <1>1, <2>1, <2>3, <2>6, Zenon
    <3>3. MorseHolds(r.out, "back", text, KeyGiven(options.key))
      BY <1>1, <2>4, <3>2, DecryptLeaves, Zenon
    <3> QED
      BY <1>0, <1>c, <2>5, <3>1, <3>3, MorseLeaves, Zenon
  <2>7. CASE ~(r.state = "good" /\ begins)
    <3>1. Leaves(y, r.out, "partial")
      BY <2>2, <2>7, Zenon
    <3> QED
      BY <1>0, <1>b, <1>c, <2>5, <3>1, MorseLeaves, Zenon
  <2> QED
    BY <2>6, <2>7, Zenon
<1> QED
  BY <1>2, <1>3, <1>4, <1>5, Zenon

\* What -f -e has encrypted, -f -d decrypts, up to runs of spaces, for all
\* texts and all keys (morsecipher.c, hw1.c).
THEOREM MorseSurvives == Spec => []MorseRoundTrip
<1>1. MorseInv => MorseRoundTrip
  <2> SUFFICES ASSUME MorseInv, tool = "morse", InLines(text), NEW f \in Files, holds[f] = "back"
               PROVE  Squeezed(files[f]) = Squeezed(text)
    BY Zenon DEF MorseRoundTrip
  <2>1. MorseHolds(files[f], holds[f], text, KeyGiven(options.key))
    BY Zenon DEF MorseInv
  <2>2. PICK e : ReadBack(text, files[f], e, KeyGiven(options.key))
    BY <2>1, Zenon DEF MorseHolds
  <2> QED
    BY <2>2, Zenon DEF ReadBack
<1> QED
  BY MorseInit, MorseStep, <1>1, PTL DEF Spec

AnyOptions == PolyOptions \cup {[NoOptions EXCEPT !.key = k] : k \in MorseKeys \cup {P!NoKey}}

\* The uses of the two programs, and what hw1 is given.
Given == tool \in {"utf", "poly", "morse"} /\ options \in AnyOptions

\* It is so at first.
LEMMA GivenInit == Init => Given
<1> SUFFICES ASSUME Init PROVE Given
  OBVIOUS
<1>1. NoOptions = [NoOptions EXCEPT !.key = P!NoKey]
  BY DEF NoOptions
<1>2. NoOptions \in AnyOptions
  BY <1>1, Zenon DEF AnyOptions
<1>3. CASE InitUtf
  BY <1>2, <1>3 DEF InitUtf, Given
<1>4. CASE InitPoly
  BY <1>4, Zenon DEF InitPoly, Given, AnyOptions
<1>5. CASE InitMorse
  BY <1>5, Zenon DEF InitMorse, Given, AnyOptions
<1> QED
  BY <1>3, <1>4, <1>5, Zenon DEF Init

\* No run changes either.
LEMMA GivenStep == Given /\ [Next]_vars => Given'
<1> SUFFICES ASSUME Given, [Next]_vars PROVE Given'
  OBVIOUS
<1>1. tool' = tool /\ options' = options
  BY NextKeeps
<1> QED
  BY <1>1, Zenon DEF Given, AnyOptions, NoOptions

\* Whatever the program, a file is a sequence of bytes, and one that stands
\* for nothing is empty (utf.c, hw1.c).
THEOREM TypeCorrect == Spec => []TypeOK
<1>1. Given /\ UtfInv /\ PolyInv /\ MorseInv => TypeOK
  <2> SUFFICES ASSUME Given, UtfInv, PolyInv, MorseInv PROVE TypeOK
    OBVIOUS
  <2>1. Ascii \subseteq Bytes
    BY DEF Ascii, Bytes
  <2>2. \A s \in Seq(Ascii) : s \in Seq(Bytes)
    <3> TAKE s \in Seq(Ascii)
    <3> QED
      BY <2>1, SeqInLarger, Zenon
  <2>3. /\ \A f \in Files : files[f] \in Seq(Bytes)
        /\ holds \in [Files -> Kinds]
        /\ \A f \in Files : holds[f] = "nothing" => files[f] = <<>>
    <3>1. CASE tool = "utf"
      BY <3>1, Zenon DEF UtfInv, Kinds
    <3>2. CASE tool = "poly"
      BY <2>2, <3>2, Zenon DEF PolyInv, PolyHolds
    <3>3. CASE tool = "morse"
      BY <2>2, <3>3, Zenon DEF MorseInv, MorseHolds
    <3> QED
      BY <3>1, <3>2, <3>3, Zenon DEF Given
  <2> QED
    <3>1. Bytes = 0 .. 255
      BY DEF Bytes
    <3> QED
      BY <2>3, <3>1, Zenon DEF Given, AnyOptions, Kinds, TypeOK
<1> QED
  BY GivenInit, GivenStep, UtfInit, UtfStep, PolyInit, PolyStep, MorseInit, MorseStep, <1>1, PTL DEF Spec
=============================================================================
