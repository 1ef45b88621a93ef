---------------------------- MODULE MCTextTools ----------------------------
(* An instance of TextTools for TLC: texts at the boundaries of the ranges  *)
(* that the encodings treat differently; tables of every accepted size.     *)
EXTENDS TextTools, TLC

UpTo(S, n) == UNION {[1 .. k -> S] : k \in 0 .. n}

Points == {65, \h7F, \h80, \h7FF, \h800, \hD7FF, \hE000, \hFFFF, \h10000, \h103FF,
           \h10400, \h1F600, \h10FBFF, \h10FC00, \h10FFFF}
PointTexts == UpTo(Points, 2)

\* ! A ~ space tab newline, and a character outside the alphabet.
LetterTexts == UpTo({33, 65, 126, 32, 9, 10, 127}, 2)
Tables ==
  [rows : {0, 8, 9, 10, 12, 15, 16}, columns : {0, 9, 10, 11, 15},
   key : {P!NoKey, <<>>, <<126, 65>>, <<65, 65>>}]

\* A E S 1 a ~ space newline; longer texts of fewer characters.
CodeTexts ==
  UpTo({65, 69, 83, 49, 97, 126, 32, 10}, 4) \cup UpTo({65, 69, 83, 32, 10}, 5)
    \cup UpTo({65, 69, 32, 10}, 6)
Keys == {P!NoKey, <<81, 65>>, <<65, 65>>}
=============================================================================
