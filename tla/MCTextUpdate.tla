---------------------------- MODULE MCTextUpdate ----------------------------
(***************************************************************************)
(* TextUpdate on short texts: all over two letters, all over three letters *)
(* that are shorter still, a few with whitespace, and a few too long for   *)
(* the table.  The largest unsigned short is 6.                            *)
(***************************************************************************)
EXTENDS TextUpdate

CONSTANTS A, B, C

Words(letters, longest) == UNION {[1 .. n -> letters] : n \in 1 .. longest}

Pairs(words) == words \X words

(* Two words with the whitespace between them that is looked for, or none of it. *)
Phrases ==
  {<<x>> \o gap \o <<y>> :
     x \in {A, B}, y \in {A, B}, gap \in {<<Tab, Tab, Newline>>, <<Newline, Tab, Tab>>}}

(* At and beyond what an unsigned short can count. *)
Repeated(letter, n) == [i \in 1 .. n |-> letter]

LongWords == {Repeated(A, 7), Repeated(B, 7), <<A>>}

MCTexts ==
  Pairs(Words({A, B}, 4)) \cup Pairs(Words({A, B, C}, 3)) \cup Pairs(Phrases)
  \cup Pairs(LongWords)

(* Texts with as many characters as an unsigned short can count. *)
MCTextsAtLimit == Pairs({Repeated(A, ShortMax), <<B>>})
=============================================================================
