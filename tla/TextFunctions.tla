----------------------------- MODULE TextFunctions -----------------------------
(***************************************************************************)
(* Percent encoding of one component of a URI, and texts of several parts  *)
(* (text.rs).                                                              *)
(*                                                                         *)
(* A text is a sequence of characters, one byte each; the bytes of longer  *)
(* characters are escaped one by one and do not differ otherwise.          *)
(***************************************************************************)
EXTENDS TableSchema
LOCAL INSTANCE SequencesExt

CONSTANTS
  Characters,  \* characters that escapes stand for
  Reserved,    \* those that GD_COMPONENT escapes: "%", "+", " ", "&" and "="
  Nibbles,     \* Nibbles[c]: the high and the low half of the byte of c
  Digit,       \* Digit[n]: the digit that a half is written with
  DigitValue   \* DigitValue[c]: the half a digit stands for, in either case

-----------------------------------------------------------------------------
(* Percent encoding.                                                       *)

\* push_percent_component.
Encoded(text) ==
  FlattenSeq([k \in DOMAIN text |->
    IF text[k] \in Reserved
    THEN <<"%", Digit[Nibbles[text[k]][1]], Digit[Nibbles[text[k]][2]]>>
    ELSE <<text[k]>>])

\* validate_percent_escapes: from each position on, whether every "%" is
\* followed by two digits.
EscapesAreWhole(text) ==
  LET whole[p \in 1..(Len(text) + 3)] ==
        IF p > Len(text) THEN TRUE
        ELSE IF text[p] # "%" THEN whole[p + 1]
        ELSE /\ p + 2 <= Len(text)
             /\ {text[p + 1], text[p + 2]} \subseteq DOMAIN DigitValue
             /\ whole[p + 3]
  IN whole[1]

\* percent_decode and decode_utf8, of whole escapes; ERR if no character has the
\* byte of one.
PercentDecoded(text) ==
  LET escaped(p) == {c \in Characters :
                       Nibbles[c] = <<DigitValue[text[p + 1]], DigitValue[text[p + 2]]>>}
      from[p \in 1..(Len(text) + 3)] ==
        IF p > Len(text) THEN <<>>
        ELSE LET next == IF text[p] = "%" THEN from[p + 3] ELSE from[p + 1]
                 here == IF text[p] = "%" THEN escaped(p) ELSE {text[p]}
             IN IF next = ERR \/ here = {} THEN ERR ELSE <<CHOOSE c \in here : TRUE>> \o next
  IN from[1]

WithSpaces(text) == [k \in DOMAIN text |-> IF text[k] = "+" THEN " " ELSE text[k]]

\* Mutant: pluses become spaces after the escapes are gone.
DecodedFirst(text) ==
  IF ~EscapesAreWhole(text) THEN ERR
  ELSE IF PercentDecoded(text) = ERR THEN ERR ELSE WithSpaces(PercentDecoded(text))

\* decode_percent_component: a plus becomes a space, an escaped plus does not.
Decoded(text) == IF EscapesAreWhole(text) THEN PercentDecoded(WithSpaces(text)) ELSE ERR

-----------------------------------------------------------------------------
(* Parts, between separators; one that belongs to a part is doubled.       *)

\* The parts that are complete, the one that is being read, and whether the
\* next character belongs to a pair that was read already.
Reading(parts, part, paired) == [parts |-> parts, part |-> part, paired |-> paired]

\* The character at k is looked at together with the one after it.
SplitStep(text, separator, s, k) ==
  IF s.paired THEN Reading(s.parts, s.part, FALSE)
  ELSE IF text[k] # separator THEN Reading(s.parts, Append(s.part, text[k]), FALSE)
  ELSE IF k < Len(text) /\ text[k + 1] = separator
  THEN Reading(s.parts, Append(s.part, separator), TRUE)
  ELSE Reading(Append(s.parts, s.part), <<>>, FALSE)

\* Mutant: the second separator of a pair is looked at again.
SplitPeeking(text, separator) ==
  LET end == FoldLeftDomain(LAMBDA s, k : SplitStep(text, separator, Reading(s.parts, s.part, FALSE), k),
                            Reading(<<>>, <<>>, FALSE), text)
  IN Append(end.parts, end.part)

\* split_escaped
SplitEscaped(text, separator) ==
  LET end == FoldLeftDomain(LAMBDA s, k : SplitStep(text, separator, s, k),
                            Reading(<<>>, <<>>, FALSE), text)
  IN Append(end.parts, end.part)

-----------------------------------------------------------------------------
\* What a writer of such texts does, who is not part of the library.
Joined(parts, separator) ==
  LET doubled(part) == FlattenSeq([k \in DOMAIN part |->
                         IF part[k] = separator THEN <<separator, separator>> ELSE <<part[k]>>])
  IN FlattenSeq([k \in DOMAIN parts |->
                   IF k = 1 THEN doubled(parts[k]) ELSE <<separator>> \o doubled(parts[k])])

\* A part after the first that begins with a separator, or is empty and not the
\* last, puts two separators next to each other that are not a pair.
Separable(parts, separator) ==
  \A k \in 2..Len(parts) : IF parts[k] = <<>> THEN k = Len(parts) ELSE parts[k][1] # separator

\* Splitting loses nothing: joined again, the parts are the text, whatever it is.
\* And parts that are joined come apart as they were, unless two separators got
\* next to each other.
PartsAreReadBack(Alphabet, separator, bound) ==
  LET texts(n) == UNION {[1..k -> Alphabet] : k \in 0..n} IN
  /\ \A text \in texts(bound) : Joined(SplitEscaped(text, separator), separator) = text
  /\ \A parts \in UNION {[1..k -> texts(2)] : k \in 1..3} :
       Separable(parts, separator) => SplitEscaped(Joined(parts, separator), separator) = parts
=============================================================================
