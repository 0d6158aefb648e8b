------------------------------- MODULE Prefix -------------------------------
(***************************************************************************)
(* From the messages of a request to its fingerprints (PrefixText in       *)
(* internal/router/model.go, Fingerprints in internal/prefix/prefix.go).   *)
(* A text is a sequence of bytes; all that matters of a byte is whether it *)
(* separates words. A prompt that is a string or an array is the case of   *)
(* one message or one per part.                                            *)
(***************************************************************************)
EXTENDS Integers, SequencesExt

CONSTANTS
  Letters,       \* bytes that are part of words
  Space,         \* a byte that separates words
  PrefixLengths, \* in words
  MAX_PREFIX_LENGTH \* in bytes

ASSUME SpaceAssumption == Space \notin Letters
ASSUME LengthsAssumption ==
  PrefixLengths \subseteq Nat \ {0} /\ MAX_PREFIX_LENGTH \in Nat

\* Mutant: the text is not cut off.
PrefixTextUncut(messages) == FlattenSeq(messages)

\* The contents one after the other, with nothing between them, cut off at the
\* limit. The early returns of the loop give the same text.
PrefixText(messages) ==
  LET out == FlattenSeq(messages)
  IN  SubSeq(out, 1, Min({MAX_PREFIX_LENGTH, Len(out)}))

\* One more byte of a text: a letter after a letter continues the last word,
\* and any other letter begins one.
AddByte(text, ws, i) ==
  CASE text[i] = Space -> ws
    [] text[i] # Space /\ i > 1 /\ text[i - 1] # Space ->
         [ws EXCEPT ![Len(ws)] = Append(@, text[i])]
    [] OTHER -> Append(ws, <<text[i]>>)

\* Mutant: the words come in reverse.
wordsReversed(text) ==
  Reverse(FoldLeftDomain(LAMBDA ws, i : AddByte(text, ws, i), <<>>, text))

\* Normalize and the pattern \S+: the maximal runs of letters.
words(text) == FoldLeftDomain(LAMBDA ws, i : AddByte(text, ws, i), <<>>, text)

\* One print for every length the text has words for. SHA-256 is taken to be
\* injective, so the words stand for their hash.
Fingerprints(text, lengths) ==
  {[Length |-> n, Hash |-> SubSeq(words(text), 1, n)] :
     n \in {l \in lengths : l <= Len(words(text))}}
=============================================================================
