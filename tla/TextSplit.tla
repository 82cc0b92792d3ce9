------------------------------ MODULE TextSplit ------------------------------
(***************************************************************************)
(* splitTextMessage and bestTextSplit, internal/relay/service.go: a text    *)
(* that is too long for one MAX message is cut into pieces of at most       *)
(* maxBytes bytes, at white space where there is some in the second half of *)
(* a piece, and never inside a UTF-8 character if that can be avoided.      *)
(*                                                                          *)
(* A byte is what the algorithm tells apart: white space, another           *)
(* single-byte character, the first byte of a longer character, or a        *)
(* continuation byte.  The text of a mail need not be valid UTF-8.  One     *)
(* step is one turn of the loop.                                            *)
(***************************************************************************)
EXTENDS Integers, SequencesExt

CONSTANTS Limits,      \* values of maxBytes (4000 in the code)
          MaxLength    \* bound: bytes of a text

ASSUME TextSplitAssumption == Limits \subseteq Int /\ MaxLength \in Nat

VARIABLES original,   \* the text of the call
          maxBytes,
          text,       \* what is left of it
          parts,
          returned

vars == <<original, maxBytes, text, parts, returned>>

Bytes == {"white", "single", "lead", "more"}

RuneStart(byte) == byte # "more"

Init ==
    /\ original \in BoundedSeq(Bytes, MaxLength)
    /\ maxBytes \in Limits
    /\ text = original
    /\ parts = <<>>
    /\ returned = FALSE

\* Cuts after maxBytes bytes, whatever comes there.
RuneCutAnywhere(t, max) == max

\* Without the fallback for a text that has no beginning of a character.
RuneCutOrNothing(t, max) == Max({0} \union {cut \in 1 .. max : RuneStart(t[cut + 1])})

\* The last place, up to max, before the beginning of a character; max if there
\* is none.
RuneCut(t, max) ==
    LET cuts == {cut \in 1 .. max : RuneStart(t[cut + 1])}
    IN  IF cuts = {} THEN max ELSE Max(cuts)

\* The place after the last white space before cut, if it is not in the first
\* half of the piece.
bestTextSplit(t, max) ==
    LET cut == RuneCut(t, max)
        breaks == {i \in 1 .. cut : t[i] = "white" /\ i - 1 >= max \div 2}
    IN  IF breaks = {} THEN cut ELSE Max(breaks)

\* A split that swallows the byte at the cut.
SplitSwallowing ==
    LET cut == bestTextSplit(text, maxBytes)
    IN  /\ ~returned
        /\ maxBytes > 0 /\ Len(text) > maxBytes
        /\ parts' = Append(parts, SubSeq(text, 1, cut))
        /\ text' = SubSeq(text, cut + 2, Len(text))
        /\ UNCHANGED <<original, maxBytes, returned>>

\* A turn of the loop.
Split ==
    LET cut == bestTextSplit(text, maxBytes)
    IN  /\ ~returned
        /\ maxBytes > 0 /\ Len(text) > maxBytes
        /\ parts' = Append(parts, SubSeq(text, 1, cut))
        /\ text' = SubSeq(text, cut + 1, Len(text))
        /\ UNCHANGED <<original, maxBytes, returned>>

\* After the loop, or instead of it: the rest, unless the loop left none.
Return ==
    /\ ~returned
    /\ maxBytes <= 0 \/ Len(text) <= maxBytes
    /\ parts' = IF text = <<>> /\ parts # <<>> THEN parts ELSE Append(parts, text)
    /\ text' = <<>>
    /\ returned' = TRUE
    /\ UNCHANGED <<original, maxBytes>>

Next == Split \/ Return

Spec == Init /\ [][Next]_vars
-----------------------------------------------------------------------------
\* Nothing is lost, repeated or moved: at every turn the pieces and what is left
\* are the text of the mail.
Lossless == FlattenSeq(parts) \o text = original

\* Every piece of a split text fits into a message, and none is empty: a turn of
\* the loop always takes something.
PiecesFit ==
    maxBytes > 0 /\ original # <<>> =>
        \A i \in DOMAIN parts : Len(parts[i]) \in 1 .. maxBytes

\* t is made of whole characters of at most n bytes.
WholeRunes(t, n) ==
    /\ \A i \in DOMAIN t : t[i] = "more" => i > 1 /\ t[i - 1] \in {"lead", "more"}
    /\ \A i \in 1 .. Len(t) - n : \E j \in i + 1 .. i + n : RuneStart(t[j])

\* Characters that fit into a message are never cut apart: every piece of a text
\* made of such characters begins with the first byte of one.
RunesKept ==
    maxBytes > 0 /\ WholeRunes(original, maxBytes) =>
        \A i \in DOMAIN parts : parts[i] # <<>> => RuneStart(parts[i][1])
=============================================================================
