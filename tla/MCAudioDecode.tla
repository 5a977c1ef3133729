----------------------------- MODULE MCAudioDecode -----------------------------
(* Instances of AudioDecode for TLC. *)
EXTENDS AudioDecode

LetterS == <<1, 1, 0, 3>>
LetterP == <<1, 1, 0, 0>>

\* A text of n letters, none of them with a header or a trailer in its bits.
Letters(n) == [k \in 1..(4 * n) |-> <<1, 2, 0, 1>>[((k - 1) % 4) + 1]]

\* A short network name and a short password, played in any order.
MCShort == {LetterS \o Letters(1), LetterP \o Letters(1)}

\* The shortest frame, the longest that fits, and the shortest and longest that do not.
MCLong == {LetterP, LetterS \o Letters(58), LetterS \o Letters(59), LetterS \o Letters(62)}

\* The frequency below those of the symbols, and one of theirs.
MCStrays == {4500, 7200}
=============================================================================
