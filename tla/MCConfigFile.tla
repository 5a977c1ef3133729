----------------------------- MODULE MCConfigFile -----------------------------
(* Instances of ConfigFile for TLC. *)
EXTENDS ConfigFile

CONSTANTS s1, c1
MCStarters == {s1}
MCClients == {c1}
MCFields == {1, 2}
MCValues == {1, 2}
MCByte == 0..2
\* A field takes as many bytes as its value says; a zero ends the text.
Field(v) == [i \in 1..v |-> v]
MCText == [c \in [MCFields -> MCValues] |-> Field(c[1]) \o Field(c[2]) \o <<0>>]
=============================================================================
