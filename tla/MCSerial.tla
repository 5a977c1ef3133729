-------------------------------- MODULE MCSerial --------------------------------
(* Instances of Serial for TLC. *)
EXTENDS Serial

CONSTANTS p1, p2

MCPanners == {p1, p2}
=============================================================================
