------------------------------ MODULE MCSupervisor ------------------------------
(* Instances of Supervisor for TLC: the index starts inside the array, just below *)
(* it, or past it.                                                                *)
EXTENDS Supervisor

MCFirstIndex == {-6, -2, 0, 2, 4}
=============================================================================
