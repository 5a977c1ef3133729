------------------------------ MODULE MCMqttClient ------------------------------
(* Instances of MqttClient for TLC: a start at boot and two restarts. *)
EXTENDS MqttClient

CONSTANTS m1, m2, m3

MCThreads == {m1, m2, m3}
=============================================================================
