------------------------------- MODULE MCDevice -------------------------------
(* An instance of Device for TLC. *)
EXTENDS Device

unidoli == <<"uni", "doli">>
unidoli888 == <<"uni", "doli", "888">>
home == <<"home">>
other == <<"other">>

\* A new device's name and one that differs by a blank from it.
MCNames == {unidoli, <<"uni", " ", "doli">>, home}
MCPasswords == {unidoli888, other, Empty}
MCFactory == [ssid |-> unidoli, psk |-> unidoli888]
MCLong == {home, other}
MCDeltas == {1, 255}
MCOrders ==
    {[cmd |-> "setAbtAngle", vertical |-> -1, level |-> 40000],
     [cmd |-> "setRelAngle", vertical |-> -32768, level |-> 300],
     [cmd |-> "setSector", vertical |-> 1, level |-> -256, angle |-> 90],
     [cmd |-> "resetPosition"],
     [cmd |-> "setSector", vertical |-> 1, level |-> 2]}
=============================================================================
