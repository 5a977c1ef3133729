------------------------------- MODULE MCCurlFetch -------------------------------
(* Instances of CurlFetch for TLC: two threads in getpushurl, one in getSecret. *)
EXTENDS CurlFetch

CONSTANTS rtmp1, rtmp2, mqtt

MCCallers == {rtmp1, rtmp2, mqtt}
MCSecret  == {mqtt}
MCBodies  == {<<"whole">>, <<"part", "part">>, <<"page">>, <<>>}
=============================================================================
