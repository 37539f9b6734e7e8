---------------------------- MODULE MCMsgqLookup ----------------------------
(* Small instances of MsgqLookup.  Sizes keep the order of the real ones:  *)
(* "XXXX" (5 bytes) < a request (128) < a long definition (up to 480).     *)
EXTENDS MsgqLookup

CONSTANTS c1, c2, c3, w1, w2

TwoClients == {c1, c2}
ThreeClients == {c1, c2, c3}
TwoWords == {w1, w2}
OneKnown == {w1}
=============================================================================
