--------------------------- MODULE MCSocketClient ---------------------------
(* Small instances of SocketClient for TLC: two packets, so that one can   *)
(* be told to have overtaken the other.                                    *)
EXTENDS SocketClient

CONSTANTS p1, p2

MCPacket == {p1, p2}
=============================================================================
