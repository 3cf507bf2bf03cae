--------------------------- MODULE MCServerClock ---------------------------
(***************************************************************************)
(* ServerClock for TLC: a fast round trip is one of less than 2, so a pong *)
(* may be fast, slow, or slower than another.  Of the skews, one puts the  *)
(* server's first times before MinServer.                                  *)
(***************************************************************************)
EXTENDS ServerClock

MCSkews == {-3, 0, 4}

MCMinServer == -1

=============================================================================
