----------------------------- MODULE MCGameConn -----------------------------
(***************************************************************************)
(* GameConn on a small instance: two cmds, so that an answer can be late   *)
(* for a request of its own cmd or of another one; two extension requests, *)
(* so that one can follow a request that was given up; limits of one, so   *)
(* that both counters can pass them; one frame on its way at a time (a     *)
(* further one can be sent as soon as the reader has taken it).            *)
(***************************************************************************)
EXTENDS GameConn

CONSTANTS mailCmd, giftCmd

MCCmds == {mailCmd, giftCmd}
=============================================================================
