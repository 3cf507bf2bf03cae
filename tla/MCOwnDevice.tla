----------------------------- MODULE MCOwnDevice -----------------------------
(***************************************************************************)
(* OwnDevice for an account with a top-level role and another one: three   *)
(* runs (one that binds, one that plays and one that trades, in any order),*)
(* two errors or crashes, one move of each role to another shard, and      *)
(* enough redirects to follow the move and one more.                       *)
(***************************************************************************)
EXTENDS OwnDevice

CONSTANTS main, farm

MCRoles == {main, farm}
=============================================================================
