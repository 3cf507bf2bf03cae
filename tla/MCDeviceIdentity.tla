-------------------------- MODULE MCDeviceIdentity --------------------------
(***************************************************************************)
(* DeviceIdentity with three runs over one state directory, so that one    *)
(* can meet the files of two others, an id for each of them and one that   *)
(* is on file, two rereads and one error.                                  *)
(***************************************************************************)
EXTENDS DeviceIdentity

CONSTANTS p1, p2, p3, i1, i2, i3, i4

MCProcs == {p1, p2, p3}
MCIds == {i1, i2, i3, i4}
=============================================================================
