-------------------------------- MODULE MCSender -------------------------------
(***************************************************************************)
(* A flow that is always on, one with an on-phase, and one whose list      *)
(* begins at once.  The clock covers the first second of the measurement   *)
(* and the last on/off event.                                              *)
(***************************************************************************)
EXTENDS Sender

MCSchedules == {<<>>, <<1, 2>>, <<0, 1, 1>>}
================================================================================
