--------------------------- MODULE MCResultsTransfer ---------------------------
(***************************************************************************)
(* Up to three vector rows in chunks of two: a whole chunk, a part of one, *)
(* and the empty last message of a file that is a multiple of the chunk    *)
(* size all occur.                                                         *)
(***************************************************************************)
EXTENDS ResultsTransfer
================================================================================
