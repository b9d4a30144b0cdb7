------------------------------- MODULE MCFile -------------------------------
(***************************************************************************)
(* Small instances of File for TLC: a word of 16 values, so that sums wrap *)
(* within reach, and files of two bytes.                                 *)
(***************************************************************************)
EXTENDS File

CONSTANTS x, y, f1, f2

MCBuffer == {<<>>, <<x>>, <<x, y, x>>}
=============================================================================
