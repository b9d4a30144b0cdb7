-------------------------------- MODULE MCAta -------------------------------
(***************************************************************************)
(* Small instances of Ata for TLC: address registers of one bit, sectors   *)
(* of two words.  The addresses tell the four registers apart.             *)
(***************************************************************************)
EXTENDS Ata

CONSTANTS x, y

MCAddresses == {1, 2, 12}
=============================================================================
