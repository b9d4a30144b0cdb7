-------------------------------- MODULE MCHeap ------------------------------
(***************************************************************************)
(* Small instances of Heap for TLC, in units of a third of a megabyte    *)
(* for the places of the heap and of the mapped memory.                    *)
(***************************************************************************)
EXTENDS Heap
=============================================================================
