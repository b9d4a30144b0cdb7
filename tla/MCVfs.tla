-------------------------------- MODULE MCVfs -------------------------------
(***************************************************************************)
(* Small instances of Vfs for TLC.  Three names: "a", the cut name "b"     *)
(* and a too long name "bx" that is stored as "b".                         *)
(***************************************************************************)
EXTENDS Vfs

CONSTANTS a, b, bx, x, y

MCNames == {a, b, bx}
MCStored == [n \in Name |-> IF n = bx THEN b ELSE n]

\* Whole commands of the shell: no content is ever written.
MCNoContent == {}
\* A short, a full and an over-long content for two-sector inodes.
MCContent == {<<x>>, <<x, y>>, <<y, x, y>>}
MCInitData == <<x>>
=============================================================================
