----------------------------- MODULE SectorStore ----------------------------
(***************************************************************************)
(* What the file system may rely on of a drive: one call at a time, reads  *)
(* that give what was last written, and writes that reach the medium in    *)
(* the order of the calls.  The last write alone may still be on its way   *)
(* when its call has returned, and is lost with the power.                 *)
(***************************************************************************)
CONSTANTS
    Lba,      \* sector addresses
    Sector,   \* contents of a sector
    None      \* no call in progress, or no write on its way

VARIABLES
    sectors,  \* what the medium holds
    call,     \* the call in progress
    onItsWay, \* the write that has returned and is not on the medium
    answer    \* what the call that just returned has read

storeVars == <<sectors, call, onItsWay, answer>>

ReadCall == [op : {"read"}, lba : Lba]
WriteCall == [op : {"write"}, lba : Lba, data : Sector]

StoreInit ==
    /\ sectors \in [Lba -> Sector]
    /\ call = None
    /\ onItsWay = None
    /\ answer = None

Call ==
    /\ call = None
    /\ call' \in ReadCall \cup WriteCall
    /\ answer' = None
    /\ UNCHANGED <<sectors, onItsWay>>

ReturnRead ==
    /\ call \in ReadCall
    /\ onItsWay = None
    /\ answer' = sectors[call.lba]
    /\ call' = None
    /\ UNCHANGED <<sectors, onItsWay>>

ReturnWrite ==
    /\ call \in WriteCall
    /\ onItsWay = None
    /\ onItsWay' = [lba |-> call.lba, data |-> call.data]
    /\ call' = None
    /\ UNCHANGED <<sectors, answer>>

Arrive ==
    /\ onItsWay # None
    /\ sectors' = [sectors EXCEPT ![onItsWay.lba] = onItsWay.data]
    /\ onItsWay' = None
    /\ UNCHANGED <<call, answer>>

LosePower ==
    /\ call' = None
    /\ onItsWay' = None
    /\ answer' = None
    /\ UNCHANGED sectors

StoreNext == Call \/ ReturnRead \/ ReturnWrite \/ Arrive \/ LosePower

StoreSpec == StoreInit /\ [][StoreNext]_storeVars
=============================================================================
