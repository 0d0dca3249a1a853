----------------------------- MODULE MCDxlGroup ------------------------------
(* Three info structures: a sync read and a sync write on the buffer of    *)
(* the master, and a sync write with a buffer of its own.                   *)
EXTENDS DxlGroup, TLC

CONSTANTS sr, id, sw

InstOf == (sr :> "SYNC_READ") @@ (id :> "SYNC_WRITE") @@ (sw :> "SYNC_WRITE")
Selections == {<<2, 1>>, <<2, 1, 1>>}
=============================================================================
