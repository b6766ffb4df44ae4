----------------------------- MODULE TileReadShares -----------------------------
(***************************************************************************)
(* How DRR admission divides the disk between sessions that always want    *)
(* the next tile: every owner asks again before anything else happens, so  *)
(* each is active or queued all the time, and the tiles of an owner all    *)
(* have one size.                                                          *)
(***************************************************************************)
EXTENDS TileReadAdmission

CONSTANT TileBytes     \* [Owners -> Nat \ {0}], bytes of every tile of an owner

VARIABLE served        \* history: bytes read on behalf of an owner

sharesVars == <<vars, served>>

SharesInit == Init /\ served = [o \in Owners |-> 0]

\* An idle owner asks before any turn ends.
AllBacklogged == outstandingOwners = Owners

SharesNext ==
    \/ /\ \/ \E o \in Owners : AcquireGranted(o) \/ AcquireQueued(o)
          \/ VisitGrant \/ VisitRotate \/ ReturnPermit
       /\ UNCHANGED served
    \/ /\ AllBacklogged
       /\ \E o \in Owners :
            /\ Release(o, TileBytes[o])
            /\ served' = [served EXCEPT ![o] = @ + TileBytes[o]]

SharesSpec == SharesInit /\ [][SharesNext]_sharesVars

\* Approximate fairness in bytes between sessions that always have work
\* (docs/LUPA_DRR.md, "equidad aproximada por bytes servidos"): whoever was
\* served most is at most three capped turns ahead of whoever was served least.
ByteShares ==
    \A o, p \in Owners : served[o] - served[p] <= 3 * MaxCost

================================================================================
