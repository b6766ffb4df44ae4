---------------------------- MODULE MCTileReadShares ----------------------------
(***************************************************************************)
(* A session of small tiles against one of tiles four times as large.      *)
(***************************************************************************)
EXTENDS TileReadShares, TLC

CONSTANTS small, large

SmallAndLarge == [o \in Owners |-> IF o = small THEN 1 ELSE 4]

================================================================================
