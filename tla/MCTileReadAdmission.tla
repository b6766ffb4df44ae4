--------------------------- MODULE MCTileReadAdmission ---------------------------
(***************************************************************************)
(* A small instance of TileReadAdmission.  The sizes of tiles are given in *)
(* quanta: a turn that is free, and one above the cap of four quanta.      *)
(***************************************************************************)
EXTENDS TileReadAdmission

================================================================================
