------------------------------ MODULE MCLupaClient ------------------------------
(* Small instances of LupaClient: a tile of the lowest level and two of detail. *)
EXTENDS LupaClient, TLC

MCLevel == "top" :> 0 @@ "left" :> 1 @@ "right" :> 1

\* The detail has room for one of its tiles; the transient budget has room for
\* one of them, or for two of the lowest level.
MCBytes == "top" :> 1 @@ "left" :> 2 @@ "right" :> 2

\* The first connection receives two tiles, the second one.
MCDeliveries == <<2, 1>>

================================================================================
