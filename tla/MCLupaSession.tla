------------------------------ MODULE MCLupaSession ------------------------------
(* Small instances of LupaSession. *)
EXTENDS LupaSession, TLC

================================================================================
