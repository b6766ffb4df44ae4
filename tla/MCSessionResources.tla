---------------------------- MODULE MCSessionResources ----------------------------
(* Small instances of SessionResources. *)
EXTENDS SessionResources, TLC

================================================================================
