---------------------------- MODULE MCViewNavigation ----------------------------
(* Small instances of ViewNavigation. *)
EXTENDS ViewNavigation

MCStrides == {-5, 3}

================================================================================
