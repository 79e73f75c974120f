------------------------ MODULE MCCredentialRefresh ------------------------
(***************************************************************************)
(* Instances of CredentialRefresh for TLC: two requests, of one process or *)
(* of two.                                                                 *)
(***************************************************************************)
EXTENDS CredentialRefresh

AllOwners == {[r1 |-> "a", r2 |-> "a"], [r1 |-> "a", r2 |-> "b"]}
=============================================================================
