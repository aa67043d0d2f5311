----------------------------- MODULE MCApproval -----------------------------
(* Small instances of Approval for TLC. *)
EXTENDS Approval

CONSTANTS r1, alice, bob, carol

MCRequests == {r1}
MCUsers == {alice, bob, carol}
MCCreators == {alice}
MCAdmins == {alice}
MCPolicy == [r \in MCRequests |-> BuiltinPolicy("critical")]
=============================================================================
