--------------------------- MODULE MCInvitations ----------------------------
(* Instances of Invitations for TLC: one address, which is enough as nothing *)
(* relates two of them, one workspace beside the organization.               *)
EXTENDS Invitations, TLC

CONSTANTS r1, r2

RequestSymmetry == Permutations({r1, r2})
=============================================================================
