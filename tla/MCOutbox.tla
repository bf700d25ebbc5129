------------------------------ MODULE MCOutbox ------------------------------
(* Small instances of Outbox for TLC. *)
EXTENDS Outbox, TLC

CONSTANTS a, b

\* Identities are interchangeable: no definition orders or names them.
IdentitySymmetry == Permutations(Identities)
=============================================================================
