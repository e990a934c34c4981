--------------------------- MODULE MCSmtpSession ---------------------------
(* SmtpSession on two addresses, for TLC. *)
EXTENDS SmtpSession, TLC

Symmetry == Permutations(Addresses)

=============================================================================
