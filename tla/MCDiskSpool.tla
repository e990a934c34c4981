---------------------------- MODULE MCDiskSpool ----------------------------
(* DiskSpool with as many ids as messages, for TLC. *)
EXTENDS DiskSpool, TLC

CONSTANTS m1, m2, m3

MCIdOf == m1 :> 1 @@ m2 :> 2 @@ m3 :> 3

=============================================================================
