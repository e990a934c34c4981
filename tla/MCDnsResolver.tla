--------------------------- MODULE MCDnsResolver ---------------------------
(* DnsResolver for TLC: two keys, two callers and lifetimes up to two ticks. *)
EXTENDS DnsResolver

CONSTANTS k1, k2, w1, w2

=============================================================================
