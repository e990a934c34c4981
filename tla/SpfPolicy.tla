----------------------------- MODULE SpfPolicy -----------------------------
(***************************************************************************)
(* SpfVerifier::parse_record and SpfVerifier::evaluate of src/auth/spf.rs. *)
(* A record is whether it begins with the term v=spf1, and its other       *)
(* terms.  A term is a sign, which may be missing, the kind of mechanism   *)
(* it names, and for ip4 and ip6 the network and the prefix length, if it  *)
(* has one.  An IPv4 address is a sequence of one number, an IPv6 address  *)
(* that of its segments.                                                   *)
(***************************************************************************)
EXTENDS Integers, SequencesExt

CONSTANTS
  Width4,       \* bits of an IPv4 address: 32
  Segments,     \* segments of an IPv6 address: 8
  SegmentBits   \* bits of a segment: 16

ASSUME SpfAssumption ==
  Width4 \in Nat \ {0} /\ Segments \in Nat \ {0} /\ SegmentBits \in Nat \ {0}

\* `x & mask', for the mask that clears the low `bits' bits.
HighBits(x, bits) == x - (x % 2^bits)

-----------------------------------------------------------------------------
(* Addresses. *)

\* Variant: the mask is one bit too short.
InCidr4OffByOne(ip, network, cidr, checked) ==
  IF cidr < 2 \/ HighBits(ip, (Width4 + 1 - cidr) % Width4) = HighBits(network, (Width4 + 1 - cidr) % Width4)
  THEN "yes" ELSE "no"

\* ip_in_cidr4.  `32 - cidr' overflows for a longer prefix: a build with overflow checks panics,
\* another one shifts by that number modulo the width.
InCidr4(ip, network, cidr, checked) ==
  IF cidr > Width4 /\ checked THEN "panic"
  ELSE IF cidr = 0 \/ HighBits(ip, (Width4 - cidr) % Width4) = HighBits(network, (Width4 - cidr) % Width4)
       THEN "yes" ELSE "no"

\* ip_in_cidr6: whole segments, then the high bits of the next one.  A prefix that is a segment
\* longer than the address runs past the array, unless a segment differs before that.
InCidr6(ip, network, cidr) ==
  LET full == cidr \div SegmentBits
      left == cidr % SegmentBits
      same == \A i \in 1..Segments : i <= full => ip[i] = network[i]
  IN IF ~ same THEN "no"
     ELSE IF full > Segments THEN "panic"
     ELSE IF left > 0 /\ full < Segments =>
               HighBits(ip[full + 1], SegmentBits - left) = HighBits(network[full + 1], SegmentBits - left)
          THEN "yes" ELSE "no"

-----------------------------------------------------------------------------
(* parse_record. *)

\* The mechanisms that need DNS; every other term that begins with an "a" is taken for "a".
DnsMechanisms == {"a", "mx", "ptr", "exists", "include"}

\* parse_mechanism: None for a name it does not know and for an address or a length that is none.
ParseMechanism(term) ==
  CASE term.kind \in {"all"} \cup DnsMechanisms -> <<[kind |-> term.kind]>>
    [] term.kind = "ip4" ->
         <<[kind |-> "ip4", network |-> term.network,
            cidr |-> IF term.cidr = <<>> THEN Width4 ELSE Head(term.cidr)]>>
    [] term.kind = "ip6" ->
         <<[kind |-> "ip6", network |-> term.network,
            cidr |-> IF term.cidr = <<>> THEN Segments * SegmentBits ELSE Head(term.cidr)]>>
    [] OTHER -> <<>>

\* parse_qualifier: its result is not kept with the mechanism.
ParseQualifier(term) == IF term.sign = "" THEN "+" ELSE term.sign

ParseTerm(policy, term) ==
  IF ~ policy.ok THEN policy
  ELSE IF term.kind = "modifier" THEN [policy EXCEPT !.modifiers = @ + 1]
  ELSE IF ParseMechanism(term) = <<>> THEN [policy EXCEPT !.ok = FALSE]
  ELSE [policy EXCEPT !.mechanisms = @ \o ParseMechanism(term)]

ParseSpf(record) ==
  FoldLeft(ParseTerm,
           [ok |-> record.version, mechanisms |-> <<>>, modifiers |-> 0, default |-> "Neutral"],
           record.terms)

-----------------------------------------------------------------------------
(* evaluate. *)

MatchesMechanism(mechanism, ip, checked) ==
  CASE mechanism.kind = "all" -> "yes"
    [] mechanism.kind = "ip4" /\ ip.version = 4 ->
         InCidr4(ip.address[1], mechanism.network[1], mechanism.cidr, checked)
    [] mechanism.kind = "ip6" /\ ip.version = 6 ->
         InCidr6(ip.address, mechanism.network, mechanism.cidr)
    [] OTHER -> "no"

\* The first mechanism that matches makes it Pass.
EvaluateSpf(policy, ip, checked) ==
  LET outcome(i) == MatchesMechanism(policy.mechanisms[i], ip, checked)
      first      == SelectInSeq([i \in DOMAIN policy.mechanisms |-> outcome(i)], LAMBDA o : o # "no")
  IN IF first = 0 THEN policy.default
     ELSE IF outcome(first) = "yes" THEN "Pass" ELSE "panic"

=============================================================================
