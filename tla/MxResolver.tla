----------------------------- MODULE MxResolver ----------------------------
(***************************************************************************)
(* The targets of a delivery: MxResolver::resolve of                       *)
(* src/delivery/mx_resolve.rs over MockDnsResolver of src/dns/resolver.rs, *)
(* the resolver of the tests, which follows CNAMEs itself.  A zone is what *)
(* the mock was programmed with: the records of each name and kind, and    *)
(* the aliases.  Names are in lower case.                                  *)
(***************************************************************************)
EXTENDS Integers, FiniteSets, SequencesExt

CONSTANT MaxCnameDepth   \* max_cname_depth of the mock, 8 unless it is set

ASSUME MxAssumption == MaxCnameDepth \in Nat

Found(records) == [error |-> "", records |-> records]
Failed(error)  == [error |-> error, records |-> <<>>]

-----------------------------------------------------------------------------
(* MockDnsResolver. *)

NoName == ""

\* One turn of the loop in resolve_cname_chain.
ChainStep(zone, walk) ==
  IF walk.final # NoName \/ walk.looped THEN walk
  ELSE IF walk.depth >= MaxCnameDepth \/ walk.name \in walk.visited
       THEN [walk EXCEPT !.looped = TRUE]
  ELSE IF walk.name \notin DOMAIN zone.cname THEN [walk EXCEPT !.final = walk.name]
  ELSE [walk EXCEPT !.visited = @ \cup {walk.name}, !.name = zone.cname[walk.name],
                    !.depth = @ + 1]

\* It ends after one turn more than the depth: every turn but the last adds to it.
ResolveCnameChain(zone, start) ==
  LET first == [name |-> start, visited |-> {}, depth |-> 0, final |-> NoName, looped |-> FALSE]
      walk[turn \in 0..(MaxCnameDepth + 1)] ==
        IF turn = 0 THEN first ELSE ChainStep(zone, walk[turn - 1])
  IN walk[MaxCnameDepth + 1]

\* resolve_mx, resolve_a, resolve_aaaa of the mock, with its table for that kind.
Lookup(zone, table, name) ==
  LET walk == ResolveCnameChain(zone, name)
  IN IF walk.looped THEN Failed("CnameLoop")
     ELSE IF walk.final \notin DOMAIN table THEN Failed("NxDomain")
     ELSE table[walk.final]

-----------------------------------------------------------------------------
(* MxResolver. *)

\* trim_end_matches: the exchange "." of a null MX becomes the empty name.
Trimmed(exchange) == IF exchange = "." THEN "" ELSE exchange

\* Both lookups count when they are Ok, AAAA first.
AddressesOf(zone, host) ==
  Lookup(zone, zone.aaaa, host).records \o Lookup(zone, zone.a, host).records

Destination(zone, exchange, preference) ==
  [exchange |-> exchange, addresses |-> AddressesOf(zone, exchange), preference |-> preference]

\* sort_by_key is stable: record i goes behind those it must follow.
SortedByPreference(records) ==
  LET ahead(j, i) == \/ records[j].preference < records[i].preference
                     \/ records[j].preference = records[i].preference /\ j < i
      rank(i) == Cardinality({j \in DOMAIN records : ahead(j, i)}) + 1
  IN [r \in DOMAIN records |-> records[CHOOSE i \in DOMAIN records : rank(i) = r]]

\* resolve_mx_exchange for one record more; without an address it is skipped.
AddExchange(zone, destinations, record) ==
  LET destination == Destination(zone, Trimmed(record.exchange), record.preference)
  IN IF destination.addresses = <<>> THEN destinations ELSE Append(destinations, destination)

ResolveExchanges(zone, records) ==
  LET found[n \in 0..Len(records)] ==
        IF n = 0 THEN <<>> ELSE AddExchange(zone, found[n - 1], records[n])
  IN found[Len(records)]

DnsFailedUnless(destinations) ==
  IF destinations = <<>> THEN Failed("DnsResolutionFailed") ELSE Found(destinations)

\* resolve_fallback_a_aaaa.
ResolveFallback(zone, domain) ==
  LET destination == Destination(zone, domain, 0)
  IN DnsFailedUnless(IF destination.addresses = <<>> THEN <<>> ELSE <<destination>>)

\* Variant: the domain's own address is tried when no exchange has one.
ResolveTargetsAlways(zone, domain) ==
  LET found == ResolveExchanges(zone, SortedByPreference(Lookup(zone, zone.mx, domain).records))
  IN IF found # <<>> THEN Found(found) ELSE ResolveFallback(zone, domain)

\* resolve: whatever else the MX lookup answers, also a failure, leads to the fallback.
ResolveTargets(zone, domain) ==
  LET answer == Lookup(zone, zone.mx, domain)
  IN IF answer.records # <<>>
     THEN DnsFailedUnless(ResolveExchanges(zone, SortedByPreference(answer.records)))
     ELSE ResolveFallback(zone, domain)

=============================================================================
