----------------------------- MODULE Algorithms ----------------------------
(***************************************************************************)
(* The parts of the program that compute and keep no state, each called    *)
(* once on any of its inputs.  The properties compare what a call returned *)
(* with a definition of what it is for that does not follow the code, or   *)
(* with what the other end of the wire makes of it.                        *)
(***************************************************************************)
EXTENDS HttpApi, DkimCanon, SpfPolicy, DmarcPolicy, MxResolver, ConfigLayers

CONSTANTS  \* the inputs of each function
  Bodies, Raws, SignedHeaders, Zones, Domains, SpfRecords, Clients, DmarcRecords, MailDomains,
  Files, Environments, Lines, Injections, RawInjections, Signatures

\* Texts are sequences, and a record has a tag at least: split(';') gives one piece or more.
ASSUME BodiesAreTexts  == \A body \in Bodies : body \in Seq(Range(body))
ASSUME RecordsHaveTags == \A tags \in DmarcRecords : tags # <<>> /\ tags \in Seq(Range(tags))
ASSUME DomainsAreTexts == \A domain \in MailDomains : domain \in Seq(Range(domain))
HasRecords(table) == \A name \in DOMAIN table : table[name].records \in Seq(Range(table[name].records))
ASSUME ZonesHaveRecords ==  \* an MX record has a preference, a u16
  \A zone \in Zones :
    /\ HasRecords(zone.mx) /\ HasRecords(zone.a) /\ HasRecords(zone.aaaa)
    /\ \A name \in DOMAIN zone.mx : \A record \in Range(zone.mx[name].records) :
         record.preference \in Nat

VARIABLE call  \* the function that was called, its input and its result

Idle == [of |-> "none"]

InitCalls == call = Idle

Called(function, input, result) == call' = [of |-> function, in |-> input, out |-> result]

-----------------------------------------------------------------------------
(* The calls. *)

\* A body goes to the next server: send_body there, feed_data_line here.
TransferBody == \E body \in Bodies : Called("body", body, ReceivedBody(SentBody(body)))

\* A message is spooled, and parsed again when it is needed.
SpoolMessage ==
  \E raw \in Raws : Called("spool", raw, [text |-> SpooledText(raw), again |-> ParseMessage(SpooledText(raw))])

\* A message is signed, and its signature checked where it arrives.
SignMessage ==
  \E raw \in Raws, signed \in SignedHeaders, canon \in {"Relaxed", "Simple"} :
    LET sent     == ParseMessage(raw)
        arrived  == ParseMessage(Enriched(sent))
        body     == WithCrlf(ReceivedBody(SentBody(arrived.body)).lines)
    IN /\ sent.ok
       /\ Called("sign", [message |-> sent, signed |-> signed, canon |-> canon],
                 [here  |-> SignatureInput(sent.headers, sent.body, signed, canon, canon),
                  there |-> SignatureInput(arrived.headers, body, signed, canon, canon)])

FoldIt ==
  \E signature \in Signatures, width \in 1..3 :
    Called("fold", [signature |-> signature, width |-> width], FoldSignature(signature, width))

ResolveDomain ==
  \E zone \in Zones, domain \in Domains :
    Called("mx", [zone |-> zone, domain |-> domain], ResolveTargets(zone, domain))

CheckSpf ==
  \E record \in SpfRecords, client \in Clients, checked \in BOOLEAN :
    Called("spf", [record |-> record, client |-> client],
           IF ParseSpf(record).ok THEN EvaluateSpf(ParseSpf(record), client, checked) ELSE "error")

CheckDmarc ==
  \E record \in DmarcRecords, from \in MailDomains, authenticated \in MailDomains, sub \in BOOLEAN :
    LET parsed == ParseDmarc(record) IN
    Called("dmarc", [record |-> record, from |-> from, authenticated |-> authenticated, sub |-> sub],
           [ok     |-> parsed.ok,
            result |-> EvaluateDmarc(Aligned(from, authenticated, parsed.dkim), FALSE),
            strict |-> Aligned(from, authenticated, "Strict"),
            policy |-> EffectivePolicy(parsed, sub)])

LoadConfiguration ==
  \E path \in {"none", "unreadable", "given"}, file \in Files, env \in Environments :
    Called("config", [path |-> path, file |-> file, env |-> env], LoadConfig(path, file, env))

ParseLine == \E line \in Lines : Called("line", line, ParseCommand(line))

InjectMessage ==
  \E request \in Injections, works \in BOOLEAN :
    Called("inject", request, Inject(request, works))

InjectRawMessage ==
  \E request \in RawInjections, works \in BOOLEAN :
    Called("raw", request, InjectRaw(request, works))

NextCall ==
  /\ call = Idle
  /\ \/ TransferBody \/ SpoolMessage \/ SignMessage \/ FoldIt \/ ResolveDomain \/ CheckSpf
     \/ CheckDmarc \/ LoadConfiguration \/ ParseLine \/ InjectMessage \/ InjectRawMessage

Calls == InitCalls /\ [][NextCall]_call

-----------------------------------------------------------------------------
(* Properties. *)

\* The next server takes in the lines of the body that was sent, short of CRs at their ends, and
\* nothing of it for a command (send_body, client.rs:364-426; feed_data_line, session.rs:255-285).
BodySurvives ==
  call.of = "body" =>
    LET lines == LinesOf(call.in) IN
    /\ call.out.lines = [i \in DOMAIN lines |-> TrimEnd(lines[i], {"CR"})]
    /\ call.out.ended /\ call.out.rest = <<>>

\* Every field fits a line once it is unfolded.
FieldsFit(message) == \A i \in DOMAIN message.headers : ~ TooLong(FieldLine(message.headers[i]))

\* A message that parses is spooled with the same body and the same fields, one Received before
\* them and a Message-ID only if it had none, and it parses again if its fields fit a line each;
\* another message is spooled as it is (parser.rs:53-179).
MessageSurvives ==
  call.of = "spool" =>
    LET message == ParseMessage(call.in)
        again   == call.out.again
        trimmed == [i \in DOMAIN message.headers |->
                      [message.headers[i] EXCEPT !.value = Trim(@)]]
        isId(h) == SameName(h.name, <<"Message-ID">>)
    IN IF message.ok
       THEN /\ FieldsFit(message) => again.ok
            /\ again.body = message.body
            /\ Head(again.headers).name = <<"Received">>
            /\ IsPrefix(trimmed, Tail(again.headers))
            /\ LET added == SubSeq(again.headers, Len(trimmed) + 2, Len(again.headers)) IN
               IF \E i \in DOMAIN trimmed : isId(trimmed[i]) THEN added = <<>>
               ELSE Len(added) = 1 /\ isId(added[1])
       ELSE call.out.text = call.in

\* What was hashed here is what is hashed there, after the message was parsed, spooled and sent:
\* the body, with simple canonicalization if each of its lines ends in just one CRLF, and with
\* relaxed canonicalization the header, if it has the fields that are signed.  Folding a signature
\* adds white space only and keeps to its width (dkim.rs:343-485).
SignatureSurvives ==
  /\ call.of = "sign" =>
       LET signed == Range(call.in.signed) \ {"dkim-signature"}
           lines  == LinesOf(call.in.message.body)
           plain  == WithCrlf([i \in DOMAIN lines |-> TrimEnd(lines[i], {"CR"})])
       IN /\ call.in.canon = "Relaxed" \/ call.in.message.body = plain
               => call.out.here.body = call.out.there.body
          /\ /\ call.in.canon = "Relaxed"
             /\ \A name \in signed : Named(call.in.message.headers, name) # <<>>
             => call.out.here.header = call.out.there.header
  /\ call.of = "fold" =>
       /\ SelectSeq(call.out, LAMBDA s : s \notin Blank) = call.in.signature
       /\ \A i \in DOMAIN LinesOf(call.out) : Len(Trim(LinesOf(call.out)[i])) <= call.in.width

\* The name at the end of the aliases, when it takes fewer than MaxCnameDepth of them.
CanonicalNames(zone, name) ==
  LET after[n \in 0..MaxCnameDepth] ==
        IF n = 0 THEN name
        ELSE IF after[n - 1] \in DOMAIN zone.cname THEN zone.cname[after[n - 1]] ELSE after[n - 1]
  IN {after[n] : n \in 0..(MaxCnameDepth - 1)} \ DOMAIN zone.cname

AnswersOf(zone, table, name) ==
  {table[n].records : n \in CanonicalNames(zone, name) \cap DOMAIN table}
RecordsOf(zone, table, name) == UNION {Range(records) : records \in AnswersOf(zone, table, name)}
Ips(zone, host) == RecordsOf(zone, zone.aaaa, host) \cup RecordsOf(zone, zone.a, host)

\* The exchanges that a domain lists, one for each record; itself when there is none to go by; and
\* those of them that have an address.
NamedTarget(exchange, preference) == [exchange |-> exchange, preference |-> preference]
Item(records, i) == <<i, NamedTarget(Trimmed(records[i].exchange), records[i].preference)>>
ItemsOf(records) == {Item(records, i) : i \in DOMAIN records}
Listed(zone, domain) == UNION {ItemsOf(records) : records \in AnswersOf(zone, zone.mx, domain)}
Itself(domain) == <<1, NamedTarget(domain, 0)>>
Usable(zone, items) == {item \in items : Ips(zone, item[2].exchange) # {}}
Wanted(zone, domain) ==
  Usable(zone, IF Listed(zone, domain) = {} THEN {Itself(domain)} ELSE Listed(zone, domain))

\* The lookup of the MX records failed for another reason than that there are none.
MxLookupFails(zone, domain) ==
  \E name \in CanonicalNames(zone, domain) \cap DOMAIN zone.mx :
    zone.mx[name].error \notin {"", "NoData", "NxDomain"}

\* Unless the lookup of the MX records fails, a delivery is tried at every exchange that has an
\* address and at no other, once for each of its records, by preference; at the domain itself only
\* when there is no MX record; and the call fails only when that leaves no address, as with
\* aliases that go in a circle (mx_resolve.rs:78-176, resolver.rs:174-257).
TargetsUsable ==
  call.of = "mx" /\ ~ MxLookupFails(call.in.zone, call.in.domain) =>
    LET zone    == call.in.zone
        wanted  == Wanted(zone, call.in.domain)
        targets == call.out.records
    IN /\ call.out.error = "" <=> wanted # {}
       /\ {NamedTarget(t.exchange, t.preference) : t \in Range(targets)} = {item[2] : item \in wanted}
       /\ Len(targets) = Cardinality(wanted)
       /\ \A i \in DOMAIN targets : Range(targets[i].addresses) = Ips(zone, targets[i].exchange)
       /\ \A i, j \in DOMAIN targets : i < j => targets[i].preference <= targets[j].preference

\* A term is about a client when the first `cidr' bits of the two addresses agree.
PrefixOf(address, bits, cidr) == address \div 2^(bits - cidr)
NumberOf(segments) == FoldLeft(LAMBDA n, s : n * 2^SegmentBits + s, 0, segments)
CidrOf(term, bits) == IF term.cidr = <<>> THEN bits ELSE Head(term.cidr)
IsAbout(term, client) ==
  \/ term.kind = "all"
  \/ /\ term.kind = "ip4" /\ client.version = 4
     /\ LET cidr == CidrOf(term, Width4) IN
        PrefixOf(client.address[1], Width4, cidr) = PrefixOf(term.network[1], Width4, cidr)
  \/ /\ term.kind = "ip6" /\ client.version = 6
     /\ LET cidr == CidrOf(term, Segments * SegmentBits) IN
        PrefixOf(NumberOf(client.address), Segments * SegmentBits, cidr)
        = PrefixOf(NumberOf(term.network), Segments * SegmentBits, cidr)

\* A term whose prefix is no longer than the address.
PrefixFits(term) ==
  /\ term.kind = "ip4" => CidrOf(term, Width4) <= Width4
  /\ term.kind = "ip6" => CidrOf(term, Segments * SegmentBits) <= Segments * SegmentBits

\* The term that decides about a client: the first one that is about it.
Deciding(terms, client) == SelectInSeq(terms, LAMBDA term : IsAbout(term, client))

\* Where the prefixes fit, a record is refused iff its version or a term is bad.  If it has no term
\* that needs DNS and the term that decides carries the qualifier +, or none, the client passes; if
\* no term decides, the result is neutral; in every build (spf.rs:148-354).
SpfPassMeansListed ==
  call.of = "spf" =>
    LET terms    == call.in.record.terms
        kinds    == {term.kind : term \in Range(terms)}
        deciding == Deciding(terms, call.in.client)
    IN (\A term \in Range(terms) : PrefixFits(term)) =>
         /\ (call.out = "error") <=> (~ call.in.record.version \/ "bad" \in kinds)
         /\ call.out # "error" /\ kinds \cap DnsMechanisms = {} =>
              /\ deciding = 0 => call.out = "Neutral"
              /\ deciding # 0 /\ terms[deciding].sign \in {"", "+"} => call.out = "Pass"

\* "Determine result based on qualifier (default is Pass)" (spf.rs:219): a client passes only by a
\* term whose qualifier is +.  (Prefix lengths as in SpfPassMeansListed.)
SpfHonoursQualifier ==
  call.of = "spf" /\ call.out = "Pass" =>
    LET terms == call.in.record.terms IN
    (\A i \in DOMAIN terms : PrefixFits(terms[i])) =>
      ParseQualifier(terms[Deciding(terms, call.in.client)]) = "+"

\* A record means what its last tags say, whatever is between them; a domain is aligned iff its
\* last labels are those of From, and strict alignment is never the weaker one
\* (dmarc.rs:209-298).
DmarcAsPublished ==
  call.of = "dmarc" =>
    LET tags        == call.in.record
        last(key)   == Max({0} \cup {i \in DOMAIN tags : tags[i].key = key})
        labels(d)   == Split(LowerDomain(d), ".")
        relaxed     == IsSuffix(labels(call.in.from), labels(call.in.authenticated))
        isStrict    == last("adkim") # 0 /\ tags[last("adkim")].value \in {"s", "strict"}
        bad(tag)    == \/ tag.key \in {"p", "sp"} /\ tag.value \notin Policies
                       \/ tag.key \in {"adkim", "aspf"}
                          /\ tag.value \notin {"r", "relaxed", "s", "strict"}
    IN /\ call.out.ok <=> /\ tags[1].key = "v=DMARC1" /\ ~ tags[1].indented
                          /\ \A i \in DOMAIN tags : ~ bad(tags[i])
       /\ call.out.ok =>
            /\ call.out.policy =
                 CASE call.in.sub /\ last("sp") # 0 -> tags[last("sp")].value
                   [] ~ (call.in.sub /\ last("sp") # 0) /\ last("p") # 0 -> tags[last("p")].value
                   [] OTHER -> "none"
            /\ (call.out.result = "Pass") <=> IF isStrict THEN call.out.strict ELSE relaxed
            /\ call.out.strict => relaxed

\* A good text in the environment wins; without one the setting is what it would be without the
\* environment, except that garbage leaves verification on and rejection off; and only a file can
\* make the start fail (config.rs:143-267, 430-545).
LastLayerWins ==
  call.of = "config" =>
    LET env     == call.in.env
        value   == call.out.config
        garbage == {s \in DOMAIN env : env[s] = "bad"}
        fromFile(s) == call.in.path = "given" /\ s \in DOMAIN call.in.file
    IN /\ call.out.ok <=> \/ call.in.path = "none"
                          \/ call.in.path = "given" /\ "bad" \notin Range(call.in.file)
       /\ call.out.ok => \A s \in Settings :
            /\ s \in DOMAIN env \ garbage => value[s] = (IF s \in Flags THEN env[s] ELSE "env")
            /\ s \in garbage \cap Flags =>
                 value[s] = (IF s \in {"spf_reject_fail", "dmarc_reject_fail"} THEN "false" ELSE "true")
            /\ s \in (Settings \ DOMAIN env) \cup (garbage \ Flags) =>
                 CASE fromFile(s)                     -> value[s] \in {"file", call.in.file[s]}
                   [] ~ fromFile(s) /\ s \in Flags  -> value[s] = DefaultConfig[s]
                   [] OTHER                           -> value[s] = "default"

\* local@domain, by the symbols next to each other.
WellFormedAddress(address) ==
  \E at \in DOMAIN address :
    LET domain == After(address, at)
        edge(i) == i \notin DOMAIN domain \/ domain[i] = "."
        literal == domain # <<>> /\ domain[1] = "[" /\ domain[Len(domain)] = "]"
    IN /\ address[at] = "@" /\ "@" \notin Range(domain)
       /\ Bytes(Before(address, at)) \in 1..64 /\ Bytes(domain) \in 1..255
       /\ literal \/
            /\ \A i \in DOMAIN domain : domain[i] \in Letters \cup {".", "-"}
            /\ \A i \in 0..Len(domain) : ~ (edge(i) /\ edge(i + 1))
            /\ \A i \in DOMAIN domain : domain[i] = "-" => ~ edge(i - 1) /\ ~ edge(i + 1)
            /\ \A i, j \in DOMAIN domain :
                 "." \notin Range(SubSeq(domain, i, j)) => Bytes(SubSeq(domain, i, j)) <= 63

\* What MAIL and RCPT let in is an address, the null one only in MAIL; the line that the client
\* writes for it is read as the same command by the next server (command.rs:122-249,
\* client.rs:301-344).
AddressesSurvive ==
  call.of = "line" /\ call.out.verb \in {"MAIL", "RCPT"} =>
    LET address == call.out.address
        again   == ParseCommand(IF call.out.verb = "MAIL" THEN MailLine(address) ELSE RcptLine(address))
    IN /\ WellFormedAddress(address) \/ (address = <<>> /\ call.out.verb = "MAIL")
       /\ again.verb = call.out.verb /\ again.address = address

SenderOf(request)     == IF call.of = "inject" THEN request.from ELSE request.sender
RecipientsOf(request) == IF call.of = "inject" THEN request.to ELSE request.recipients
TextOf(request)       == IF call.of = "inject" THEN BuiltMessage(request) ELSE request.raw

\* No text that inject puts into a header line has a line end in it.
OneLine(text) == Range(text) \cap {"CR", "LF"} = {}
PlainFields(request) ==
  /\ OneLine(request.from)
  /\ \A text \in Range(request.to) \cup Range(request.subject) : OneLine(text)
  /\ \A field \in Range(request.headers) : OneLine(field.name) /\ OneLine(field.value)

\* A request whose recipients are not empty is answered 200 exactly when it stored its message,
\* one, with the envelope it asked for, within the limits.  What is stored has a Message-ID and
\* parses if its fields fit a line each, and its body is the one that was given, for inject if the
\* fields given with it have no line ends in them (api.rs:130-298).
InjectionAsAsked ==
  call.of \in {"inject", "raw"} /\ <<>> \notin Range(RecipientsOf(call.in)) =>
    LET request    == call.in
        recipients == RecipientsOf(request)
        given      == ParseMessage(TextOf(request))
        stored     == ParseMessage(call.out.stored[1].text)
        priority   == IF call.of = "raw" \/ request.priority = <<>> THEN 1 ELSE request.priority[1]
    IN IF call.out.status # 200 THEN call.out.stored = <<>>
       ELSE /\ Len(call.out.stored) = 1
            /\ call.out.stored[1].envelope =
                 [sender |-> SenderOf(request), recipients |-> recipients, priority |-> priority]
            /\ Len(recipients) \in 1..MaxRecipients
            /\ \A address \in Range(recipients) : WellFormedAddress(address)
            /\ WellFormedAddress(SenderOf(request)) \/ (call.of = "raw" /\ SenderOf(request) = <<>>)
            /\ Has(stored.headers, "Message-ID")
            /\ FieldsFit(given) => stored.ok
            /\ call.of = "raw" => stored.body = given.body
            /\ call.of = "inject" /\ PlainFields(request) => stored.body = request.body \o CRLF

=============================================================================
