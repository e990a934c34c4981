---------------------------- MODULE MCAlgorithms ----------------------------
(* The inputs of Algorithms: small alphabets, with every text over them up to a length, and the *)
(* texts that reach a limit.                                                                    *)
EXTENDS Algorithms

TextsOver(symbols, length) == BoundedSeq(symbols, length)

MCBodies == TextsOver({".", "CR", "LF", "w"}, 7)

-----------------------------------------------------------------------------
(* Messages: From, up to two other lines, Date and a body, with CRLF or LF. *)

HeaderLines ==
  { <<"Date", ":", "SP", "w">>, <<"from", ":", "v">>, <<"message-id", ":", "w">>, <<"SP", "w">>,
    <<"SP">>, <<":", "w">>, <<"w", "SP", "w", ":">>, <<"w">>, <<"w", "SP", ":", "LONG">>,
    <<"w", ":", "HALF">>, <<"SP", "HALF">>, <<"w", ":", "SP", ":", "CR">>, <<"Received", ":", "w", "SP", "SP", "w">> }
RawBodies == { <<>>, <<"w">>, <<"w", "SP", "CR">> \o CRLF \o CRLF, <<".", "LF", ".">>,
               <<"SP">> \o CRLF \o <<"w", "SP", "LF">> }
RawOf(lines, end, body) == FlattenSeq([i \in DOMAIN lines |-> lines[i] \o end]) \o end \o body
MCRaws ==
  { RawOf(<< <<"From", ":", "w">> >> \o lines \o date, end, body) :
      lines \in BoundedSeq(HeaderLines, 2), date \in { << >>, << <<"Date", ":", "w">> >> },
      end \in {CRLF, <<"LF">>}, body \in RawBodies }
MCSignedHeaders ==
  { DefaultSignedHeaders, <<"from", "date">>, <<"received", "dkim-signature">>, <<"message-id", "w">> }
MCSignatures == BoundedSeq({"b"}, 7)

-----------------------------------------------------------------------------
(* Zones: a domain d with the exchanges m and n, an alias c and the null MX. *)

Mx(preference, exchange) == [preference |-> preference, exchange |-> exchange]
MxAnswers ==
  { Failed("ServFail"), Found(<<>>), Found(<<Mx(1, "m")>>), Found(<<Mx(2, "m"), Mx(1, "n")>>),
    Found(<<Mx(1, "n"), Mx(1, "m")>>), Found(<<Mx(0, ".")>>),
    Found(<<Mx(3, "c"), Mx(2, "d"), Mx(1, "m")>>), Found(<<Mx(1, "m"), Mx(2, "n"), Mx(1, "m")>>) }
MCZones ==
  { [mx |-> mx, a |-> [h \in hosts |-> Found(<<"4" \o h>>)],
     aaaa |-> [h \in hosts6 |-> IF h = "n" THEN Failed("ServFail") ELSE Found(<<"6" \o h>>)],
     cname |-> cname] :
    mx \in {[x \in {"d"} |-> answer] : answer \in MxAnswers} \cup {[x \in {} |-> Found(<<>>)]},
    hosts \in SUBSET {"d", "m", "n"}, hosts6 \in { {}, {"m", "n"}, {"d"} },
    cname \in { [x \in {} |-> "d"], [x \in {"c"} |-> "d"], [x \in {"c"} |-> "m"],
                [x \in {"c", "m"} |-> IF x = "c" THEN "m" ELSE "n"],
                [x \in {"c", "m"} |-> IF x = "c" THEN "d" ELSE "m"],
                [x \in {"c", "m"} |-> IF x = "c" THEN "m" ELSE "c"] } }
MCDomains == {"d", "c"}

-----------------------------------------------------------------------------
(* SPF: IPv4 addresses of three bits, IPv6 addresses of two segments of two bits. *)

Segments4 == [1..1 -> 0..(2^Width4 - 1)]
Segments6 == [1..Segments -> 0..(2^SegmentBits - 1)]
MCClients ==
  [version : {4}, address : Segments4] \cup [version : {6}, address : Segments6]
Term(sign, kind) == [sign |-> sign, kind |-> kind, network |-> <<0>>, cidr |-> <<>>]
Ip4Terms == [sign : {""}, kind : {"ip4"}, network : Segments4, cidr : [1..1 -> 0..(Width4 + 2)]]
Ip6Terms == [sign : {""}, kind : {"ip6"}, network : Segments6,
             cidr : [1..1 -> 0..(Segments * SegmentBits + SegmentBits + 1)]]
FewTerms ==
  { Term("-", "all"), Term("+", "all"), Term("", "bad"), Term("", "modifier"), Term("?", "mx"),
    [Term("~", "ip4") EXCEPT !.network = <<5>>], [Term("+", "ip6") EXCEPT !.network = <<1, 2>>],
    [Term("", "ip4") EXCEPT !.network = <<2>>, !.cidr = <<2>>] }
MCSpfRecords ==
  [version : {TRUE}, terms : {<<term>> : term \in Ip4Terms \cup Ip6Terms}]
  \cup [version : BOOLEAN, terms : BoundedSeq(FewTerms, 2)]

-----------------------------------------------------------------------------
(* DMARC. *)

Tag(key, value) == [key |-> key, value |-> value, number |-> 256, indented |-> FALSE]
Version == Tag("v=DMARC1", "")
Tags ==
  { Tag("p", "none"), Tag("p", "reject"), Tag("p", "x"), Tag("sp", "quarantine"), Tag("sp", "x"),
    Tag("adkim", "s"), Tag("adkim", "relaxed"), Tag("aspf", "x"), Tag("pct", "256"), Tag("no =", "") }
MCDmarcRecords ==
  { <<version>> \o tags : version \in {Version, [Version EXCEPT !.indented = TRUE], Tag("p", "none")},
                          tags \in BoundedSeq(Tags, 2) }
MCMailDomains == { <<"a">>, <<"A">>, <<"b", ".", "a">>, <<"b", "A">>, <<"a", ".", "b">>, <<"a", ".">>, <<>> }

-----------------------------------------------------------------------------
(* Configurations: one setting in the file and one in the environment. *)

OneSetting ==
  {[x \in {} |-> "good"]} \cup
  UNION {{[x \in {s} |-> text] : text \in Given(s)} : s \in Settings}
MCFiles == OneSetting
MCEnvironments == OneSetting

-----------------------------------------------------------------------------
(* Command lines. *)

LongDomain == <<"L63", ".", "L63", ".", "L63", ".", "L63">>
ManyAddresses ==
  BoundedSeq({"a", "L63", "@", ".", "-", "[", "]", ">", "SP"}, 4)
  \cup { <<"a", "@">> \o LongDomain, <<"a", "@">> \o LongDomain \o <<".", "a">>,
         <<"a", "@", "a", ".", "a">>, <<"a", "@", "[", "a", "]">>, <<"a", "@", "a", "-", "a">>,
         <<"L63", "a", "a", "@", "a">>, <<"a", "@", "L63", "a">> }
MCLines ==
  { <<verb, "SP", prefix, "<">> \o address \o <<">">> :
      verb \in {"MAIL", "rcpt"}, prefix \in {"from:", "TO:"}, address \in ManyAddresses }
  \cup BoundedSeq({"SP", "EHLO", "DATA", "mail", "FROM:", "<", ">"}, 4)

-----------------------------------------------------------------------------
(* Requests. *)

Mailbox == <<"a", "@", "a">>
NoMailbox == <<"a", "@", "-">>
Field1(name, value) == [name |-> name, value |-> value]
MCInjections ==
  [from : {Mailbox, NoMailbox, <<>>, <<"a", "LF", "SP", "@", "a">>},
   to : BoundedSeq({Mailbox, NoMailbox, <<>>}, 2) \cup {<<Mailbox, Mailbox, Mailbox>>},
   subject : { <<>>, << <<"w", "SP">> >>, << <<"LONG">> >>, << <<"w">> \o CRLF \o CRLF >>,
               << <<"HALF", "LF", "SP", "HALF">> >> },
   headers : { <<>>, <<Field1(<<"message-id">>, <<"w">>), Field1(<<"Date">>, <<>>)>>,
               <<Field1(<<>>, <<"w">>)>>, <<Field1(<<"w">>, <<"w", "LF", "SP">>)>> },
   priority : { <<>>, <<0>>, <<255>> },
   body : { <<>>, <<"w", "LF", ".">>, <<"LONG">>, <<"HALF", "LF", "HALF", "LF", "HALF">> }]
MCRawInjections ==
  [sender : {Mailbox, NoMailbox, <<>>}, recipients : { <<>>, <<Mailbox>>, <<Mailbox, <<>> >> },
   raw : { RawOf(lines, end, body) :
             lines \in { << <<"From", ":", "w">>, <<"Date", ":", "w">> >>, << <<"w">> >>,
                         << <<"from", ":">>, <<"SP", "w">>, <<"date", ":">>, <<"Message-ID", ":", "w">> >>,
                         << <<"From", ":", "HALF">>, <<"SP", "HALF">>, <<"Date", ":">> >> },
             end \in {CRLF, <<"LF">>}, body \in RawBodies } ]

=============================================================================
