----------------------------- MODULE MailText -----------------------------
(***************************************************************************)
(* What becomes of the text of a message: the parser and serializer of     *)
(* src/message/parser.rs, with which both servers rewrite it before it is  *)
(* spooled, the body as src/delivery/client.rs sends it, and as            *)
(* feed_data_line of src/smtp/session.rs takes it in at the other end.     *)
(***************************************************************************)
EXTENDS Text

\* Field names that differ in their case only; the other words are in lower case.
Lower(symbol) ==
  CASE symbol = "From" -> "from" [] symbol = "Date" -> "date"
    [] symbol = "Message-ID" -> "message-id" [] symbol = "Received" -> "received"
    [] OTHER -> symbol
SameName(name, other) ==
  Len(name) = Len(other) /\ \A i \in DOMAIN name : Lower(name[i]) = Lower(other[i])

MAX_LINE_LENGTH == 998
TooLong(line) == Bytes(line) > MAX_LINE_LENGTH

-----------------------------------------------------------------------------
(* ParsedMessage. *)

\* The header block and the body: at the first CRLF CRLF, else at the first LF LF.
SplitMessage(raw) ==
  LET crlf == Find(raw, CRLF \o CRLF)
      lf   == Find(raw, <<"LF", "LF">>)
  IN IF crlf # 0 THEN [head |-> Before(raw, crlf), body |-> After(raw, crlf + 3)]
     ELSE IF lf # 0 THEN [head |-> Before(raw, lf), body |-> After(raw, lf + 1)]
     ELSE [head |-> raw, body |-> <<>>]

\* One physical line of the header block, added to what was parsed before it.
ParseHeaderLine(parsed, line) ==
  LET colon == Find(line, <<":">>)
      name  == Trim(Before(line, colon))
      last  == Len(parsed.headers)
      bad   == [parsed EXCEPT !.ok = FALSE]
  IN CASE IsPrefix(<<"SP">>, line) /\ last # 0 ->
            [parsed EXCEPT !.headers[last].value = @ \o <<"SP">> \o Trim(line)]
       [] IsPrefix(<<"SP">>, line) /\ last = 0 -> bad
       [] ~ IsPrefix(<<"SP">>, line) /\ colon # 0 ->
            IF name = <<>> \/ Range(name) \cap Blank # {} THEN bad
            ELSE [parsed EXCEPT !.headers =
                    Append(@, [name |-> name, value |-> Trim(After(line, colon))])]
       [] OTHER -> IF line = <<>> THEN parsed ELSE bad

ParseHeaders(block) ==
  FoldLeft(ParseHeaderLine, [ok |-> TRUE, headers |-> <<>>], LinesOf(block))

\* Variant: field names are compared with their case.
HasCased(headers, name) == \E i \in DOMAIN headers : headers[i].name = <<name>>

Has(headers, name) == \E i \in DOMAIN headers : SameName(headers[i].name, <<name>>)

\* parse: no bad header line, no line over 998 bytes, From and Date present.
ParseMessage(raw) ==
  LET parts  == SplitMessage(raw)
      parsed == ParseHeaders(parts.head)
  IN [ok      |-> /\ parsed.ok
                  /\ \A line \in Range(LinesOf(raw)) : ~ TooLong(line)
                  /\ Has(parsed.headers, "From") /\ Has(parsed.headers, "Date"),
      headers |-> parsed.headers,
      body    |-> parts.body]

\* ensure_message_id, prepend_received.
EnsureMessageId(message) ==
  IF Has(message.headers, "Message-ID") THEN message
  ELSE [message EXCEPT !.headers = Append(@, [name |-> <<"Message-ID">>, value |-> <<"new">>])]

PrependReceived(message) ==
  [message EXCEPT !.headers = <<[name |-> <<"Received">>, value |-> <<"by">>]>> \o @]

\* A field goes on one line, however many it came on.
FieldLine(field) == field.name \o <<":", "SP">> \o field.value

ToBytes(message) ==
  WithCrlf([i \in DOMAIN message.headers |-> FieldLine(message.headers[i])]) \o CRLF \o message.body

Enriched(message) == ToBytes(PrependReceived(EnsureMessageId(message)))

\* spool_message: what does not parse is spooled as it came.
SpooledText(raw) == IF ParseMessage(raw).ok THEN Enriched(ParseMessage(raw)) ELSE raw

-----------------------------------------------------------------------------
(* A body on its way: send_body of the client, feed_data_line of the session. *)

\* Variant: a line that begins with a dot gets none if it is longer than the dot.
StuffLoneDot(line) == IF line = <<".">> THEN <<".">> \o line ELSE line

Stuff(line) == IF IsPrefix(<<".">>, line) THEN <<".">> \o line ELSE line

SentBody(body) ==
  LET lines == LinesOf(body)
  IN WithCrlf([i \in DOMAIN lines |-> Stuff(lines[i])]) \o <<".">> \o CRLF

\* The session cuts at LF, drops all CRs at the end of a line, stops at the lone dot and
\* strips one of two dots.  `rest' is what it would take for commands.
Unstuffed(line) == IF IsPrefix(<<".", ".">>, line) THEN Tail(line) ELSE line

ReceivedBody(wire) ==
  LET pieces == Split(wire, "LF")
      lines  == [i \in 1..(Len(pieces) - 1) |-> TrimEnd(pieces[i], {"CR"})]
      end    == Min({Len(pieces)} \cup {i \in DOMAIN lines : lines[i] = <<".">>})
  IN [lines |-> [i \in 1..(end - 1) |-> Unstuffed(lines[i])],
      ended |-> end < Len(pieces),
      rest  |-> FlattenSeq(SubSeq(pieces, end + 1, Len(pieces)))]

=============================================================================
