------------------------------ MODULE HttpApi ------------------------------
(***************************************************************************)
(* The handlers of the HTTP injection API, src/http/api.rs, as functions   *)
(* from a request to what the handler answers and what it has stored; one  *)
(* request touches no state of another one.  Whether the spool takes the   *)
(* message is an input (DiskSpool models the spool).  Nothing looks for    *)
(* line ends in the fields of a request that go into header lines.         *)
(***************************************************************************)
EXTENDS MailText, SmtpCommandParser

CONSTANTS
  MaxRecipients,    \* max_recipients of the configuration
  MaxMessageSize    \* max_message_size, in bytes

ASSUME ApiAssumption == MaxRecipients \in Nat /\ MaxMessageSize \in Nat

\* An answer: its status, and the messages stored while it was made.
Refused(status) == [status |-> status, stored |-> <<>>]

-----------------------------------------------------------------------------

\* validate_recipients: at least one, not too many, each of them valid.
RecipientsValid(recipients) ==
  /\ recipients # <<>> /\ Len(recipients) <= MaxRecipients
  /\ \A i \in DOMAIN recipients : ValidAddress(recipients[i])

\* Variant: the envelope is stamped and stored before the message is parsed.
ProcessAndSpoolEarly(raw, sender, recipients, priority, spoolWorks) ==
  LET message  == ParseMessage(raw)
      envelope == [sender |-> sender, recipients |-> recipients, priority |-> priority]
  IN [status |-> IF message.ok THEN 200 ELSE 400,
      stored |-> <<[envelope |-> envelope, text |-> Enriched(message)]>>]

\* process_and_spool: size, then syntax, then the spool.
ProcessAndSpool(raw, sender, recipients, priority, spoolWorks) ==
  LET message  == ParseMessage(raw)
      envelope == [sender |-> sender, recipients |-> recipients, priority |-> priority]
  IN CASE Bytes(raw) > MaxMessageSize -> Refused(413)
       [] Bytes(raw) <= MaxMessageSize /\ ~ message.ok -> Refused(400)
       [] OTHER -> IF spoolWorks
                   THEN [status |-> 200,
                         stored |-> <<[envelope |-> envelope, text |-> Enriched(message)]>>]
                   ELSE Refused(500)

-----------------------------------------------------------------------------

Field(name, value) == name \o <<":", "SP">> \o value \o CRLF

JoinedByComma(addresses) ==
  FlattenSeq([i \in DOMAIN addresses |->
                IF i = 1 THEN addresses[i] ELSE <<",", "SP">> \o addresses[i]])

\* The message that inject builds.  The other headers of a request are a map: they come in any
\* order, which here is the order of the input.
BuiltMessage(request) ==
  Field(<<"From">>, request.from) \o Field(<<"To">>, JoinedByComma(request.to))
  \o Field(<<"Date">>, <<"now">>)
  \o FlattenSeq([i \in DOMAIN request.subject |-> Field(<<"Subject">>, request.subject[i])])
  \o FlattenSeq([i \in DOMAIN request.headers |->
                   Field(request.headers[i].name, request.headers[i].value)])
  \o CRLF \o request.body \o CRLF

\* POST /v1/inject.  `subject' and `priority' hold one value or none.
Inject(request, spoolWorks) ==
  IF request.from = <<>> \/ ~ ValidAddress(request.from) \/ ~ RecipientsValid(request.to)
  THEN Refused(400)
  ELSE ProcessAndSpool(BuiltMessage(request), request.from, request.to,
                       IF request.priority = <<>> THEN 1 ELSE Head(request.priority), spoolWorks)

\* POST /v1/inject/raw: the null sender is allowed.
InjectRaw(request, spoolWorks) ==
  IF ~ ValidAddress(request.sender) \/ ~ RecipientsValid(request.recipients)
  THEN Refused(400)
  ELSE ProcessAndSpool(request.raw, request.sender, request.recipients, 1, spoolWorks)

=============================================================================
