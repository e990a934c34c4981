------------------------- MODULE SmtpCommandParser -------------------------
(***************************************************************************)
(* SmtpCommand::parse and validate_email_address of src/smtp/command.rs,   *)
(* and the lines in which src/delivery/client.rs writes the same commands. *)
(* A symbol is one byte, except "L63", sixty-three letters; the verbs and  *)
(* the prefixes FROM: and TO:, in upper or lower case; and other words.    *)
(***************************************************************************)
EXTENDS Text

Letters == {"a", "L63"}  \* the symbols that are letters or digits

Upper(symbol) ==
  CASE symbol = "ehlo" -> "EHLO" [] symbol = "mail" -> "MAIL" [] symbol = "rcpt" -> "RCPT"
    [] symbol = "from:" -> "FROM:" [] symbol = "to:" -> "TO:" [] OTHER -> symbol

-----------------------------------------------------------------------------
(* validate_email_address. *)

\* Variant: a label may be as long as a local part.
ValidLabelLonger(label) ==
  /\ label # <<>> /\ Bytes(label) <= 64
  /\ Head(label) # "-" /\ Last(label) # "-"
  /\ Range(label) \subseteq Letters \cup {"-"}

ValidLabel(label) ==
  /\ label # <<>> /\ Bytes(label) <= 63
  /\ Head(label) # "-" /\ Last(label) # "-"
  /\ Range(label) \subseteq Letters \cup {"-"}

ValidDomain(domain) ==
  /\ domain # <<>> /\ Bytes(domain) <= 255
  /\ \/ Head(domain) = "[" /\ Last(domain) = "]"
     \/ \A i \in DOMAIN Split(domain, ".") : ValidLabel(Split(domain, ".")[i])

\* The last "@" separates; the empty address is the null sender; of the local part only the
\* length is looked at.
ValidAddress(address) ==
  LET at    == SelectLastInSeq(address, LAMBDA s : s = "@")
      local == Before(address, at)
  IN \/ address = <<>>
     \/ /\ at # 0
        /\ local # <<>> /\ Bytes(local) <= 64
        /\ ValidDomain(After(address, at))

-----------------------------------------------------------------------------
(* parse. *)

ParseError(kind) == [verb |-> kind, address |-> <<>>, parameters |-> <<>>]
Parsed(verb, address, parameters) ==
  [verb |-> verb, address |-> address, parameters |-> parameters]

\* parse_mail_from and parse_rcpt_to, with extract_angle_address: what is between "<" and the
\* first ">" behind it; words follow.
ParsePath(verb, prefix, args, emptyAllowed) ==
  LET rest    == Trim(Tail(args))
      close   == Find(rest, <<">">>)
      address == Tail(Before(rest, close))
  IN CASE args = <<>> -> ParseError("InvalidSyntax")
       [] args # <<>> /\ Upper(Head(args)) # prefix -> ParseError("InvalidSyntax")
       [] OTHER ->
            IF rest = <<>> \/ Head(rest) # "<" \/ close = 0 THEN ParseError("InvalidSyntax")
            ELSE IF ValidAddress(address) /\ (address # <<>> \/ emptyAllowed)
                 THEN Parsed(verb, address, Words(After(rest, close)))
                 ELSE ParseError("InvalidAddress")

Plain   == {"DATA", "QUIT", "RSET", "NOOP", "HELP"}  \* commands that need no argument
Greedy  == {"EHLO", "HELO", "VRFY"}                  \* commands that need one

ParseCommand(line) ==
  LET input == Trim(line)
      space == Find(input, <<"SP">>)
      verb  == IF space = 0 THEN input ELSE Before(input, space)
      args  == IF space = 0 THEN <<>> ELSE Trim(After(input, space))
      name  == IF Len(verb) = 1 THEN Upper(verb[1]) ELSE "none"
  IN CASE input = <<>>  -> ParseError("EmptyCommand")
       [] name = "MAIL" -> ParsePath("MAIL", "FROM:", args, TRUE)
       [] name = "RCPT" -> ParsePath("RCPT", "TO:", args, FALSE)
       [] name \in Plain -> Parsed(name, <<>>, <<args>>)
       [] name \in Greedy -> IF args = <<>> THEN ParseError("InvalidSyntax") ELSE Parsed(name, <<>>, <<args>>)
       [] OTHER -> ParseError("UnrecognizedCommand")

-----------------------------------------------------------------------------

\* mail_from and rcpt_to of the client.
MailLine(sender) ==
  <<"MAIL", "SP", "FROM:", "<">> \o sender \o <<">", "SP", "SIZE=n">> \o CRLF
RcptLine(recipient) == <<"RCPT", "SP", "TO:", "<">> \o recipient \o <<">">> \o CRLF

=============================================================================
