---------------------------- MODULE SmtpSession ----------------------------
(***************************************************************************)
(* One SMTP session, as src/smtp/session.rs keeps it: the state machine of *)
(* RFC 5321, the envelope of src/message/envelope.rs it fills in, and the  *)
(* buffer that collects the lines of DATA.  The session does no I/O: every *)
(* action below is one call that the connection loop of src/smtp/server.rs *)
(* makes, and `reply' is the response that call returned.                  *)
(*                                                                         *)
(* Abstractions.  A line of DATA is its count of leading dots and whether  *)
(* other characters follow them.  Sizes are counted in lines.  A response  *)
(* is its code and the queue id it announces.  Queue ids are numbered in   *)
(* the order they are drawn: the code draws 48 random bits, and what two   *)
(* equal draws would do to the spool is DiskSpool's business.              *)
(***************************************************************************)
EXTENDS Naturals, Sequences

CONSTANTS
  Addresses,       \* the mailboxes that MAIL FROM and RCPT TO name
  EmptyPath,       \* the null reverse-path <>, also what a reset leaves
  MaxRecipients,   \* config.max_recipients
  MaxMessageSize,  \* config.max_message_size, in lines
  MaxIds,          \* bound: queue ids drawn in one behaviour
  MaxDots          \* bound: leading dots of a line on the wire

ASSUME SessionAssumption ==
  /\ EmptyPath \notin Addresses
  /\ MaxRecipients \in Nat /\ MaxMessageSize \in Nat
  /\ MaxIds \in Nat /\ MaxDots \in Nat

VARIABLES
  state,       \* SmtpSession.state
  envelope,    \* SmtpSession.envelope
  dataBuffer,  \* SmtpSession.data_buffer
  reply,       \* the response the last call returned
  nextId,      \* the next queue id generate_queue_id draws
  \* What the client may conclude from the replies, read by no action's guard:
  txn,         \* sender and recipients answered 250 since that MAIL FROM
  fed,         \* the lines fed since the last 354
  queued       \* the last message answered "250 queued as"

sessionVars == <<state, envelope, dataBuffer, reply, nextId, txn, fed, queued>>

States == {"Connected", "Ready", "MailFrom", "RcptTo", "ReceivingData", "Closing"}
NoId   == 0
Ids    == 1 .. MaxIds
Paths  == Addresses \cup {EmptyPath}
Lines  == [dots : 0 .. MaxDots, text : BOOLEAN]

\* The line that ends DATA: a single dot and nothing else.
EndOfDataLine == [dots |-> 1, text |-> FALSE]

Reply(code) == [code |-> code, id |-> NoId]
OkQueued(id) == [code |-> 250, id |-> id]

-----------------------------------------------------------------------------
(* The envelope. *)

EmptyEnvelope ==
  [id |-> NoId, sender |-> EmptyPath, recipients |-> <<>>, greeted |-> FALSE]

\* The connection's own metadata (client_hostname, here whether it is known,
\* and the peer address) survives a reset.
ResetEnvelope(e) ==
  [e EXCEPT !.id = NoId, !.sender = EmptyPath, !.recipients = <<>>]

NoTransaction == [sender |-> EmptyPath, recipients |-> <<>>]

NoMessage == [envelope |-> EmptyEnvelope, data |-> <<>>,
              txn |-> NoTransaction, sent |-> <<>>]

-----------------------------------------------------------------------------

Init ==
  /\ state = "Connected"
  /\ envelope = EmptyEnvelope
  /\ dataBuffer = <<>>
  /\ reply = Reply(220)
  /\ nextId = 1
  /\ txn = NoTransaction
  /\ fed = <<>>
  /\ queued = NoMessage

\* The server reads no command once the session is closing, and gives every
\* line to feed_data_line while it receives DATA.
TakesCommands == state \notin {"ReceivingData", "Closing"}

\* A command answered without touching the session: a line that does not parse
\* (500, 501, 553), NOOP (250), VRFY (252), HELP (214).
AnswerOnly(code) ==
  /\ TakesCommands
  /\ reply' = Reply(code)
  /\ UNCHANGED <<state, envelope, dataBuffer, nextId, txn, fed, queued>>

\* EHLO and HELO start over from any state.
HandleEhlo ==
  /\ TakesCommands
  /\ state' = "Ready"
  /\ envelope' = [ResetEnvelope(envelope) EXCEPT !.greeted = TRUE]
  /\ txn' = NoTransaction
  /\ reply' = Reply(250)
  /\ UNCHANGED <<dataBuffer, nextId, fed, queued>>

\* A command out of order: 503 and nothing else.
BadSequence(allowed) ==
  /\ TakesCommands
  /\ state \notin allowed
  /\ reply' = Reply(503)
  /\ UNCHANGED <<state, envelope, dataBuffer, nextId, txn, fed, queued>>

\* MAIL FROM, with whether its SIZE parameter exceeds max_message_size.  The
\* recipients are left as they are.
HandleMailFrom(sender, tooLarge) ==
  \/ BadSequence({"Ready"})
  \/ /\ state = "Ready"
     /\ IF tooLarge
        THEN /\ reply' = Reply(552)
             /\ UNCHANGED <<state, envelope, txn>>
        ELSE /\ envelope' = [envelope EXCEPT !.sender = sender]
             /\ state' = "MailFrom"
             /\ txn' = [sender |-> sender, recipients |-> <<>>]
             /\ reply' = Reply(250)
     /\ UNCHANGED <<dataBuffer, nextId, fed, queued>>

\* Variant: the recipient limit is off by one.
HandleRcptToOffByOne(address) ==
  \/ BadSequence({"MailFrom", "RcptTo"})
  \/ /\ state \in {"MailFrom", "RcptTo"}
     /\ Len(envelope.recipients) <= MaxRecipients
     /\ envelope' = [envelope EXCEPT !.recipients = Append(@, address)]
     /\ state' = "RcptTo"
     /\ txn' = [txn EXCEPT !.recipients = Append(@, address)]
     /\ reply' = Reply(250)
     /\ UNCHANGED <<dataBuffer, nextId, fed, queued>>

\* RCPT TO, up to max_recipients of them.
HandleRcptTo(address) ==
  \/ BadSequence({"MailFrom", "RcptTo"})
  \/ /\ state \in {"MailFrom", "RcptTo"}
     /\ IF Len(envelope.recipients) >= MaxRecipients
        THEN /\ reply' = Reply(452)
             /\ UNCHANGED <<state, envelope, txn>>
        ELSE /\ envelope' = [envelope EXCEPT !.recipients = Append(@, address)]
             /\ state' = "RcptTo"
             /\ txn' = [txn EXCEPT !.recipients = Append(@, address)]
             /\ reply' = Reply(250)
     /\ UNCHANGED <<dataBuffer, nextId, fed, queued>>

\* Variant: DATA is accepted straight after MAIL FROM.
HandleDataEarly ==
  \/ BadSequence({"MailFrom", "RcptTo"})
  \/ /\ state \in {"MailFrom", "RcptTo"}
     /\ nextId \in Ids
     /\ envelope' = [envelope EXCEPT !.id = nextId]
     /\ nextId' = nextId + 1
     /\ state' = "ReceivingData"
     /\ reply' = Reply(354)
     /\ UNCHANGED <<dataBuffer, fed, txn, queued>>

\* Variant: an envelope that already carries a queue id keeps it.
HandleDataKeepsId ==
  \/ BadSequence({"RcptTo"})
  \/ /\ state = "RcptTo"
     /\ nextId \in Ids
     /\ envelope' = [envelope EXCEPT !.id = IF @ = NoId THEN nextId ELSE @]
     /\ nextId' = nextId + 1
     /\ state' = "ReceivingData"
     /\ reply' = Reply(354)
     /\ UNCHANGED <<dataBuffer, fed, txn, queued>>

\* DATA draws a queue id, stamps the envelope with it and empties the buffer.
HandleData ==
  \/ BadSequence({"RcptTo"})
  \/ /\ state = "RcptTo"
     /\ nextId \in Ids
     /\ envelope' = [envelope EXCEPT !.id = nextId]
     /\ nextId' = nextId + 1
     /\ dataBuffer' = <<>>
     /\ fed' = <<>>
     /\ state' = "ReceivingData"
     /\ reply' = Reply(354)
     /\ UNCHANGED <<txn, queued>>

HandleQuit ==
  /\ TakesCommands
  /\ state' = "Closing"
  /\ reply' = Reply(221)
  /\ UNCHANGED <<envelope, dataBuffer, nextId, txn, fed, queued>>

\* Variant: RSET forgets the transaction and stays in its state.
HandleRsetInPlace ==
  /\ TakesCommands
  /\ envelope' = ResetEnvelope(envelope)
  /\ dataBuffer' = <<>>
  /\ txn' = NoTransaction
  /\ reply' = Reply(250)
  /\ UNCHANGED <<state, nextId, fed, queued>>

\* RSET returns to Ready, unless no EHLO or HELO was ever accepted.
HandleRset ==
  /\ TakesCommands
  /\ envelope' = ResetEnvelope(envelope)
  /\ dataBuffer' = <<>>
  /\ state' = IF state = "Connected" THEN "Connected" ELSE "Ready"
  /\ txn' = NoTransaction
  /\ reply' = Reply(250)
  /\ UNCHANGED <<nextId, fed, queued>>

-----------------------------------------------------------------------------
(* DATA mode. *)

\* Variant: only a line of three dots or more loses one.
UnstuffLate(line) == IF line.dots > 2 THEN [line EXCEPT !.dots = @ - 1] ELSE line

\* A line that starts with two dots loses one of them.
Unstuff(line) == IF line.dots >= 2 THEN [line EXCEPT !.dots = @ - 1] ELSE line

\* Variant: the terminating dot does not leave DATA mode.
EndOfDataStays ==
  /\ state = "ReceivingData"
  /\ dataBuffer' = <<>>
  /\ reply' = OkQueued(envelope.id)
  /\ queued' = [envelope |-> envelope, data |-> dataBuffer,
                txn |-> txn, sent |-> fed]
  /\ fed' = <<>>
  /\ UNCHANGED <<state, envelope, nextId, txn>>

\* The terminating dot: back to Ready, the buffer is taken by the caller
\* (take_message_data), and the envelope stays as it is.
EndOfData ==
  /\ state = "ReceivingData"
  /\ state' = "Ready"
  /\ dataBuffer' = <<>>
  /\ reply' = OkQueued(envelope.id)
  /\ queued' = [envelope |-> envelope, data |-> dataBuffer,
                txn |-> txn, sent |-> fed]
  /\ fed' = <<>>
  /\ UNCHANGED <<envelope, nextId, txn>>

\* Any other line is unstuffed and appended; past the limit the message and its
\* transaction are dropped with 552, and the lines still to come are commands.
DataLine(line) ==
  /\ state = "ReceivingData"
  /\ line # EndOfDataLine
  /\ LET grown == Append(dataBuffer, Unstuff(line))
     IN IF Len(grown) > MaxMessageSize
        THEN /\ dataBuffer' = <<>>
             /\ state' = "Ready"
             /\ envelope' = ResetEnvelope(envelope)
             /\ txn' = NoTransaction
             /\ fed' = <<>>
             /\ reply' = Reply(552)
        ELSE /\ dataBuffer' = grown
             /\ fed' = Append(fed, line)
             /\ UNCHANGED <<state, envelope, txn, reply>>
  /\ UNCHANGED <<nextId, queued>>

-----------------------------------------------------------------------------

Command ==
  \/ \E code \in {214, 250, 252, 500, 501, 553} : AnswerOnly(code)
  \/ HandleEhlo
  \/ \E a \in Paths, big \in BOOLEAN : HandleMailFrom(a, big)
  \/ \E a \in Addresses : HandleRcptTo(a)
  \/ HandleData
  \/ HandleQuit
  \/ HandleRset

FeedDataLine ==
  \/ EndOfData
  \/ \E line \in Lines : DataLine(line)

Next == Command \/ FeedDataLine

Spec == Init /\ [][Next]_sessionVars

-----------------------------------------------------------------------------
(* Properties. *)

Envelopes == [id : {NoId} \cup Ids, sender : Paths, recipients : Seq(Addresses),
              greeted : BOOLEAN]
Transactions == [sender : Paths, recipients : Seq(Addresses)]

\* Types, and the two limits of the configuration: no envelope ever holds more
\* than max_recipients recipients and no buffer outgrows max_message_size.
TypeOK ==
  /\ state \in States
  /\ envelope \in Envelopes
  /\ Len(envelope.recipients) <= MaxRecipients
  /\ dataBuffer \in Seq(Lines)
  /\ Len(dataBuffer) <= MaxMessageSize
  /\ reply \in [code : Nat, id : {NoId} \cup Ids]
  /\ nextId \in 1 .. MaxIds + 1
  /\ txn \in Transactions
  /\ fed \in Seq(Lines)
  /\ queued \in [envelope : Envelopes, data : Seq(Lines),
                 txn : Transactions, sent : Seq(Lines)]

EndsWith(s, t) ==
  /\ Len(t) <= Len(s)
  /\ \A i \in 1 .. Len(t) : s[Len(s) - Len(t) + i] = t[i]

\* The state and the envelope agree, whatever order the commands came in: what
\* was answered 250 in this transaction is in the envelope (handle_mail_from and
\* handle_rcpt_to), a transaction in RcptTo or ReceivingData has a recipient, one
\* in ReceivingData carries the newest queue id, and a session that never saw
\* EHLO or HELO has no transaction.
EnvelopeMatchesState ==
  /\ state \in {"MailFrom", "RcptTo", "ReceivingData"} =>
       /\ envelope.greeted
       /\ envelope.sender = txn.sender
       /\ EndsWith(envelope.recipients, txn.recipients)
  /\ state \in {"RcptTo", "ReceivingData"} => txn.recipients # <<>>
  /\ state = "ReceivingData" => envelope.id = nextId - 1 /\ envelope.id # NoId
  /\ state = "Ready" => envelope.greeted

\* What a client that stuffs dots meant by a line it sent.
Meant(line) == [line EXCEPT !.dots = IF @ = 0 THEN 0 ELSE @ - 1]

\* `data' is the lines `sent', one for one, each with the client's own leading dots
\* (a line of one dot and some text comes from a client that does not stuff).
Carries(data, sent) ==
  /\ Len(data) = Len(sent)
  /\ \A i \in 1 .. Len(sent) : sent[i].dots # 1 => data[i] = Meant(sent[i])

\* The buffer holds the lines of this DATA and of no earlier one, undone of their
\* stuffing (feed_data_line), and is empty outside DATA.
BufferIsThisData ==
  IF state = "ReceivingData" THEN Carries(dataBuffer, fed) ELSE dataBuffer = <<>>

\* A message answered "250 queued as" has its queue id, the sender and all the
\* recipients answered 250 in its transaction, at least one of them, and exactly
\* the body sent after 354 (handle_data, feed_data_line, take_message_data).
QueuedIsTransaction ==
  queued # NoMessage =>
    /\ queued.envelope.id \in Ids
    /\ queued.envelope.sender = queued.txn.sender
    /\ queued.txn.recipients # <<>>
    /\ EndsWith(queued.envelope.recipients, queued.txn.recipients)
    /\ Carries(queued.data, queued.sent)

\* No two messages of a session are queued under one id, although the envelope of
\* the first, id included, is still there when the second begins.
QueuedIdsIncrease ==
  [][queued' # queued => queued'.envelope.id > queued.envelope.id]_sessionVars

\* What src/message/envelope.rs:3 calls the metadata of the transaction: the
\* recipients of a queued message are those of its own transaction.  The code
\* does not have this property.
QueuedOnlyToItsRecipients == queued.envelope.recipients = queued.txn.recipients

=============================================================================
