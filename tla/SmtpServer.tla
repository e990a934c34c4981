----------------------------- MODULE SmtpServer -----------------------------
(***************************************************************************)
(* One connection of the SMTP server: handle_connection and spool_message  *)
(* of src/smtp/server.rs around the session of SmtpSession, between a TCP  *)
(* stream and the spool.                                                   *)
(*                                                                         *)
(* What the code leaves to the library is here in three buffers: lines     *)
(* travel from `toServer' (the socket) through `readBuf' (the BufReader);  *)
(* replies wait in `pending' (the Vec of pipelined responses), then in     *)
(* `writeBuf' (the BufWriter), and reach the client only when flushed.     *)
(* A read may end inside a line: `partial' says that the BufReader holds   *)
(* the beginning of the line at the head of `toServer', or of the line     *)
(* that the client has begun and not finished, as `begun' says.            *)
(*                                                                         *)
(* The client has as much patience as it likes: it waits for every answer, *)
(* or pipelines as RFC 2920 allows and waits for the answer to DATA only,  *)
(* or waits for none and sends a body behind every DATA.  It may fall      *)
(* silent or vanish at any point, in the middle of a line too.             *)
(***************************************************************************)
EXTENDS SmtpSession, SequencesExt

CONSTANTS
  Patiences,  \* which answers the clients may wait for: "all", "data" or "none"
  Opening,    \* the commands the client begins with
  MaxLines    \* bound: lines the client sends

ASSUME ServerAssumption ==
  /\ Patiences \subseteq {"all", "data", "none"} /\ MaxLines \in Nat
  /\ MaxDots >= 2  \* a body may have a stuffed line
  /\ Opening \in Seq({"EHLO", "MAIL", "RCPT", "DATA", "RSET", "NOOP", "QUIT"})
  /\ \A k \in DOMAIN Opening : k < Len(Opening) => Opening[k] # "DATA"

VARIABLES
  toServer,  \* lines in the socket
  readBuf,   \* whole lines in the BufReader
  partial,   \* whether the BufReader also holds the beginning of the next line
  pending,   \* the pending vector of handle_connection
  writeBuf,  \* replies written to the BufWriter and not flushed
  received,  \* replies the client has received
  conn,      \* "open", "spooling" (inside spool_message), "closed"
  spool,     \* ids of the messages in the spool
  \* The client: its patience, how many lines it sent, how many replies it is due, whether it is
  \* between commands, waiting for the answer to DATA or sending a body,
  \* whether it has closed its side ("cut" in the middle of a line), and
  \* whether it has sent the beginning of a line and not yet the rest.
  patience, sent, due, mode, closing, begun,
  \* Read by no guard:
  issued,    \* every reply, in the order the session and the server made them
  unspooled  \* ids announced without a message: empty body or failed store

clientVars == <<patience, sent, due, mode, closing, begun>>
replyVars  == <<pending, writeBuf, received, issued>>
inputVars  == <<toServer, readBuf, partial>>
vars == <<sessionVars, clientVars, replyVars, inputVars, conn, spool, unspooled>>

Commands == {"EHLO", "MAIL", "RCPT", "DATA", "RSET", "NOOP", "QUIT"}
Dot      == "."
Text     == "text"      \* a line of a body
StuffedText == "..text" \* a line of a body that begins with a dot, as it is sent
Wire     == Commands \cup {Dot, Text, StuffedText}

\* What can be left of a line when the client goes away while it is sent.
Fragments(line) == IF line = StuffedText THEN {Dot, "frag"} ELSE {"frag"}

\* The line that feed_data_line sees: in DATA mode a command is text like any other.
AsDataLine(line) ==
  CASE line = Dot         -> EndOfDataLine
    [] line = StuffedText -> [dots |-> 2, text |-> TRUE]
    [] OTHER              -> [dots |-> 0, text |-> TRUE]

ServerInit ==
  /\ Init
  /\ toServer = <<>> /\ readBuf = <<>> /\ partial = FALSE
  /\ pending = <<>> /\ writeBuf = <<>>
  /\ received = <<reply>> /\ issued = <<reply>>  \* the greeting is flushed at once
  /\ conn = "open"
  /\ spool = {} /\ unspooled = {}
  /\ patience \in Patiences /\ sent = 0 /\ due = 1 /\ mode = "command" /\ closing = "no"
  /\ begun = FALSE

-----------------------------------------------------------------------------
(* The client. *)

Answered == due <= Len(received)

\* Once everything is answered, the client knows what became of its DATA; one without
\* patience takes it for granted.
ModeNow ==
  IF mode # "asked" THEN mode
  ELSE IF patience = "none" THEN "body"
  ELSE IF ~ Answered THEN "asked"
  ELSE IF Last(received).code = 354 THEN "body" ELSE "command"

Offer ==
  IF sent < Len(Opening) THEN {Opening[sent + 1]}
  ELSE IF ModeNow = "body" THEN {Dot, Text, StuffedText} ELSE Commands

MaySend ==
  /\ closing = "no" /\ conn # "closed"
  /\ sent < MaxLines
  /\ patience = "all" => Answered
  /\ ModeNow # "asked"

\* The client sends the beginning of a line.  What line that is, is settled with its end.
Begin ==
  /\ MaySend /\ ~ begun
  /\ begun' = TRUE
  /\ UNCHANGED <<sessionVars, replyVars, inputVars, conn, spool, unspooled,
                 patience, sent, due, mode, closing>>

\* A line, or what was missing of it.
Send(line) ==
  /\ MaySend /\ line \in Offer
  /\ toServer' = Append(toServer, line)
  /\ sent' = sent + 1
  /\ due' = IF line \in {Text, StuffedText} THEN due ELSE due + 1
  /\ mode' = CASE line = "DATA" -> "asked"
               [] line = Dot    -> "command"
               [] OTHER         -> ModeNow
  /\ begun' = FALSE
  /\ UNCHANGED <<sessionVars, replyVars, readBuf, partial, conn, spool, unspooled,
                 patience, closing>>

\* The client closes its side between two lines.
Close ==
  /\ closing = "no" /\ ~ begun /\ closing' = "clean"
  /\ UNCHANGED <<sessionVars, replyVars, inputVars, conn, spool, unspooled,
                 patience, sent, due, mode, begun>>

\* The client is gone while a line is under way, and a part of it arrives.
CutOff ==
  /\ MaySend
  /\ \E line \in Offer : \E part \in Fragments(line) : toServer' = Append(toServer, part)
  /\ closing' = "cut" /\ begun' = FALSE
  /\ UNCHANGED <<sessionVars, replyVars, readBuf, partial, conn, spool, unspooled,
                 patience, sent, due, mode>>

Client == Begin \/ (\E line \in Wire : Send(line)) \/ Close \/ CutOff

-----------------------------------------------------------------------------
(* The BufReader. *)

\* A read brings in what the socket has, or less, and need not stop at the end of a
\* line, of one that the client has only begun neither.  It happens only when the buffer
\* has no whole line left.
Fill ==
  /\ conn = "open"
  /\ readBuf = <<>>
  /\ \E n \in 0 .. Len(toServer), rest \in BOOLEAN :
       /\ rest => n < Len(toServer) \/ begun
       /\ n > 0 \/ (rest /\ ~partial)
       /\ readBuf' = SubSeq(toServer, 1, n)
       /\ toServer' = SubSeq(toServer, n + 1, Len(toServer))
       /\ partial' = rest
  /\ UNCHANGED <<sessionVars, replyVars, clientVars, conn, spool, unspooled>>

TakeLine ==
  /\ conn = "open"
  /\ readBuf # <<>>
  /\ readBuf' = Tail(readBuf)
  /\ UNCHANGED <<toServer, partial, clientVars>>

\* reader.buffer().is_empty(), after the line is taken.
NothingBuffered == readBuf' = <<>> /\ ~partial

-----------------------------------------------------------------------------
(* Command mode. *)

Process(line) ==
  CASE line = "EHLO" -> HandleEhlo
    [] line = "MAIL" -> \E a \in Addresses : HandleMailFrom(a, FALSE)
    [] line = "RCPT" -> \E a \in Addresses : HandleRcptTo(a)
    [] line = "DATA" -> HandleData
    [] line = "RSET" -> HandleRset
    [] line = "NOOP" -> AnswerOnly(250)
    [] line = "QUIT" -> HandleQuit
    [] OTHER         -> AnswerOnly(500)

\* Variant: the replies are flushed only when nothing is buffered.
ShouldFlushIdleOnly == NothingBuffered

\* Variant: an idle connection is not a reason to flush.
ShouldFlushModeOnly == state' \in {"ReceivingData", "Closing"}

ShouldFlush == NothingBuffered \/ state' \in {"ReceivingData", "Closing"}

ServeCommand ==
  /\ TakesCommands
  /\ TakeLine
  /\ Process(Head(readBuf))
  /\ issued' = Append(issued, reply')
  /\ LET replies == Append(pending, reply')
     IN IF ShouldFlush
        THEN /\ received' = received \o writeBuf \o replies
             /\ writeBuf' = <<>> /\ pending' = <<>>
        ELSE pending' = replies /\ UNCHANGED <<writeBuf, received>>
  /\ conn' = IF state' = "Closing" THEN "closed" ELSE conn
  /\ UNCHANGED <<spool, unspooled>>

-----------------------------------------------------------------------------
(* DATA mode.  The replies made here go to the BufWriter and are not flushed. *)

Write(r) ==
  /\ writeBuf' = Append(writeBuf, r)
  /\ issued' = Append(issued, r)
  /\ UNCHANGED <<pending, received>>

ServeDataLine ==
  /\ TakeLine
  /\ AsDataLine(Head(readBuf)) # EndOfDataLine
  /\ DataLine(AsDataLine(Head(readBuf)))
  /\ IF state' = "ReceivingData" THEN UNCHANGED replyVars ELSE Write(reply')
  /\ UNCHANGED <<conn, spool, unspooled>>

\* The end of a body.  An empty one is answered and never spooled.
ServeEndOfData ==
  /\ TakeLine
  /\ AsDataLine(Head(readBuf)) = EndOfDataLine
  /\ EndOfData
  /\ IF dataBuffer = <<>>
     THEN /\ Write(reply')
          /\ unspooled' = unspooled \cup {envelope.id}
          /\ UNCHANGED conn
     ELSE /\ conn' = "spooling"
          /\ UNCHANGED <<replyVars, unspooled>>
  /\ UNCHANGED spool

\* Variant: the reply is written before the message is stored.
StoreOkLate ==
  /\ conn = "spooling"
  /\ conn' = "open"
  /\ Write(reply)
  /\ UNCHANGED <<sessionVars, inputVars, clientVars, spool, unspooled>>

\* spool_message, then the reply whatever came of it.
StoreOk ==
  /\ conn = "spooling"
  /\ spool' = spool \cup {queued.envelope.id}
  /\ conn' = "open"
  /\ Write(reply)
  /\ UNCHANGED <<sessionVars, inputVars, clientVars, unspooled>>

\* An error of DiskSpool::store is logged.
StoreFails ==
  /\ conn = "spooling"
  /\ unspooled' = unspooled \cup {queued.envelope.id}
  /\ conn' = "open"
  /\ Write(reply)
  /\ UNCHANGED <<sessionVars, inputVars, clientVars, spool>>

-----------------------------------------------------------------------------
(* The end of the connection.  What is still in the BufWriter is dropped. *)

\* Variant: the end of the stream is noticed in command mode only.
EofOfCommands ==
  /\ conn = "open" /\ TakesCommands
  /\ closing # "no" /\ toServer = <<>> /\ readBuf = <<>>
  /\ conn' = "closed"
  /\ UNCHANGED <<sessionVars, inputVars, clientVars, replyVars, spool, unspooled>>

\* read_line returns 0 bytes.
Eof ==
  /\ conn = "open"
  /\ closing # "no" /\ toServer = <<>> /\ readBuf = <<>>
  /\ conn' = "closed"
  /\ UNCHANGED <<sessionVars, inputVars, clientVars, replyVars, spool, unspooled>>

\* A read or write error, or the death of the process.
Abort ==
  /\ conn # "closed"
  /\ conn' = "closed"
  /\ UNCHANGED <<sessionVars, inputVars, clientVars, replyVars, spool, unspooled>>

Server == Fill \/ ServeCommand \/ ServeDataLine \/ ServeEndOfData \/ StoreOk \/ StoreFails \/ Eof

ServerNext == Client \/ Server \/ Abort

ServerSpec == ServerInit /\ [][ServerNext]_vars

\* The connection's task is polled whenever the socket or the disk is ready.  The client owes
\* nothing: not even the end of a line that it has begun.
FairServerSpec == ServerSpec /\ WF_vars(Server)

-----------------------------------------------------------------------------
(* Properties. *)

\* Types of the connection's own state.
ServerTypeOK ==
  /\ toServer \in Seq(Wire \cup {"frag"}) /\ readBuf \in Seq(Wire \cup {"frag"})
  /\ partial => toServer # <<>> \/ begun
  /\ \A s \in {pending, writeBuf, received, issued} :
       s \in Seq([code : Nat, id : {NoId} \cup Ids])
  /\ conn \in {"open", "spooling", "closed"}
  /\ conn = "spooling" => state = "Ready"
  /\ spool \subseteq Ids /\ unspooled \subseteq Ids
  /\ patience \in Patiences /\ sent \in 0 .. MaxLines /\ due \in Nat
  /\ mode \in {"command", "asked", "body"} /\ closing \in {"no", "clean", "cut"}
  /\ begun \in BOOLEAN

\* Whatever the segments and the flushes, the client receives the replies in the
\* order of its lines, none lost or doubled before the connection ends, although
\* they wait in two queues that are written at different times (server.rs:112-130).
RepliesInOrder == received \o writeBuf \o pending = issued

\* Before the server takes a line as a line of a body, the client has been told so:
\* all replies are flushed up to the 354 (server.rs:121-131).
DataModeFlushed ==
  state = "ReceivingData" =>
    pending = <<>> /\ writeBuf = <<>> /\ Last(received).code = 354

\* A command of the client is never swallowed as a line of a body, even when it is
\* pipelined behind the dot that ends one (server.rs:98-115).  That ends with the first
\* body that is refused as too large: what is left of it is answered as commands
\* (session.rs:276-282), and a client that counts its answers is out of step.
NoneTooLarge == \A k \in DOMAIN issued : issued[k].code # 552

CommandsAreNotBodies ==
  state = "ReceivingData" /\ readBuf # <<>> /\ NoneTooLarge =>
    Head(readBuf) \notin Commands

\* When the client reads "250 queued as", the message is in the spool, or it is one
\* of the two kinds the server gives up on: empty, or refused by the disk
\* (server.rs:102-107, 172-178).
AcknowledgedIsSpooled ==
  \A i \in DOMAIN received :
    received[i].id # NoId => received[i].id \in spool \cup unspooled

\* If the client does not leave a line unfinished for ever, the reply to a pipelined
\* command is flushed in the end, or the connection ends: as long as whole lines come,
\* the vector does not wait for more of them (server.rs:117-131).
PendingIsFlushed ==
  []<>(~ begun) => (pending # <<>> ~> pending = <<>> \/ conn = "closed")

\* A client that goes away does not leave a connection behind (server.rs:96).
ClientGoneServerGone == closing # "no" ~> conn = "closed"

\* src/README.md:208 and src/src/smtp/server.rs:4-6: every line that calls for an
\* answer gets one while the connection lasts.  The code does not have this
\* property: the reply to the end of DATA is written and not flushed.
EveryLineAnswered == due > Len(received) ~> due <= Len(received) \/ conn = "closed" \/ closing # "no"

=============================================================================
