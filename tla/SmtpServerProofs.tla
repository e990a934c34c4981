-------------------------- MODULE SmtpServerProofs --------------------------
(***************************************************************************)
(* One connection of the SMTP server for every client and every split of   *)
(* its lines into segments.  A step of the server is a step of the session *)
(* or leaves it alone, so that what SmtpSessionProofs proves of sessions   *)
(* holds here; on that rest the order of the replies, the flush before a   *)
(* body, what "250 queued as" is worth, and that commands and bodies are   *)
(* not mistaken for each other.                                            *)
(***************************************************************************)
EXTENDS SmtpServer, SmtpSessionProofs, SequenceTheorems

-----------------------------------------------------------------------------
(* The session of a connection. *)

\* A line of a body is one that the session knows.
LEMMA AsDataLineType == \A line : AsDataLine(line) \in Lines
<1>1. 0 \in 0 .. MaxDots /\ 1 \in 0 .. MaxDots /\ 2 \in 0 .. MaxDots
  BY SessionAssumption, ServerAssumption
<1> QED
  BY <1>1 DEF AsDataLine, EndOfDataLine, Lines

\* Whatever line is served as a command is one call of the session.
LEMMA ProcessIsCommand ==
  ASSUME NEW line, Process(line)
  PROVE  Command
<1>1. CASE line = "MAIL"
  <2>1. PICK a \in Addresses : HandleMailFrom(a, FALSE)
    BY <1>1 DEF Process
  <2>2. a \in Paths /\ FALSE \in BOOLEAN
    BY DEF Paths
  <2>3. \E path \in Paths, big \in BOOLEAN : HandleMailFrom(path, big)
    BY <2>1, <2>2, Zenon
  <2> QED
    BY <2>3, Zenon DEF Command
<1>2. CASE line = "RCPT"
  BY <1>2 DEF Process, Command
<1>3. CASE line \notin {"MAIL", "RCPT"}
  <2>1. \/ HandleEhlo \/ HandleData \/ HandleRset \/ HandleQuit
        \/ AnswerOnly(250) \/ AnswerOnly(500)
    BY <1>3 DEF Process
  <2> QED
    BY <2>1 DEF Command
<1> QED
  BY <1>1, <1>2, <1>3

\* A step of the connection is a step of its session or leaves it alone.
LEMMA SessionStep ==
  ASSUME [ServerNext]_vars
  PROVE  [Next]_sessionVars
<1>1. CASE ServeCommand
  BY <1>1, ProcessIsCommand DEF ServeCommand, Next
<1>2. CASE ServeDataLine
  BY <1>2, AsDataLineType DEF ServeDataLine, Next, FeedDataLine
<1>3. CASE ServeEndOfData
  BY <1>3 DEF ServeEndOfData, Next, FeedDataLine
<1>4. ASSUME Client \/ Fill \/ StoreOk \/ StoreFails \/ Eof \/ Abort
      PROVE  UNCHANGED sessionVars
  BY <1>4 DEF Client, Begin, Send, Close, CutOff, Fill, StoreOk, StoreFails, Eof, Abort
<1>5. CASE UNCHANGED vars
  BY <1>5 DEF vars
<1> QED
  BY <1>1, <1>2, <1>3, <1>4, <1>5 DEF ServerNext, Server

\* Every connection runs one session as SmtpSession has it, so that its theorems hold of
\* connections.
THEOREM ServerRunsSession == ServerSpec => Spec
<1>1. ServerInit => Init
  BY DEF ServerInit
<1>2. [ServerNext]_vars => [Next]_sessionVars
  BY SessionStep
<1> QED
  BY <1>1, <1>2, PTL DEF ServerSpec, Spec

\* What SmtpSessionProofs proves of the session.
SessionInv == TypeOK /\ EnvelopeMatchesState

\* The session of a connection, for ever.
LEMMA SessionInvariant == ServerSpec => []SessionInv
  BY ServerRunsSession, TypeCorrect, EnvelopeCorrect, PTL DEF SessionInv

-----------------------------------------------------------------------------
(* Types. *)

Replies == [code : Nat, id : {NoId} \cup Ids]
Line    == Wire \cup {"frag"}

\* While a message is stored, its reply is ready and has the id of its file.
Spooling ==
  conn = "spooling" =>
    queued.envelope.id \in Ids /\ reply = OkQueued(queued.envelope.id)

\* The end of a body is answered with the id of its envelope.
LEMMA EndOfDataEffect ==
  ASSUME SessionInv, EndOfData
  PROVE  /\ state' = "Ready" /\ envelope.id \in Ids
         /\ reply' = OkQueued(envelope.id) /\ queued'.envelope.id = envelope.id
<1>1. state = "ReceivingData" /\ envelope \in Envelopes
  BY DEF EndOfData, SessionInv, TypeOK
<1>2. envelope.id # NoId
  BY <1>1 DEF SessionInv, EnvelopeMatchesState
<1>3. envelope.id \in Ids
  BY <1>1, <1>2 DEF Envelopes
<1> QED
  BY <1>3 DEF EndOfData

\* Sequences keep their element type when a reply is appended or the queues are joined.
LEMMA ReplySeqs ==
  ASSUME NEW s \in Seq(Replies), NEW t \in Seq(Replies), NEW r \in Replies
  PROVE  <<>> \in Seq(Replies) /\ Append(s, r) \in Seq(Replies) /\ s \o t \in Seq(Replies)
  OBVIOUS

\* Taking a line leaves lines.
LEMMA TakeLineType ==
  ASSUME ServerTypeOK, TakeLine
  PROVE  /\ readBuf' \in Seq(Line) /\ toServer' = toServer /\ partial' = partial
         /\ conn = "open" /\ Head(readBuf) \in Line
         /\ UNCHANGED clientVars
<1>1. readBuf \in Seq(Line) /\ readBuf # <<>>
  BY DEF ServerTypeOK, TakeLine, Line
<1>2. Tail(readBuf) \in Seq(Line) /\ Head(readBuf) \in Line
  BY <1>1, HeadTailProperties
<1> QED
  BY <1>2 DEF TakeLine

\* The parts of ServerTypeOK: the lines, the replies, the client, and the rest.
LineTypes   == toServer \in Seq(Line) /\ readBuf \in Seq(Line) /\ (partial => toServer # <<>> \/ begun)
ReplyTypes  == \A s \in {pending, writeBuf, received, issued} : s \in Seq(Replies)
ClientTypes ==
  /\ patience \in Patiences /\ sent \in 0 .. MaxLines /\ due \in Nat
  /\ mode \in {"command", "asked", "body"} /\ closing \in {"no", "clean", "cut"}
  /\ begun \in BOOLEAN
StoreTypes ==
  /\ conn \in {"open", "spooling", "closed"}
  /\ conn = "spooling" => state = "Ready"
  /\ spool \subseteq Ids /\ unspooled \subseteq Ids

\* The type invariant, in parts that a step leaves alone or not.
LEMMA TypeParts == ServerTypeOK <=> LineTypes /\ ReplyTypes /\ ClientTypes /\ StoreTypes
  BY Zenon DEF ServerTypeOK, LineTypes, ReplyTypes, ClientTypes, StoreTypes, Line, Replies

\* What a client sends is a line, and a part of it the beginning of one.
LEMMA OfferType ==
  ASSUME ServerTypeOK, NEW line \in Offer
  PROVE  line \in Wire /\ Fragments(line) \subseteq Line
<1>1. sent \in Nat /\ Opening \in Seq(Commands)
  BY ServerAssumption DEF ServerTypeOK, Commands
<1>2. CASE sent < Len(Opening)
  <2>1. sent + 1 \in 1 .. Len(Opening) /\ line = Opening[sent + 1]
    BY <1>1, <1>2 DEF Offer
  <2>2. line \in Commands
    BY <1>1, <2>1, ElementOfSeq
  <2> QED
    BY <2>2 DEF Wire, Line, Fragments
<1>3. CASE ~(sent < Len(Opening))
  BY <1>3 DEF Offer, Wire, Line, Fragments
<1> QED
  BY <1>2, <1>3

\* A read moves lines from the socket to the buffer and leaves the rest there.
LEMMA FillType ==
  ASSUME ServerTypeOK, Fill
  PROVE  LineTypes' /\ readBuf' \o toServer' = readBuf \o toServer
<1>1. toServer \in Seq(Line) /\ readBuf = <<>>
  BY DEF ServerTypeOK, Fill, Line
<1>2. PICK n \in 0 .. Len(toServer), rest \in BOOLEAN :
        /\ rest => n < Len(toServer) \/ begun
        /\ readBuf' = SubSeq(toServer, 1, n)
        /\ toServer' = SubSeq(toServer, n + 1, Len(toServer))
        /\ partial' = rest
  BY DEF Fill
<1>3. Len(toServer) \in Nat /\ \A i \in 1 .. Len(toServer) : toServer[i] \in Line
  BY <1>1, ElementOfSeq
<1>4. /\ readBuf' \in Seq(Line) /\ toServer' \in Seq(Line)
      /\ Len(toServer') = IF n + 1 <= Len(toServer) THEN Len(toServer) - n ELSE 0
  BY <1>2, <1>3, SubSeqProperties
<1>5. partial' => toServer' # <<>> \/ begun'
  <2> SUFFICES ASSUME partial', ~ begun PROVE toServer' # <<>>
    BY DEF Fill, clientVars
  <2>1. n < Len(toServer)
    BY <1>2, Zenon
  <2>2. Len(toServer') # 0
    BY <1>3, <1>4, <2>1
  <2> QED
    BY <2>2, EmptySeq
<1>6. readBuf' \o toServer' = toServer
  <2>1. SubSeq(toServer, 1, n) \o SubSeq(toServer, n + 1, Len(toServer))
          = SubSeq(toServer, 1, Len(toServer))
    <3>1. 1 \in 1 .. Len(toServer) + 1 /\ n \in 1 - 1 .. Len(toServer) /\ Len(toServer) \in n .. Len(toServer)
      BY <1>3
    <3> QED
      BY <1>1, <3>1, ConcatAdjacentSubSeq
  <2> QED
    BY <1>1, <1>2, <2>1, SubSeqFull
<1>7. readBuf \o toServer = toServer
  BY <1>1, ConcatEmptySeq
<1> QED
  BY <1>4, <1>5, <1>6, <1>7 DEF LineTypes

\* Every step keeps the types.
LEMMA TypeStep ==
  ASSUME ServerTypeOK, Spooling, SessionInv, SessionInv', [ServerNext]_vars
  PROVE  ServerTypeOK' /\ Spooling'
<1> USE ServerAssumption
<1>0. LineTypes' /\ ReplyTypes' /\ ClientTypes' /\ StoreTypes' => ServerTypeOK'
  BY Zenon DEF ServerTypeOK, LineTypes, ReplyTypes, ClientTypes, StoreTypes, Line, Replies
<1>1. LineTypes /\ ReplyTypes /\ ClientTypes /\ StoreTypes
  BY TypeParts
<1>2. reply \in Replies /\ reply' \in Replies
  BY DEF SessionInv, TypeOK, Replies
<1>3. ASSUME UNCHANGED inputVars, begun => begun' PROVE LineTypes'
  BY <1>1, <1>3 DEF inputVars, LineTypes
<1>4. ASSUME UNCHANGED replyVars PROVE ReplyTypes'
  BY <1>1, <1>4 DEF replyVars, ReplyTypes
<1>5. ASSUME UNCHANGED clientVars PROVE ClientTypes'
  BY <1>1, <1>5 DEF clientVars, ClientTypes
<1>6. ASSUME UNCHANGED <<conn, spool, unspooled, sessionVars>> PROVE StoreTypes' /\ Spooling'
  BY <1>1, <1>6 DEF StoreTypes, Spooling, sessionVars
<1>7. ASSUME Write(reply) \/ Write(reply') PROVE ReplyTypes'
  BY <1>1, <1>2, <1>7, ReplySeqs DEF Write, ReplyTypes
<1>8. ASSUME TakeLine PROVE LineTypes' /\ ClientTypes'
  BY <1>1, <1>5, <1>8, TakeLineType DEF LineTypes, clientVars
<1>9. ASSUME NEW line \in Wire, Send(line) PROVE ServerTypeOK' /\ Spooling'
  <2>1. line \in Line
    BY DEF Line
  <2>2. LineTypes'
    <3>1. toServer' = Append(toServer, line) /\ UNCHANGED <<readBuf, partial>>
      BY <1>9 DEF Send
    <3>2. Append(toServer, line) \in Seq(Line) /\ Append(toServer, line) # <<>>
      BY <1>1, <2>1 DEF LineTypes
    <3> QED
      BY <1>1, <3>1, <3>2 DEF LineTypes
  <2>3. ClientTypes'
    <3>1. sent \in Nat /\ sent < MaxLines /\ due \in Nat
      BY <1>1, <1>9 DEF ClientTypes, Send, MaySend
    <3>2. ModeNow \in {"command", "asked", "body"}
      BY <1>1 DEF ModeNow, ClientTypes
    <3>3. /\ sent' = sent + 1 /\ due' \in {due, due + 1} /\ UNCHANGED <<patience, closing>>
          /\ begun' = FALSE /\ mode' \in {"asked", "command", ModeNow}
      BY <1>9 DEF Send
    <3>4. sent' \in 0 .. MaxLines /\ due' \in Nat
      BY <3>1, <3>3
    <3> QED
      BY <1>1, <3>2, <3>3, <3>4 DEF ClientTypes
  <2>4. UNCHANGED <<sessionVars, replyVars, conn, spool, unspooled>>
    BY <1>9 DEF Send
  <2> QED
    BY <1>4, <1>6, <2>2, <2>3, <2>4, <1>0
<1>10. CASE Close
  <2>1. /\ UNCHANGED <<sessionVars, replyVars, inputVars, conn, spool, unspooled>>
        /\ closing' = "clean" /\ UNCHANGED <<patience, sent, due, mode, begun>>
    BY <1>10 DEF Close
  <2>2. ClientTypes'
    BY <1>1, <2>1 DEF ClientTypes
  <2> QED
    BY <1>3, <1>4, <1>6, <2>1, <2>2, <1>0
<1>11. CASE CutOff
  <2>1. PICK line \in Offer : \E part \in Fragments(line) : toServer' = Append(toServer, part)
    BY <1>11 DEF CutOff
  <2>2. PICK part \in Fragments(line) : toServer' = Append(toServer, part)
    BY <2>1
  <2>3. part \in Line
    BY <2>1, OfferType
  <2>4. /\ closing' = "cut" /\ begun' = FALSE /\ UNCHANGED <<patience, sent, due, mode>>
        /\ UNCHANGED <<sessionVars, replyVars, readBuf, partial, conn, spool, unspooled>>
    BY <1>11 DEF CutOff
  <2>5. Append(toServer, part) \in Seq(Line) /\ Append(toServer, part) # <<>>
    BY <1>1, <2>3 DEF LineTypes
  <2>6. LineTypes'
    BY <1>1, <2>2, <2>4, <2>5 DEF LineTypes
  <2>7. ClientTypes'
    BY <1>1, <2>4 DEF ClientTypes
  <2> QED
    BY <1>4, <1>6, <2>4, <2>6, <2>7, <1>0
<1>12. CASE Fill
  <2>1. UNCHANGED <<sessionVars, replyVars, clientVars, conn, spool, unspooled>>
    BY <1>12 DEF Fill
  <2>2. LineTypes'
    BY <1>12, FillType
  <2> QED
    BY <1>4, <1>5, <1>6, <2>1, <2>2, <1>0
<1>13. CASE ServeCommand
  <2>1. TakeLine /\ UNCHANGED <<spool, unspooled>> /\ conn = "open" /\ conn' \in {"closed", conn}
    BY <1>13 DEF ServeCommand, TakeLine
  <2>2. StoreTypes' /\ Spooling'
    BY <1>1, <2>1 DEF StoreTypes, Spooling
  <2>3. issued' \in Seq(Replies)
    BY <1>1, <1>2, <1>13, ReplySeqs DEF ServeCommand, ReplyTypes
  <2>4. {pending', writeBuf', received'} \subseteq Seq(Replies)
    <3> DEFINE replies == Append(pending, reply')
    <3>1. /\ replies \in Seq(Replies) /\ writeBuf \in Seq(Replies) /\ received \in Seq(Replies)
          /\ <<>> \in Seq(Replies)
      BY <1>1, <1>2, ReplySeqs DEF ReplyTypes
    <3>2. received \o writeBuf \o replies \in Seq(Replies)
      <4> HIDE DEF replies
      <4> QED
        BY <3>1, ReplySeqs, <1>2
    <3>3. \/ received' = received \o writeBuf \o replies /\ writeBuf' = <<>> /\ pending' = <<>>
          \/ pending' = replies /\ writeBuf' = writeBuf /\ received' = received
      BY <1>13 DEF ServeCommand
    <3> HIDE DEF replies
    <3> QED
      BY <3>1, <3>2, <3>3
  <2>5. ReplyTypes'
    BY <2>3, <2>4 DEF ReplyTypes
  <2> QED
    BY <1>8, <2>1, <2>2, <2>5, <1>0
<1>14. CASE ServeDataLine
  <2>1. TakeLine /\ UNCHANGED <<conn, spool, unspooled>> /\ conn = "open"
    BY <1>14 DEF ServeDataLine, TakeLine
  <2>2. ReplyTypes'
    BY <1>4, <1>7, <1>14 DEF ServeDataLine
  <2>3. StoreTypes' /\ Spooling'
    BY <1>1, <2>1 DEF StoreTypes, Spooling
  <2> QED
    BY <1>8, <2>1, <2>2, <2>3, <1>0
<1>15. CASE ServeEndOfData
  <2>1. TakeLine /\ EndOfData /\ spool' = spool /\ conn = "open"
    BY <1>15 DEF ServeEndOfData, TakeLine
  <2>2. /\ state' = "Ready" /\ envelope.id \in Ids
        /\ reply' = OkQueued(envelope.id) /\ queued'.envelope.id = envelope.id
    BY <2>1, EndOfDataEffect
  <2>3. ReplyTypes'
    BY <1>4, <1>7, <1>15 DEF ServeEndOfData
  <2>4. /\ conn' \in {"open", "spooling"}
        /\ unspooled' \in {unspooled, unspooled \cup {envelope.id}}
    BY <1>15, <2>1 DEF ServeEndOfData
  <2>5. StoreTypes' /\ Spooling'
    BY <1>1, <2>1, <2>2, <2>4 DEF StoreTypes, Spooling
  <2> QED
    BY <1>8, <2>1, <2>3, <2>5, <1>0
<1>16. CASE StoreOk \/ StoreFails
  <2>1. /\ conn = "spooling" /\ conn' = "open" /\ Write(reply)
        /\ UNCHANGED <<inputVars, clientVars, begun>>
        /\ spool' \in {spool, spool \cup {queued.envelope.id}}
        /\ unspooled' \in {unspooled, unspooled \cup {queued.envelope.id}}
    BY <1>16 DEF StoreOk, StoreFails, clientVars
  <2>2. StoreTypes' /\ Spooling'
    BY <1>1, <2>1 DEF StoreTypes, Spooling
  <2> QED
    BY <1>3, <1>5, <1>7, <2>1, <2>2, <1>0
<1>17. CASE Eof \/ Abort
  <2>1. /\ conn' = "closed" /\ UNCHANGED <<spool, unspooled>>
        /\ UNCHANGED <<inputVars, clientVars, replyVars, begun>>
    BY <1>17 DEF Eof, Abort, clientVars
  <2>2. StoreTypes' /\ Spooling'
    BY <1>1, <2>1 DEF StoreTypes, Spooling
  <2> QED
    BY <1>3, <1>4, <1>5, <2>1, <2>2, <1>0
<1>18. CASE Begin
  <2>1. /\ UNCHANGED <<sessionVars, replyVars, inputVars, conn, spool, unspooled>>
        /\ begun' = TRUE /\ UNCHANGED <<patience, sent, due, mode, closing>>
    BY <1>18 DEF Begin
  <2>2. ClientTypes'
    BY <1>1, <2>1 DEF ClientTypes
  <2> QED
    BY <1>3, <1>4, <1>6, <2>1, <2>2, <1>0
<1>19. CASE UNCHANGED vars
  <2>1. UNCHANGED <<inputVars, replyVars, clientVars, conn, spool, unspooled, sessionVars, begun>>
    BY <1>19 DEF vars, clientVars
  <2> QED
    BY <1>3, <1>4, <1>5, <1>6, <2>1, <1>0
<1> QED
  BY <1>9, <1>10, <1>11, <1>12, <1>13, <1>14, <1>15, <1>16, <1>17, <1>18, <1>19
  DEF ServerNext, Client, Server

\* The types of a connection hold, and its message is stored under an id that was drawn.
LEMMA ServerTypes == ServerSpec => [](ServerTypeOK /\ Spooling)
<1>1. ServerInit => ServerTypeOK /\ Spooling
  <2> SUFFICES ASSUME ServerInit PROVE ServerTypeOK /\ Spooling
    OBVIOUS
  <2>1. reply \in Replies /\ <<reply>> \in Seq(Replies)
    BY DEF ServerInit, Init, Reply, Replies
  <2>2. LineTypes /\ ReplyTypes /\ StoreTypes /\ Spooling
    BY <2>1, ServerAssumption DEF ServerInit, LineTypes, ReplyTypes, StoreTypes, Spooling
  <2>3. ClientTypes
    <3>1. begun \in BOOLEAN
      BY Zenon DEF ServerInit
    <3>2. /\ patience \in Patiences /\ sent = 0 /\ due = 1 /\ mode = "command" /\ closing = "no"
          /\ MaxLines \in Nat
      BY ServerAssumption DEF ServerInit
    <3> QED
      BY <3>1, <3>2 DEF ClientTypes
  <2> QED
    BY <2>2, <2>3, TypeParts
<1>2. /\ ServerTypeOK /\ Spooling /\ SessionInv /\ SessionInv' /\ [ServerNext]_vars
      => ServerTypeOK' /\ Spooling'
  BY TypeStep
<1> QED
  BY <1>1, <1>2, SessionInvariant, PTL DEF ServerSpec

\* The types of a connection hold for every client: what it announces and stores are ids
\* that its session drew, and a message is stored only outside DATA (handle_connection).
THEOREM ServerTypeCorrect == ServerSpec => []ServerTypeOK
  BY ServerTypes, PTL

-----------------------------------------------------------------------------
(* Replies. *)

\* What the calls of the session answer: only DATA starts a body, and its answer is the
\* only 354; no reply to a command announces an id or refuses a size.
LEMMA ProcessEffect ==
  ASSUME NEW line, Process(line)
  PROVE  /\ state # "ReceivingData"
         /\ state' = "ReceivingData" <=> reply'.code = 354
         /\ state' = "ReceivingData" => line = "DATA"
         /\ reply'.id = NoId /\ reply'.code # 552
<1> DEFINE Goal == /\ state # "ReceivingData"
                   /\ state' = "ReceivingData" <=> reply'.code = 354
                   /\ state' = "ReceivingData" => line = "DATA"
                   /\ reply'.id = NoId /\ reply'.code # 552
<1>1. ASSUME state # "ReceivingData", state' # "ReceivingData",
             NEW code \in {221, 250, 452, 500, 503}, reply' = Reply(code)
      PROVE  Goal
  BY <1>1 DEF Reply
<1>2. CASE line = "MAIL"
  <2>1. PICK a \in Addresses : HandleMailFrom(a, FALSE)
    BY <1>2 DEF Process
  <2>2. CASE BadSequence({"Ready"})
    BY <1>1, <2>2 DEF BadSequence, TakesCommands
  <2>3. CASE ~ BadSequence({"Ready"})
    BY <1>1, <2>1, <2>3 DEF HandleMailFrom
  <2> QED
    BY <2>2, <2>3
<1>3. CASE line = "RCPT"
  <2>1. PICK a \in Addresses : HandleRcptTo(a)
    BY <1>3 DEF Process
  <2>2. CASE BadSequence({"MailFrom", "RcptTo"})
    BY <1>1, <2>2 DEF BadSequence, TakesCommands
  <2>3. CASE ~ BadSequence({"MailFrom", "RcptTo"})
    BY <1>1, <2>1, <2>3 DEF HandleRcptTo
  <2> QED
    BY <2>2, <2>3
<1>4. CASE line = "DATA"
  <2>1. HandleData
    BY <1>4 DEF Process
  <2>2. CASE BadSequence({"RcptTo"})
    BY <1>1, <2>2 DEF BadSequence, TakesCommands
  <2>3. CASE ~ BadSequence({"RcptTo"})
    BY <1>4, <2>1, <2>3 DEF HandleData, Reply
  <2> QED
    BY <2>2, <2>3
<1>5. CASE line \notin {"MAIL", "RCPT", "DATA"}
  <2>1. HandleEhlo \/ HandleRset \/ HandleQuit \/ AnswerOnly(250) \/ AnswerOnly(500)
    BY <1>5 DEF Process
  <2>2. /\ state # "ReceivingData" /\ state' # "ReceivingData"
        /\ \E code \in {221, 250, 500} : reply' = Reply(code)
    BY <2>1 DEF HandleEhlo, HandleRset, HandleQuit, AnswerOnly, TakesCommands
  <2> QED
    BY <1>1, <2>2
<1> QED
  BY <1>2, <1>3, <1>4, <1>5

\* A line of a body is answered only when it is refused as too large.
LEMMA DataLineEffect ==
  ASSUME NEW line, DataLine(line)
  PROVE  /\ state = "ReceivingData"
         /\ state' = "ReceivingData" \/ (state' = "Ready" /\ reply' = Reply(552))
  BY DEF DataLine

\* A reply joins the end of what was sent and queued before it.
LEMMA JoinReply ==
  ASSUME NEW s \in Seq(Replies), NEW t \in Seq(Replies), NEW r \in Replies
  PROVE  /\ s \o Append(t, r) = Append(s \o t, r)
         /\ Last(s \o Append(t, r)) = r
<1>1. /\ <<r>> \in Seq(Replies) /\ s \o t \in Seq(Replies)
      /\ Append(t, r) = t \o <<r>> /\ Append(s \o t, r) = (s \o t) \o <<r>>
  BY AppendIsConcat, ConcatProperties
<1>2. s \o Append(t, r) = Append(s \o t, r)
  BY <1>1, ConcatAssociative
<1>3. Last(Append(s \o t, r)) = r
  BY <1>1, AppendProperties DEF Last
<1> QED
  BY <1>2, <1>3

\* What a call to the session does with its reply: it joins the queue, and the queue is
\* sent when a body comes next.
LEMMA ServeCommandEffect ==
  ASSUME ServerTypeOK, SessionInv', ServeCommand
  PROVE  /\ reply' \in Replies
         /\ issued' = Append(issued, reply')
         /\ \/ /\ received' = (received \o writeBuf) \o Append(pending, reply')
               /\ writeBuf' = <<>> /\ pending' = <<>>
            \/ /\ state' # "ReceivingData"
               /\ pending' = Append(pending, reply') /\ UNCHANGED <<writeBuf, received>>
  BY DEF ServeCommand, ShouldFlush, SessionInv, TypeOK, Replies

\* Nothing waits in the vector while lines of a body are taken or a message is stored.
Flushed == DataModeFlushed /\ (conn = "spooling" => pending = <<>>)

\* Every step keeps the vector empty there (handle_connection).
LEMMA FlushedStep ==
  ASSUME ServerTypeOK, SessionInv', Flushed, [ServerNext]_vars
  PROVE  Flushed'
<1>1. /\ received \in Seq(Replies) /\ writeBuf \in Seq(Replies) /\ pending \in Seq(Replies)
  BY DEF ServerTypeOK, Replies
<1>2. ASSUME UNCHANGED <<state, received, writeBuf, pending>>, conn' # "spooling" \/ conn' = conn
      PROVE  Flushed'
  BY <1>2 DEF Flushed, DataModeFlushed
<1>3. ASSUME state' # "ReceivingData", conn' # "spooling" PROVE Flushed'
  BY <1>3 DEF Flushed, DataModeFlushed
<1>4. CASE ServeCommand
  <2>1. conn' # "spooling"
    BY <1>4 DEF ServeCommand, TakeLine
  <2>2. CASE state' = "ReceivingData"
    <3>1. /\ received' = (received \o writeBuf) \o Append(pending, reply')
          /\ writeBuf' = <<>> /\ pending' = <<>> /\ reply' \in Replies
      BY <1>4, <2>2, ServeCommandEffect
    <3>2. received \o writeBuf \in Seq(Replies)
      BY <1>1, ReplySeqs, <3>1
    <3>3. Last(received') = reply'
      BY <1>1, <3>1, <3>2, JoinReply
    <3>4. reply'.code = 354
      BY <1>4, <2>2, ProcessEffect DEF ServeCommand
    <3> QED
      BY <2>1, <3>1, <3>3, <3>4 DEF Flushed, DataModeFlushed
  <2> QED
    BY <1>3, <2>1, <2>2
<1>5. CASE ServeDataLine
  <2>1. conn' # "spooling" /\ conn' = conn
    BY <1>5 DEF ServeDataLine, TakeLine
  <2>2. state = "ReceivingData"
    BY <1>5, DataLineEffect DEF ServeDataLine
  <2>3. CASE state' = "ReceivingData"
    BY <1>2, <1>5, <2>1, <2>2, <2>3 DEF ServeDataLine, replyVars
  <2> QED
    BY <1>3, <2>1, <2>3
<1>6. CASE ServeEndOfData
  <2>1. state = "ReceivingData" /\ state' = "Ready" /\ pending' = pending
    BY <1>6 DEF ServeEndOfData, EndOfData, replyVars, Write
  <2> QED
    BY <2>1 DEF Flushed, DataModeFlushed
<1>7. CASE StoreOk \/ StoreFails
  <2>1. state' # "ReceivingData" /\ conn' # "spooling"
    BY <1>7 DEF StoreOk, StoreFails, ServerTypeOK, sessionVars
  <2> QED
    BY <1>3, <2>1
<1>8. CASE Client \/ Fill \/ Eof \/ Abort
  BY <1>2, <1>8 DEF Client, Begin, Send, Close, CutOff, Fill, Eof, Abort, sessionVars, replyVars
<1>9. CASE UNCHANGED vars
  BY <1>2, <1>9 DEF vars, sessionVars, replyVars
<1> QED
  BY <1>4, <1>5, <1>6, <1>7, <1>8, <1>9 DEF ServerNext, Server

\* A connection with everything that is known of it so far.
ConnectionInv == ServerTypeOK /\ Spooling /\ SessionInv /\ Flushed

\* What is known of a connection, for ever.
LEMMA ConnectionInvariant == ServerSpec => []ConnectionInv
<1>1. ServerInit => Flushed
  BY DEF ServerInit, Init, Flushed, DataModeFlushed
<1>2. ServerTypeOK /\ SessionInv' /\ Flushed /\ [ServerNext]_vars => Flushed'
  BY FlushedStep
<1> QED
  BY <1>1, <1>2, ServerTypes, SessionInvariant, PTL DEF ServerSpec, ConnectionInv

\* For every client and every split of its lines, the server takes a line as one of a
\* body only after every reply up to the 354 is flushed (handle_connection).
THEOREM FlushCorrect == ServerSpec => []DataModeFlushed
<1>1. ConnectionInv => DataModeFlushed
  BY DEF ConnectionInv, Flushed
<1> QED
  BY <1>1, ConnectionInvariant, PTL

\* Every step keeps the order: a reply to a command goes behind those in the vector, and
\* one made in DATA mode overtakes none because the vector is empty there.
LEMMA RepliesStep ==
  ASSUME ConnectionInv, ConnectionInv', RepliesInOrder, [ServerNext]_vars
  PROVE  RepliesInOrder'
<1>1. /\ received \in Seq(Replies) /\ writeBuf \in Seq(Replies) /\ pending \in Seq(Replies)
      /\ issued \in Seq(Replies) /\ issued' \in Seq(Replies)
      /\ reply \in Replies /\ reply' \in Replies
  BY DEF ConnectionInv, ServerTypeOK, SessionInv, TypeOK, Replies
<1>2. received \o writeBuf \in Seq(Replies)
  BY <1>1, ReplySeqs
<1>3. ASSUME UNCHANGED replyVars PROVE RepliesInOrder'
  BY <1>3 DEF RepliesInOrder, replyVars
<1>4. ASSUME NEW r \in Replies, pending = <<>>, UNCHANGED <<pending, received>>,
             writeBuf' = Append(writeBuf, r), issued' = Append(issued, r)
      PROVE  RepliesInOrder'
  <2>1. issued = received \o writeBuf
    BY <1>2, <1>4, ConcatEmptySeq DEF RepliesInOrder
  <2>2. received' \o writeBuf' = issued'
    BY <1>1, <1>4, <2>1, JoinReply
  <2> QED
    BY <1>1, <1>4, <2>2, ConcatEmptySeq DEF RepliesInOrder
<1>5. CASE ServeCommand
  <2>1. /\ issued' = Append(issued, reply')
        /\ \/ /\ received' = (received \o writeBuf) \o Append(pending, reply')
              /\ writeBuf' = <<>> /\ pending' = <<>>
           \/ pending' = Append(pending, reply') /\ UNCHANGED <<writeBuf, received>>
    BY <1>5, ServeCommandEffect DEF ConnectionInv
  <2>2. (received \o writeBuf) \o Append(pending, reply') = issued'
    BY <1>1, <1>2, <2>1, JoinReply DEF RepliesInOrder
  <2>3. CASE pending' = Append(pending, reply') /\ UNCHANGED <<writeBuf, received>>
    BY <2>2, <2>3 DEF RepliesInOrder
  <2>4. CASE received' = issued' /\ writeBuf' = <<>> /\ pending' = <<>>
    BY <1>1, <2>4, ConcatEmptySeq DEF RepliesInOrder
  <2> QED
    BY <2>1, <2>2, <2>3, <2>4
<1>6. CASE ServeDataLine
  <2>1. pending = <<>>
    BY <1>6, DataLineEffect DEF ServeDataLine, ConnectionInv, Flushed, DataModeFlushed
  <2> QED
    BY <1>1, <1>3, <1>4, <1>6, <2>1 DEF ServeDataLine, Write
<1>7. CASE ServeEndOfData
  <2>1. pending = <<>>
    BY <1>7 DEF ServeEndOfData, EndOfData, ConnectionInv, Flushed, DataModeFlushed
  <2> QED
    BY <1>1, <1>3, <1>4, <1>7, <2>1 DEF ServeEndOfData, Write
<1>8. CASE StoreOk \/ StoreFails
  BY <1>1, <1>4, <1>8 DEF StoreOk, StoreFails, Write, ConnectionInv, Flushed
<1>9. CASE Client \/ Fill \/ Eof \/ Abort
  BY <1>3, <1>9 DEF Client, Begin, Send, Close, CutOff, Fill, Eof, Abort
<1>10. CASE UNCHANGED vars
  BY <1>3, <1>10 DEF vars
<1> QED
  BY <1>5, <1>6, <1>7, <1>8, <1>9, <1>10 DEF ServerNext, Server

\* For every client and every split of its lines, the replies reach the client in the
\* order of the lines they answer, none lost or doubled, although they wait in the
\* vector or in the BufWriter according to the mode in which they were made.
THEOREM RepliesCorrect == ServerSpec => []RepliesInOrder
<1>1. ServerInit => RepliesInOrder
  <2> SUFFICES ASSUME ServerInit PROVE RepliesInOrder
    OBVIOUS
  <2>1. <<reply>> \in Seq({reply}) /\ received = <<reply>> /\ issued = <<reply>>
        /\ writeBuf = <<>> /\ pending = <<>>
    BY DEF ServerInit
  <2> QED
    BY <2>1, ConcatEmptySeq DEF RepliesInOrder
<1>2. ConnectionInv /\ ConnectionInv' /\ RepliesInOrder /\ [ServerNext]_vars => RepliesInOrder'
  BY RepliesStep
<1> QED
  BY <1>1, <1>2, ConnectionInvariant, PTL DEF ServerSpec

\* Every id that a reply announces, sent or not, belongs to a message that is stored or
\* one that the server gave up.
IssuedAreSpooled ==
  \A i \in DOMAIN issued : issued[i].id # NoId => issued[i].id \in spool \cup unspooled

\* An id is issued with the end of its body, after the store or after it was given up.
LEMMA IssuedStep ==
  ASSUME ConnectionInv, IssuedAreSpooled, [ServerNext]_vars,
         ConnectionInv'
  PROVE  IssuedAreSpooled'
<1>1. issued \in Seq(Replies) /\ reply \in Replies /\ reply' \in Replies
  BY DEF ConnectionInv, ServerTypeOK, SessionInv, TypeOK, Replies
<1>2. ASSUME issued' = issued, spool \cup unspooled \subseteq spool' \cup unspooled'
      PROVE  IssuedAreSpooled'
  BY <1>2 DEF IssuedAreSpooled
<1>3. ASSUME NEW r \in Replies, issued' = Append(issued, r),
             spool \cup unspooled \subseteq spool' \cup unspooled',
             r.id # NoId => r.id \in spool' \cup unspooled'
      PROVE  IssuedAreSpooled'
  <2>1. /\ DOMAIN issued = 1 .. Len(issued) /\ Len(issued) \in Nat
        /\ DOMAIN issued' = 1 .. Len(issued) + 1
        /\ \A i \in 1 .. Len(issued) : issued'[i] = issued[i]
        /\ issued'[Len(issued) + 1] = r
    BY <1>1, <1>3, AppendProperties, LenProperties
  <2>2. \A i \in DOMAIN issued' : i \in DOMAIN issued \/ i = Len(issued) + 1
    BY <2>1
  <2>3. \A i \in DOMAIN issued : issued'[i] = issued[i]
    BY <2>1
  <2>4. issued'[Len(issued) + 1] = r
    BY <2>1
  <2> QED
    BY <1>3, <2>2, <2>3, <2>4, Zenon DEF IssuedAreSpooled
<1>4. CASE ServeCommand
  <2>1. reply'.id = NoId
    BY <1>4, ProcessEffect DEF ServeCommand
  <2> QED
    BY <1>1, <1>3, <1>4, <2>1 DEF ServeCommand
<1>5. CASE ServeDataLine
  <2>1. UNCHANGED <<spool, unspooled>>
    BY <1>5 DEF ServeDataLine
  <2>2. issued' = issued \/ (issued' = Append(issued, reply') /\ reply' = Reply(552))
    BY <1>5, DataLineEffect DEF ServeDataLine, Write, replyVars
  <2> QED
    BY <1>1, <1>2, <1>3, <2>1, <2>2 DEF Reply
<1>6. CASE ServeEndOfData
  <2>1. reply' = OkQueued(envelope.id)
    BY <1>6 DEF ServeEndOfData, EndOfData
  <2>2. \/ /\ issued' = Append(issued, reply') /\ spool' = spool
           /\ unspooled' = unspooled \cup {envelope.id}
        \/ issued' = issued /\ UNCHANGED <<spool, unspooled>>
    BY <1>6 DEF ServeEndOfData, Write, replyVars
  <2> QED
    BY <1>1, <1>2, <1>3, <2>1, <2>2 DEF OkQueued
<1>7. CASE StoreOk \/ StoreFails
  <2>1. reply = OkQueued(queued.envelope.id)
    BY <1>7 DEF StoreOk, StoreFails, ConnectionInv, Spooling
  <2>2. /\ issued' = Append(issued, reply)
        /\ spool' \cup unspooled' = spool \cup unspooled \cup {queued.envelope.id}
    BY <1>7 DEF StoreOk, StoreFails, Write
  <2> QED
    BY <1>1, <1>3, <2>1, <2>2 DEF OkQueued
<1>8. CASE Client \/ Fill \/ Eof \/ Abort
  BY <1>2, <1>8 DEF Client, Begin, Send, Close, CutOff, Fill, Eof, Abort, replyVars
<1>9. CASE UNCHANGED vars
  BY <1>2, <1>9 DEF vars, replyVars
<1> QED
  BY <1>4, <1>5, <1>6, <1>7, <1>8, <1>9 DEF ServerNext, Server

\* For every client, a message that the client was told is queued is in the spool, unless
\* its body was empty or the disk refused it (spool_message).
THEOREM AcknowledgedCorrect == ServerSpec => []AcknowledgedIsSpooled
<1>1. ServerInit => IssuedAreSpooled
  BY DEF ServerInit, Init, Reply, IssuedAreSpooled
<1>2. ConnectionInv /\ ConnectionInv' /\ IssuedAreSpooled /\ [ServerNext]_vars => IssuedAreSpooled'
  BY IssuedStep
<1>3. ConnectionInv /\ RepliesInOrder /\ IssuedAreSpooled => AcknowledgedIsSpooled
  <2> SUFFICES ASSUME ConnectionInv, RepliesInOrder, IssuedAreSpooled,
                      NEW i \in DOMAIN received, received[i].id # NoId
               PROVE  received[i].id \in spool \cup unspooled
    BY DEF AcknowledgedIsSpooled
  <2>1. received \in Seq(Replies) /\ writeBuf \in Seq(Replies) /\ pending \in Seq(Replies)
    BY DEF ConnectionInv, ServerTypeOK, Replies
  <2>2. i \in DOMAIN issued /\ issued[i] = received[i]
    <3>1. i \in 1 .. Len(received) /\ Len(received) \in Nat /\ Len(writeBuf) \in Nat /\ Len(pending) \in Nat
      BY <2>1, LenProperties
    <3>2. /\ received \o writeBuf \in Seq(Replies)
          /\ Len(received \o writeBuf) = Len(received) + Len(writeBuf)
          /\ (received \o writeBuf)[i] = received[i]
      BY <2>1, <3>1, ConcatProperties
    <3>3. i <= Len(received \o writeBuf) /\ i \in 1 .. Len(received \o writeBuf) + Len(pending)
      BY <3>1, <3>2
    <3>4. /\ issued \in Seq(Replies) /\ Len(issued) = Len(received \o writeBuf) + Len(pending)
          /\ issued[i] = (received \o writeBuf)[i]
      BY <2>1, <3>2, <3>3, ConcatProperties, Zenon DEF RepliesInOrder
    <3> QED
      BY <3>2, <3>3, <3>4, LenProperties
  <2> QED
    BY <2>2 DEF IssuedAreSpooled
<1> QED
  BY <1>1, <1>2, <1>3, ConnectionInvariant, RepliesCorrect, PTL DEF ServerSpec

-----------------------------------------------------------------------------
(* Commands and bodies. *)

Texts  == {Text, StuffedText}
Answering(line) == line \notin Texts

\* The lines under way, and where a body begins in them: behind a DATA, or at the first
\* line when the session receives data (place 0).
Stream == readBuf \o toServer
Opens(n) == IF n = 0 THEN state = "ReceivingData" ELSE Stream[n] = "DATA"

DotIn(m, n) == \E j \in m .. n : Stream[j] = Dot

\* A command comes behind the dot that ends the body before it.
CommandsBehindDots ==
  NoneTooLarge =>
    \A n \in 0 .. Len(Stream), k \in 1 .. Len(Stream) :
      n < k /\ Opens(n) /\ Stream[k] \in Commands => DotIn(n + 1, k - 1)

\* A client between commands has ended every body it began.
BodiesEnded ==
  NoneTooLarge /\ closing = "no" /\ mode = "command" =>
    \A n \in 0 .. Len(Stream) : Opens(n) => DotIn(n + 1, Len(Stream))

OpeningFirst == sent < Len(Opening) => mode = "command"

\* Clients that wait for the answer to DATA, until a body is too large.
Waits == patience # "none" /\ NoneTooLarge

\* Their body lines are of the body that the session receives.
BodiesWanted ==
  Waits =>
    \A k \in 1 .. Len(Stream) :
      Stream[k] \in Texts \cup {Dot} => state = "ReceivingData" /\ ~ DotIn(1, k - 1)

SendsWhatIsWanted ==
  Waits /\ closing = "no" /\ mode = "body" =>
    state = "ReceivingData" /\ ~ DotIn(1, Len(Stream))

AnswerToData ==
  Waits /\ closing = "no" /\ mode = "asked" =>
    \/ \E k \in 1 .. Len(Stream) : Stream[k] = "DATA"
    \/ /\ ~ DotIn(1, Len(Stream))
       /\ Last(issued).code = 354 => state = "ReceivingData"

\* The lines under way can be numbered by the replies that will have been made when
\* they are answered, up to the number that the client is due.
Numbers(f) ==
  /\ f[0] >= Len(issued) + (IF conn = "spooling" THEN 1 ELSE 0)
  /\ f[Len(Stream)] <= due
  /\ \A j, k \in 0 .. Len(Stream) :
       j < k => f[k] >= f[j] + (IF Answering(Stream[k]) THEN 1 ELSE 0)

Numbered ==
  Waits /\ closing = "no" => \E f \in [0 .. Len(Stream) -> Nat] : Numbers(f)

StreamInv ==
  /\ CommandsBehindDots
  /\ BodiesEnded
  /\ OpeningFirst
  /\ BodiesWanted
  /\ SendsWhatIsWanted
  /\ AnswerToData
  /\ Numbered

\* The stream is a sequence of lines; its head is the next line the server takes.
LEMMA StreamType ==
  ASSUME ServerTypeOK
  PROVE  /\ Stream \in Seq(Line) /\ Len(Stream) \in Nat
         /\ readBuf # <<>> => Stream # <<>> /\ Stream[1] = Head(readBuf) /\ Len(Stream) >= 1
<1>1. readBuf \in Seq(Line) /\ toServer \in Seq(Line)
  BY DEF ServerTypeOK, Line
<1>2. /\ Stream \in Seq(Line) /\ Len(Stream) = Len(readBuf) + Len(toServer)
      /\ \A k \in 1 .. Len(readBuf) + Len(toServer) :
           Stream[k] = IF k <= Len(readBuf) THEN readBuf[k] ELSE toServer[k - Len(readBuf)]
  BY <1>1, ConcatProperties DEF Stream
<1>3. Len(readBuf) \in Nat /\ Len(toServer) \in Nat /\ (readBuf # <<>> => Len(readBuf) >= 1)
  BY <1>1, EmptySeq, LenProperties
<1>4. ASSUME readBuf # <<>> PROVE Stream[1] = Head(readBuf) /\ Len(Stream) >= 1
  <2>1. Stream[1] = readBuf[1]
    BY <1>2, <1>3, <1>4
  <2> QED
    BY <1>1, <1>2, <1>3, <1>4, <2>1
<1> QED
  BY <1>2, <1>3, <1>4, EmptySeq

\* When a line is taken, the others move up by one place.
LEMMA StreamTaken ==
  ASSUME ServerTypeOK, TakeLine
  PROVE  /\ Len(Stream') = Len(Stream) - 1
         /\ \A k \in 1 .. Len(Stream) - 1 : Stream'[k] = Stream[k + 1]
<1>1. readBuf \in Seq(Line) /\ toServer \in Seq(Line) /\ readBuf # <<>>
  BY DEF ServerTypeOK, Line, TakeLine
<1>2. /\ Tail(readBuf) \in Seq(Line) /\ Len(Tail(readBuf)) = Len(readBuf) - 1
      /\ \A k \in 1 .. Len(readBuf) - 1 : Tail(readBuf)[k] = readBuf[k + 1]
  BY <1>1, HeadTailProperties
<1>3. Stream' = Tail(readBuf) \o toServer
  BY DEF Stream, TakeLine
<1>4. Len(readBuf) \in Nat /\ Len(toServer) \in Nat
  BY <1>1, LenProperties
<1>5. /\ Len(Stream) = Len(readBuf) + Len(toServer)
      /\ \A k \in 1 .. Len(readBuf) + Len(toServer) :
           Stream[k] = IF k <= Len(readBuf) THEN readBuf[k] ELSE toServer[k - Len(readBuf)]
  BY <1>1, ConcatProperties DEF Stream
<1>6. /\ Len(Stream') = Len(readBuf) - 1 + Len(toServer)
      /\ \A k \in 1 .. Len(readBuf) - 1 + Len(toServer) :
           Stream'[k] = IF k <= Len(readBuf) - 1 THEN Tail(readBuf)[k]
                        ELSE toServer[k - (Len(readBuf) - 1)]
  BY <1>1, <1>2, <1>3, ConcatProperties
<1>7. ASSUME NEW k \in 1 .. Len(Stream) - 1 PROVE Stream'[k] = Stream[k + 1]
  <2>1. CASE k <= Len(readBuf) - 1
    BY <1>2, <1>4, <1>5, <1>6, <2>1
  <2>2. CASE ~ (k <= Len(readBuf) - 1)
    <3>1. k - (Len(readBuf) - 1) = (k + 1) - Len(readBuf)
      BY <1>4
    <3> QED
      BY <1>4, <1>5, <1>6, <2>2, <3>1
  <2> QED
    BY <2>1, <2>2
<1> QED
  BY <1>4, <1>5, <1>6, <1>7

\* What is sent goes to the end.
LEMMA StreamSent ==
  ASSUME ServerTypeOK, NEW line \in Line, toServer' = Append(toServer, line), readBuf' = readBuf
  PROVE  /\ Len(Stream') = Len(Stream) + 1 /\ Stream'[Len(Stream) + 1] = line
         /\ \A k \in 1 .. Len(Stream) : Stream'[k] = Stream[k]
<1>1. readBuf \in Seq(Line) /\ toServer \in Seq(Line) /\ <<line>> \in Seq(Line)
  BY DEF ServerTypeOK, Line
<1>2. Append(toServer, line) = toServer \o <<line>>
  BY <1>1, AppendIsConcat
<1>3. readBuf \o (toServer \o <<line>>) = (readBuf \o toServer) \o <<line>>
  BY <1>1, ConcatAssociative
<1>4. readBuf \o toServer \in Seq(Line)
  BY <1>1, ConcatProperties
<1>5. Stream \in Seq(Line) /\ Stream' = Append(Stream, line)
  BY <1>2, <1>3, <1>4, AppendIsConcat DEF Stream
<1> QED
  BY <1>5, AppendProperties

\* A 552 is never taken back.
LEMMA NoneTooLargeBefore ==
  ASSUME ServerTypeOK, NEW r \in Replies,
         issued' = issued \/ issued' = Append(issued, r)
  PROVE  /\ NoneTooLarge' => NoneTooLarge
         /\ issued' = Append(issued, r) =>
              /\ Len(issued') = Len(issued) + 1 /\ Last(issued') = r
              /\ r.code = 552 => ~ NoneTooLarge'
<1>1. issued \in Seq(Replies)
  BY DEF ServerTypeOK, Replies
<1>2. CASE issued' = issued
  <2>1. Len(Append(issued, r)) # Len(issued)
    BY <1>1, AppendProperties, LenProperties
  <2> QED
    BY <1>2, <2>1 DEF NoneTooLarge
<1>3. CASE issued' = Append(issued, r)
  <2>1. /\ DOMAIN issued = 1 .. Len(issued) /\ Len(issued) \in Nat
        /\ DOMAIN issued' = 1 .. Len(issued) + 1 /\ Len(issued') = Len(issued) + 1
        /\ \A i \in 1 .. Len(issued) : issued'[i] = issued[i]
        /\ issued'[Len(issued) + 1] = r
    BY <1>1, <1>3, AppendProperties, LenProperties
  <2>2. \A i \in DOMAIN issued : i \in DOMAIN issued' /\ issued'[i] = issued[i]
    BY <2>1
  <2>3. Len(issued) + 1 \in DOMAIN issued' /\ Last(issued') = r
    BY <2>1 DEF Last
  <2> QED
    BY <2>1, <2>2, <2>3 DEF NoneTooLarge
<1> QED
  BY <1>2, <1>3

\* A client that has every answer it is due has no command under way, and knows the last
\* reply that the server made.
LEMMA AnsweredKnowsAll ==
  ASSUME ConnectionInv, RepliesInOrder, Numbered, Waits, closing = "no", Answered
  PROVE  /\ \A k \in 1 .. Len(Stream) : ~ Answering(Stream[k])
         /\ received = issued
<1>1. PICK f \in [0 .. Len(Stream) -> Nat] : Numbers(f)
  BY DEF Numbered
<1>2. /\ received \in Seq(Replies) /\ writeBuf \in Seq(Replies) /\ pending \in Seq(Replies)
      /\ due \in Nat /\ ServerTypeOK
  BY DEF ConnectionInv, ServerTypeOK, Replies
<1>3. Len(Stream) \in Nat
  BY <1>2, StreamType
<1>4. /\ received \o writeBuf \in Seq(Replies)
      /\ Len(received \o writeBuf) = Len(received) + Len(writeBuf)
      /\ Len((received \o writeBuf) \o pending) = Len(received \o writeBuf) + Len(pending)
  BY <1>2, ConcatProperties
<1>5. /\ Len(issued) = Len(received) + Len(writeBuf) + Len(pending)
      /\ Len(received) \in Nat /\ Len(writeBuf) \in Nat /\ Len(pending) \in Nat
  BY <1>2, <1>4, LenProperties DEF RepliesInOrder
<1>6. /\ f[0] \in Nat /\ f[0] >= Len(issued) /\ f[Len(Stream)] <= due
      /\ \A j, k \in 0 .. Len(Stream) :
           j < k => f[k] >= f[j] + (IF Answering(Stream[k]) THEN 1 ELSE 0)
      /\ \A k \in 0 .. Len(Stream) : f[k] \in Nat
  <2>1. 0 \in 0 .. Len(Stream)
    BY <1>3
  <2>2. Len(issued) \in Nat
    BY <1>5
  <2> QED
    BY <1>1, <2>1, <2>2 DEF Numbers
<1>7. due <= Len(received)
  BY DEF Answered
<1>8. \A k \in 0 .. Len(Stream) : f[k] <= f[Len(Stream)] /\ f[0] <= f[k]
  BY <1>3, <1>6
<1>9. ASSUME NEW k \in 1 .. Len(Stream), Answering(Stream[k]) PROVE FALSE
  <2>1. f[k] >= f[0] + 1
    BY <1>3, <1>6, <1>9
  <2>2. f[k] <= f[Len(Stream)] /\ f[k] \in Nat /\ f[Len(Stream)] \in Nat
    BY <1>3, <1>6, <1>8
  <2> QED
    BY <1>2, <1>5, <1>6, <1>7, <2>1, <2>2
<1>10. received = issued
  <2>1. Len(Stream) \in 0 .. Len(Stream) /\ f[Len(Stream)] \in Nat /\ f[0] <= f[Len(Stream)]
    BY <1>3, <1>6, <1>8
  <2>2. Len(writeBuf) = 0 /\ Len(pending) = 0
    BY <1>2, <1>5, <1>6, <1>7, <2>1
  <2>3. writeBuf = <<>> /\ pending = <<>>
    BY <1>2, <2>2, EmptySeq
  <2> QED
    BY <1>2, <2>3, ConcatEmptySeq DEF RepliesInOrder
<1> QED
  BY <1>9, <1>10

\* A client that may send a line of a body is asked for it, when it waits for answers.
LEMMA WantsBody ==
  ASSUME ConnectionInv, RepliesInOrder, StreamInv, Waits, MaySend, ModeNow = "body"
  PROVE  state = "ReceivingData" /\ ~ DotIn(1, Len(Stream))
<1>1. closing = "no"
  BY DEF MaySend
<1>2. CASE mode = "body"
  BY <1>1, <1>2 DEF StreamInv, SendsWhatIsWanted
<1>3. CASE mode = "asked"
  <2>1. Answered /\ Last(received).code = 354
    BY <1>3 DEF ModeNow, Waits
  <2>2. (\A k \in 1 .. Len(Stream) : ~ Answering(Stream[k])) /\ received = issued
    BY <1>1, <2>1, AnsweredKnowsAll DEF StreamInv
  <2>3. \A k \in 1 .. Len(Stream) : Stream[k] # "DATA"
    BY <2>2 DEF Answering, Texts, Text, StuffedText
  <2> QED
    BY <1>1, <1>3, <2>1, <2>2, <2>3 DEF StreamInv, AnswerToData
<1>4. mode \in {"command", "asked", "body"}
  BY DEF ConnectionInv, ServerTypeOK
<1>5. mode # "command"
  <2>1. mode # "asked" => ModeNow = mode
    BY Zenon DEF ModeNow
  <2> QED
    BY <2>1
<1> QED
  BY <1>2, <1>3, <1>4, <1>5

\* A client that may send a command has ended every body under way.
LEMMA WantsCommand ==
  ASSUME ConnectionInv, RepliesInOrder, StreamInv, NoneTooLarge, MaySend,
         NEW line \in Offer, line \in Commands
  PROVE  \A n \in 0 .. Len(Stream) : Opens(n) => DotIn(n + 1, Len(Stream))
<1>1. closing = "no" /\ ModeNow # "asked"
  BY DEF MaySend
<1>2. CASE mode = "command"
  BY <1>1, <1>2 DEF StreamInv, BodiesEnded
<1>3. CASE mode # "command"
  <2>1. ~ (sent < Len(Opening))
    BY <1>3 DEF StreamInv, OpeningFirst
  <2>2. ModeNow # "body"
    BY <2>1 DEF Offer, Commands, Dot, Text, StuffedText
  <2>3. mode = "asked" /\ patience # "none" /\ Answered /\ Last(received).code # 354
    <3>1. mode \in {"command", "asked", "body"}
      BY DEF ConnectionInv, ServerTypeOK
    <3> QED
      BY <1>1, <1>3, <2>2, <3>1 DEF ModeNow
  <2>4. \A k \in 1 .. Len(Stream) : ~ Answering(Stream[k])
    BY <1>1, <2>3, AnsweredKnowsAll DEF StreamInv, Waits
  <2>5. \A k \in 1 .. Len(Stream) : Stream[k] # "DATA"
    BY <2>4 DEF Answering, Texts, Text, StuffedText
  <2>6. state # "ReceivingData"
    BY <2>3 DEF ConnectionInv, Flushed, DataModeFlushed
  <2>7. Len(Stream) \in Nat
    BY StreamType DEF ConnectionInv
  <2> QED
    BY <2>5, <2>6, <2>7 DEF Opens
<1> QED
  BY <1>2, <1>3

\* A step that moves no line, makes no reply and leaves the client alone.
LEMMA StreamSame ==
  ASSUME StreamInv, Stream' = Stream,
         UNCHANGED <<state, issued, closing, mode, patience, due, sent>>,
         conn' # "spooling" \/ conn' = conn, ServerTypeOK
  PROVE  StreamInv'
<1>1. /\ \A m, n : DotIn(m, n)' <=> DotIn(m, n)
      /\ \A n : Opens(n)' <=> Opens(n)
      /\ NoneTooLarge' <=> NoneTooLarge
      /\ Waits' <=> Waits
  BY DEF DotIn, Opens, NoneTooLarge, Waits
<1>2. CommandsBehindDots'
  BY <1>1 DEF StreamInv, CommandsBehindDots
<1>3. BodiesEnded'
  BY <1>1 DEF StreamInv, BodiesEnded
<1>4. OpeningFirst'
  BY DEF StreamInv, OpeningFirst
<1>5. BodiesWanted'
  BY <1>1 DEF StreamInv, BodiesWanted
<1>6. SendsWhatIsWanted'
  BY <1>1 DEF StreamInv, SendsWhatIsWanted
<1>7. AnswerToData'
  BY <1>1 DEF StreamInv, AnswerToData
<1>8. Numbered'
  <2> SUFFICES ASSUME (Waits /\ closing = "no")' PROVE (\E f \in [0 .. Len(Stream) -> Nat] : Numbers(f))'
    BY DEF Numbered
  <2>1. PICK f \in [0 .. Len(Stream) -> Nat] : Numbers(f)
    BY <1>1 DEF StreamInv, Numbered
  <2>2. issued \in Seq(Replies)
    BY DEF ServerTypeOK, Replies
  <2>3. Len(issued) \in Nat /\ Len(Stream) \in Nat
    BY <2>2, LenProperties, StreamType
  <2>4. f[0] \in Nat
    BY <2>3
  <2>5. Numbers(f)'
    BY <2>1, <2>3, <2>4 DEF Numbers
  <2> QED
    BY <2>5
<1> QED
  BY <1>2, <1>3, <1>4, <1>5, <1>6, <1>7, <1>8 DEF StreamInv

\* The reply to a message that was stored.
LEMMA StreamStored ==
  ASSUME ConnectionInv, StreamInv, StoreOk \/ StoreFails
  PROVE  StreamInv'
<1>1. /\ Stream' = Stream
      /\ UNCHANGED <<state, closing, mode, patience, due, sent>>
      /\ issued' = Append(issued, reply) /\ conn = "spooling" /\ conn' = "open"
  BY DEF StoreOk, StoreFails, Stream, sessionVars, inputVars, clientVars, Write
<1>2. reply \in Replies /\ reply.code = 250 /\ ServerTypeOK
  BY <1>1 DEF ConnectionInv, SessionInv, TypeOK, Replies, Spooling, OkQueued
<1>3. /\ NoneTooLarge' => NoneTooLarge
      /\ Len(issued') = Len(issued) + 1 /\ Last(issued').code = 250
  BY <1>1, <1>2, NoneTooLargeBefore
<1>4. /\ \A m, n : DotIn(m, n)' <=> DotIn(m, n)
      /\ \A n : Opens(n)' <=> Opens(n)
      /\ Waits' => Waits
  BY <1>1, <1>3 DEF DotIn, Opens, Waits
<1>5. CommandsBehindDots'
  BY <1>1, <1>3, <1>4 DEF StreamInv, CommandsBehindDots
<1>6. BodiesEnded'
  BY <1>1, <1>3, <1>4 DEF StreamInv, BodiesEnded
<1>7. OpeningFirst'
  BY <1>1 DEF StreamInv, OpeningFirst
<1>8. BodiesWanted'
  BY <1>1, <1>4 DEF StreamInv, BodiesWanted
<1>9. SendsWhatIsWanted'
  BY <1>1, <1>4 DEF StreamInv, SendsWhatIsWanted
<1>10. AnswerToData'
  <2> SUFFICES ASSUME Waits', closing' = "no", mode' = "asked"
               PROVE  \/ \E k \in 1 .. Len(Stream) : Stream[k] = "DATA"
                      \/ ~ DotIn(1, Len(Stream))
    BY <1>1, <1>3, <1>4 DEF AnswerToData
  <2> QED
    BY <1>1, <1>4 DEF StreamInv, AnswerToData
<1>11. Numbered'
  <2> SUFFICES ASSUME (Waits /\ closing = "no")' PROVE (\E f \in [0 .. Len(Stream) -> Nat] : Numbers(f))'
    BY DEF Numbered
  <2>1. PICK f \in [0 .. Len(Stream) -> Nat] : Numbers(f)
    BY <1>1, <1>4 DEF StreamInv, Numbered
  <2>2. issued \in Seq(Replies)
    BY <1>2 DEF ServerTypeOK, Replies
  <2>3. Len(issued) \in Nat /\ Len(Stream) \in Nat
    BY <1>2, <2>2, LenProperties, StreamType
  <2>4. f[0] \in Nat
    BY <2>3
  <2>5. Numbers(f)'
    BY <1>1, <1>3, <2>1, <2>3, <2>4 DEF Numbers
  <2> QED
    BY <1>1, <2>5
<1> QED
  BY <1>5, <1>6, <1>7, <1>8, <1>9, <1>10, <1>11 DEF StreamInv

\* What the client sends is a command when it may send one, and a line of a body when it is
\* asked for one.
LEMMA StreamSend ==
  ASSUME ConnectionInv, RepliesInOrder, StreamInv, NEW line \in Wire, Send(line)
  PROVE  StreamInv'
<1>1. /\ MaySend /\ line \in Offer /\ closing = "no"
      /\ sent' = sent + 1 /\ due' = (IF line \in Texts THEN due ELSE due + 1)
      /\ UNCHANGED <<state, issued, conn, patience, closing>>
  BY DEF Send, MaySend, sessionVars, replyVars, Texts
<1>2. mode' = IF line = "DATA" THEN "asked" ELSE IF line = Dot THEN "command" ELSE ModeNow
  BY Zenon DEF Send, Dot
<1>3. /\ Len(Stream') = Len(Stream) + 1 /\ Stream'[Len(Stream) + 1] = line
      /\ \A k \in 1 .. Len(Stream) : Stream'[k] = Stream[k]
      /\ Len(Stream) \in Nat
  <2>1. ServerTypeOK /\ line \in Line
    BY DEF ConnectionInv, Line
  <2>2. toServer' = Append(toServer, line) /\ readBuf' = readBuf
    BY DEF Send
  <2> QED
    BY <2>1, <2>2, StreamSent, StreamType
<1>4. /\ \A m \in Nat : \A n \in 0 .. Len(Stream) : m >= 1 => (DotIn(m, n)' <=> DotIn(m, n))
      /\ \A n \in 0 .. Len(Stream) : Opens(n)' <=> Opens(n)
      /\ NoneTooLarge' <=> NoneTooLarge
      /\ Waits' <=> Waits
  BY <1>1, <1>3 DEF DotIn, Opens, NoneTooLarge, Waits
<1>5. ASSUME line \in Commands, NoneTooLarge
      PROVE  \A n \in 0 .. Len(Stream) : Opens(n) => DotIn(n + 1, Len(Stream))
  BY <1>1, <1>5, WantsCommand
<1>6. ASSUME Waits, ModeNow = "body"
      PROVE  state = "ReceivingData" /\ ~ DotIn(1, Len(Stream))
  BY <1>1, <1>6, WantsBody
<1>7. /\ sent < Len(Opening) => line \in Commands /\ ModeNow = "command"
      /\ sent < Len(Opening) => line = Opening[sent + 1]
      /\ line \notin Commands => ModeNow = "body"
      /\ ModeNow = "command" => line \in Commands
      /\ sent \in Nat /\ Len(Opening) \in Nat
  <2>1. sent \in Nat /\ Opening \in Seq(Commands)
    BY ServerAssumption DEF ConnectionInv, ServerTypeOK, Commands
  <2>2. Len(Opening) \in Nat
    BY <2>1, LenProperties
  <2>3. CASE sent < Len(Opening)
    <3>1. line = Opening[sent + 1] /\ sent + 1 \in 1 .. Len(Opening)
      BY <1>1, <2>1, <2>2, <2>3 DEF Offer
    <3>2. line \in Commands
      BY <2>1, <3>1, ElementOfSeq
    <3>3. mode = "command"
      BY <2>3 DEF StreamInv, OpeningFirst
    <3>4. ModeNow = "command"
      BY <3>3 DEF ModeNow
    <3> QED
      BY <2>1, <2>2, <3>1, <3>2, <3>4
  <2>4. CASE ~ (sent < Len(Opening))
    <3>1. line \in IF ModeNow = "body" THEN {Dot, Text, StuffedText} ELSE Commands
      BY <1>1, <2>4 DEF Offer
    <3> QED
      BY <2>1, <2>2, <2>4, <3>1
  <2> QED
    BY <2>3, <2>4
<1>8. CommandsBehindDots'
  <2> SUFFICES ASSUME NoneTooLarge', NEW n \in 0 .. Len(Stream'), NEW k \in 1 .. Len(Stream'),
                      n < k, Opens(n)', Stream'[k] \in Commands
               PROVE  DotIn(n + 1, k - 1)'
    BY DEF CommandsBehindDots
  <2>1. n \in 0 .. Len(Stream) /\ Opens(n) /\ n + 1 \in Nat /\ n + 1 >= 1 /\ k - 1 \in 0 .. Len(Stream)
    BY <1>3, <1>4
  <2>2. CASE k = Len(Stream) + 1
    <3>1. DotIn(n + 1, Len(Stream))
      BY <1>3, <1>4, <1>5, <2>1, <2>2
    <3>2. k - 1 = Len(Stream)
      BY <1>3, <2>2
    <3> QED
      BY <1>4, <2>1, <3>1, <3>2
  <2>3. CASE k \in 1 .. Len(Stream)
    <3>1. DotIn(n + 1, k - 1)
      BY <1>3, <1>4, <2>1, <2>3 DEF StreamInv, CommandsBehindDots
    <3> QED
      BY <1>4, <2>1, <3>1
  <2> QED
    BY <1>3, <2>2, <2>3
<1>9. BodiesEnded'
  <2> SUFFICES ASSUME NoneTooLarge', mode' = "command",
                      NEW n \in 0 .. Len(Stream'), Opens(n)'
               PROVE  \E j \in n + 1 .. Len(Stream') : Stream'[j] = Dot
    BY DEF BodiesEnded, DotIn
  <2>1. line # "DATA"
    BY <1>2
  <2>2. n \in 0 .. Len(Stream) /\ Opens(n)
    BY <1>3, <1>4, <2>1 DEF Opens
  <2>3. CASE line = Dot
    BY <1>3, <2>2, <2>3 DEF DotIn
  <2>4. CASE line # Dot
    <3>1. ModeNow = "command"
      BY <1>2, <2>1, <2>4
    <3>2. DotIn(n + 1, Len(Stream))
      BY <1>4, <1>5, <1>7, <2>2, <3>1
    <3> QED
      BY <1>3, <2>2, <3>2 DEF DotIn
  <2> QED
    BY <2>3, <2>4
<1>10. OpeningFirst'
  <2> SUFFICES ASSUME sent' < Len(Opening) PROVE mode' = "command"
    BY DEF OpeningFirst
  <2>1. sent < Len(Opening) /\ sent + 1 < Len(Opening) /\ sent + 1 \in 1 .. Len(Opening)
    BY <1>1, <1>7
  <2>2. line # "DATA"
    <3>1. Opening \in Seq(Commands)
      BY ServerAssumption DEF Commands
    <3>2. sent + 1 \in DOMAIN Opening
      BY <2>1, <3>1, LenProperties
    <3> QED
      BY <1>7, <2>1, <3>2, ServerAssumption
  <2> QED
    BY <1>2, <1>7, <2>1, <2>2
<1>11. BodiesWanted'
  <2> SUFFICES ASSUME Waits', NEW k \in 1 .. Len(Stream'), Stream'[k] \in Texts \cup {Dot}
               PROVE  state = "ReceivingData" /\ ~ DotIn(1, k - 1)'
    BY <1>1 DEF BodiesWanted
  <2>1. k - 1 \in 0 .. Len(Stream)
    BY <1>3
  <2>2. CASE k = Len(Stream) + 1
    <3>1. line \notin Commands
      BY <1>3, <2>2 DEF Commands, Texts, Text, StuffedText, Dot
    <3>2. state = "ReceivingData" /\ ~ DotIn(1, Len(Stream))
      BY <1>4, <1>6, <1>7, <3>1
    <3>3. k - 1 = Len(Stream)
      BY <1>3, <2>2
    <3> QED
      BY <1>4, <2>1, <3>2, <3>3
  <2>3. CASE k \in 1 .. Len(Stream)
    <3>1. state = "ReceivingData" /\ ~ DotIn(1, k - 1)
      BY <1>3, <1>4, <2>3 DEF StreamInv, BodiesWanted
    <3> QED
      BY <1>4, <2>1, <3>1
  <2> QED
    BY <1>3, <2>2, <2>3
<1>12. SendsWhatIsWanted'
  <2> SUFFICES ASSUME Waits', mode' = "body"
               PROVE  /\ state = "ReceivingData"
                      /\ \A j \in 1 .. Len(Stream') : Stream'[j] # Dot
    BY <1>1 DEF SendsWhatIsWanted, DotIn
  <2>1. line # Dot /\ ModeNow = "body"
    BY <1>2
  <2>2. state = "ReceivingData" /\ ~ DotIn(1, Len(Stream))
    BY <1>4, <1>6, <2>1
  <2>3. \A j \in 1 .. Len(Stream) : Stream[j] # Dot
    BY <2>2 DEF DotIn
  <2> QED
    BY <1>3, <2>1, <2>2, <2>3
<1>13. AnswerToData'
  <2> SUFFICES ASSUME mode' = "asked" PROVE \E k \in 1 .. Len(Stream') : Stream'[k] = "DATA"
    BY DEF AnswerToData
  <2>1. line = "DATA"
    BY <1>1, <1>2 DEF MaySend
  <2>2. Len(Stream) + 1 \in 1 .. Len(Stream')
    BY <1>3
  <2> QED
    BY <1>3, <2>1, <2>2
<1>14. Numbered'
  <2> SUFFICES ASSUME Waits' PROVE (\E f \in [0 .. Len(Stream) -> Nat] : Numbers(f))'
    BY DEF Numbered
  <2>1. PICK f \in [0 .. Len(Stream) -> Nat] : Numbers(f)
    BY <1>1, <1>4 DEF StreamInv, Numbered
  <2>2. due \in Nat /\ issued \in Seq(Replies)
    BY DEF ConnectionInv, ServerTypeOK, Replies
  <2>3. Len(issued) \in Nat
    BY <2>2, LenProperties
  <2>4. PICK len \in Nat, d \in Nat, first \in Nat :
          /\ len = Len(Stream) /\ d = due' /\ due \in Nat /\ due <= d
          /\ first = Len(issued) + (IF conn = "spooling" THEN 1 ELSE 0)
    BY <1>1, <1>3, <2>2, <2>3
  <2>5. /\ f \in [0 .. len -> Nat] /\ f[0] >= first /\ f[len] <= due
        /\ \A j, k \in 0 .. len : j < k => f[k] >= f[j] + (IF Answering(Stream[k]) THEN 1 ELSE 0)
    BY <2>1, <2>4 DEF Numbers
  <2> DEFINE g == [k \in 0 .. len + 1 |-> IF k <= len THEN f[k] ELSE d]
  <2>6. g \in [0 .. len + 1 -> Nat]
    BY <2>4, <2>5
  <2>7. /\ \A k \in 0 .. len : g[k] = f[k] /\ f[k] \in Nat
        /\ g[len + 1] = d
    BY <2>5
  <2>8. \A k \in 0 .. len : f[k] <= due
    BY <2>4, <2>5
  <2>9. d >= due + (IF Answering(line) THEN 1 ELSE 0)
    BY <1>1, <2>2, <2>4 DEF Answering
  <2> HIDE DEF g
  <2>10. ASSUME NEW j \in 0 .. len + 1, NEW k \in 0 .. len + 1, j < k
         PROVE  g[k] >= g[j] + (IF Answering(Stream'[k]) THEN 1 ELSE 0)
    <3>1. CASE k = len + 1
      <4>1. j \in 0 .. len /\ g[j] = f[j] /\ f[j] <= due /\ f[j] \in Nat /\ g[k] = d
        BY <2>7, <2>8, <2>10, <3>1
      <4>2. Stream'[k] = line
        BY <1>3, <2>4, <3>1
      <4> QED
        BY <2>4, <2>9, <4>1, <4>2
    <3>2. CASE k # len + 1
      <4>1. j \in 0 .. len /\ k \in 0 .. len /\ k \in 1 .. len
        BY <2>10, <3>2
      <4>2. Stream'[k] = Stream[k]
        BY <1>3, <2>4, <4>1
      <4> QED
        BY <2>5, <2>7, <2>10, <4>1, <4>2
    <3> QED
      BY <3>1, <3>2
  <2>11. /\ g[0] >= Len(issued') + (IF conn' = "spooling" THEN 1 ELSE 0)
         /\ g[Len(Stream')] <= due'
    BY <1>1, <1>3, <2>4, <2>5, <2>7
  <2>12. Len(Stream') = len + 1
    BY <1>3, <2>4
  <2>13. Numbers(g)' /\ g \in [0 .. Len(Stream') -> Nat]
    BY <2>6, <2>10, <2>11, <2>12 DEF Numbers
  <2> QED
    BY <2>13
<1> QED
  BY <1>8, <1>9, <1>10, <1>11, <1>12, <1>13, <1>14 DEF StreamInv

\* Dots move up with the lines.
LEMMA DotsTaken ==
  ASSUME ServerTypeOK, TakeLine, NEW m \in Nat, m >= 1, NEW n \in Nat, n <= Len(Stream) - 1
  PROVE  DotIn(m, n)' <=> DotIn(m + 1, n + 1)
<1>1. /\ Len(Stream') = Len(Stream) - 1 /\ Len(Stream) \in Nat
      /\ \A k \in 1 .. Len(Stream) - 1 : Stream'[k] = Stream[k + 1]
  BY StreamTaken, StreamType
<1>2. ASSUME NEW j \in m .. n PROVE j + 1 \in m + 1 .. n + 1 /\ Stream'[j] = Stream[j + 1]
  <2>1. j \in 1 .. Len(Stream) - 1
    BY <1>1
  <2> QED
    BY <1>1, <2>1
<1>3. ASSUME NEW j \in m + 1 .. n + 1 PROVE j - 1 \in m .. n /\ Stream'[j - 1] = Stream[j]
  <2>1. j - 1 \in 1 .. Len(Stream) - 1 /\ (j - 1) + 1 = j
    BY <1>1
  <2> QED
    BY <1>1, <2>1
<1> QED
  BY <1>2, <1>3 DEF DotIn

\* Taking a line leaves commands behind the dots of their bodies, as long as the session
\* begins a body at DATA and ends it at a dot.
LEMMA BodiesTaken ==
  ASSUME ServerTypeOK, StreamInv, TakeLine, NoneTooLarge' => NoneTooLarge,
         state' = "ReceivingData" =>
           \/ Stream[1] = "DATA"
           \/ state = "ReceivingData" /\ Stream[1] # Dot
  PROVE  CommandsBehindDots' /\ BodiesEnded' /\ OpeningFirst'
<1>1. /\ Len(Stream') = Len(Stream) - 1 /\ Len(Stream) \in Nat /\ Len(Stream) >= 1
      /\ \A k \in 1 .. Len(Stream) - 1 : Stream'[k] = Stream[k + 1]
      /\ UNCHANGED <<patience, sent, due, mode, closing>>
  BY StreamTaken, StreamType DEF TakeLine, clientVars
<1>2. ASSUME NEW n \in 0 .. Len(Stream'), Opens(n)'
      PROVE  \/ Opens(n + 1)
             \/ n = 0 /\ Opens(0) /\ Stream[1] # Dot
  <2>1. CASE n = 0
    BY <1>2, <2>1 DEF Opens
  <2>2. CASE n # 0
    BY <1>1, <1>2, <2>2 DEF Opens
  <2> QED
    BY <2>1, <2>2
<1>3. ASSUME NEW n \in 0 .. Len(Stream'), NEW m \in n .. Len(Stream'),
             DotIn(n + 2, m + 1) \/ (n = 0 /\ Stream[1] # Dot /\ DotIn(1, m + 1))
      PROVE  DotIn(n + 1, m)'
  <2>1. DotIn(n + 2, m + 1)
    BY <1>3 DEF DotIn
  <2>2. n + 1 \in Nat /\ n + 1 >= 1 /\ m \in Nat /\ m <= Len(Stream) - 1 /\ (n + 1) + 1 = n + 2
    BY <1>1
  <2> QED
    BY <2>1, <2>2, DotsTaken
<1>4. CommandsBehindDots'
  <2> SUFFICES ASSUME NoneTooLarge', NEW n \in 0 .. Len(Stream'), NEW k \in 1 .. Len(Stream'),
                      n < k, Opens(n)', Stream'[k] \in Commands
               PROVE  DotIn(n + 1, k - 1)'
    BY DEF CommandsBehindDots
  <2>1. /\ n + 1 \in 0 .. Len(Stream) /\ 0 \in 0 .. Len(Stream) /\ k + 1 \in 1 .. Len(Stream)
        /\ k \in 1 .. Len(Stream) - 1
        /\ n + 1 < k + 1 /\ 0 < k + 1 /\ (n + 1) + 1 = n + 2 /\ (k + 1) - 1 = (k - 1) + 1
        /\ k - 1 \in n .. Len(Stream') /\ 0 + 1 = 1
    BY <1>1
  <2>2. Stream[k + 1] \in Commands /\ NoneTooLarge
    BY <1>1, <2>1
  <2>3. CASE Opens(n + 1)
    <3>1. DotIn(n + 2, (k - 1) + 1)
      BY <2>1, <2>2, <2>3 DEF StreamInv, CommandsBehindDots
    <3> QED
      BY <1>3, <2>1, <3>1
  <2>4. CASE n = 0 /\ Opens(0) /\ Stream[1] # Dot
    <3>1. DotIn(1, (k - 1) + 1)
      BY <2>1, <2>2, <2>4 DEF StreamInv, CommandsBehindDots
    <3> QED
      BY <1>3, <2>1, <2>4, <3>1
  <2> QED
    BY <1>2, <2>3, <2>4
<1>5. BodiesEnded'
  <2> SUFFICES ASSUME NoneTooLarge', closing' = "no", mode' = "command",
                      NEW n \in 0 .. Len(Stream'), Opens(n)'
               PROVE  \E j \in n + 1 .. Len(Stream') : Stream'[j] = Dot
    BY DEF BodiesEnded, DotIn
  <2>1. \A i \in 0 .. Len(Stream) : Opens(i) => DotIn(i + 1, Len(Stream))
    BY <1>1 DEF StreamInv, BodiesEnded
  <2>2. PICK m \in Nat : m = Len(Stream')
    BY <1>1
  <2>3. /\ m + 1 = Len(Stream) /\ n + 1 \in 0 .. Len(Stream) /\ 0 \in 0 .. Len(Stream)
        /\ (n + 1) + 1 = n + 2 /\ 0 + 1 = 1 /\ m \in n .. Len(Stream')
    BY <1>1, <2>2
  <2>4. DotIn(n + 2, m + 1) \/ (n = 0 /\ Stream[1] # Dot /\ DotIn(1, m + 1))
    BY <1>2, <2>1, <2>3
  <2>5. DotIn(n + 1, m)'
    BY <1>3, <2>3, <2>4
  <2> QED
    BY <2>2, <2>5 DEF DotIn
<1> QED
  BY <1>1, <1>4, <1>5 DEF StreamInv, OpeningFirst

\* Taking a line leaves the others their numbers.
LEMMA NumbersTaken ==
  ASSUME ServerTypeOK, ServerTypeOK', StreamInv, TakeLine, NoneTooLarge' => NoneTooLarge,
         Len(issued') + (IF conn' = "spooling" THEN 1 ELSE 0)
           <= Len(issued) + (IF Answering(Stream[1]) THEN 1 ELSE 0)
  PROVE  Numbered'
<1>1. /\ Len(Stream') = Len(Stream) - 1 /\ Len(Stream) \in Nat /\ Len(Stream) >= 1
      /\ \A k \in 1 .. Len(Stream) - 1 : Stream'[k] = Stream[k + 1]
      /\ UNCHANGED <<patience, sent, due, mode, closing>>
      /\ conn = "open"
  BY StreamTaken, StreamType DEF TakeLine, clientVars
<1> SUFFICES ASSUME Waits', closing' = "no"
             PROVE  (\E f \in [0 .. Len(Stream) -> Nat] : Numbers(f))'
  BY DEF Numbered
<1>2. PICK f \in [0 .. Len(Stream) -> Nat] : Numbers(f)
  BY <1>1 DEF StreamInv, Numbered, Waits
<1>3. issued \in Seq(Replies)
  BY DEF ServerTypeOK, Replies
<1>4. PICK len \in Nat, now \in Nat :
        len = Len(Stream) /\ now = Len(issued)
  BY <1>1, <1>3, LenProperties
<1>5. /\ f \in [0 .. len -> Nat] /\ f[0] >= now /\ f[len] <= due /\ len >= 1
      /\ \A j, k \in 0 .. len : j < k => f[k] >= f[j] + (IF Answering(Stream[k]) THEN 1 ELSE 0)
  <2>1. 0 \in 0 .. len
    BY <1>4
  <2>2. f[0] \in Nat
    BY <1>4, <2>1
  <2> QED
    BY <1>1, <1>2, <1>4, <2>2 DEF Numbers
<1> DEFINE g == [k \in 0 .. len - 1 |-> f[k + 1]]
<1>6. g \in [0 .. len - 1 -> Nat]
  BY <1>5
<1>7. \A k \in 0 .. len - 1 : g[k] = f[k + 1] /\ f[k + 1] \in Nat
  BY <1>5
<1> HIDE DEF g
<1>8. ASSUME NEW j \in 0 .. len - 1, NEW k \in 0 .. len - 1, j < k
      PROVE  g[k] >= g[j] + (IF Answering(Stream'[k]) THEN 1 ELSE 0)
  <2>1. j + 1 \in 0 .. len /\ k + 1 \in 0 .. len /\ j + 1 < k + 1 /\ k \in 1 .. len - 1
    BY <1>8
  <2>2. Stream'[k] = Stream[k + 1]
    BY <1>1, <1>4, <2>1
  <2> QED
    BY <1>5, <1>7, <2>1, <2>2
<1>9. g[0] >= Len(issued') + (IF conn' = "spooling" THEN 1 ELSE 0)
  <2>1. f[1] >= f[0] + (IF Answering(Stream[1]) THEN 1 ELSE 0)
    BY <1>5
  <2>2. g[0] = f[1] /\ f[1] \in Nat /\ f[0] \in Nat
    BY <1>5, <1>7
  <2>3. Len(issued') \in Nat
    BY LenProperties DEF ServerTypeOK, Replies
  <2> QED
    BY <1>4, <1>5, <2>1, <2>2, <2>3
<1>10. g[Len(Stream')] <= due'
  BY <1>1, <1>4, <1>5, <1>7
<1>11. Len(Stream') = len - 1
  BY <1>1, <1>4
<1>12. Numbers(g)' /\ g \in [0 .. Len(Stream') -> Nat]
  BY <1>6, <1>8, <1>9, <1>10, <1>11 DEF Numbers
<1> QED
  BY <1>12

\* Taking a line keeps the invariant of the stream, given what becomes of the line.
LEMMA StreamTakenBy ==
  ASSUME ConnectionInv, ConnectionInv', StreamInv, ServeCommand \/ ServeDataLine \/ ServeEndOfData
  PROVE  StreamInv'
<1>1. /\ TakeLine /\ ServerTypeOK /\ ServerTypeOK' /\ reply' \in Replies
      /\ Len(Stream') = Len(Stream) - 1 /\ Len(Stream) \in Nat /\ Len(Stream) >= 1
      /\ \A k \in 1 .. Len(Stream) - 1 : Stream'[k] = Stream[k + 1]
      /\ Stream[1] = Head(readBuf)
      /\ UNCHANGED <<patience, sent, due, mode, closing>> /\ conn = "open"
  <2>1. TakeLine /\ ServerTypeOK
    BY DEF ServeCommand, ServeDataLine, ServeEndOfData, ConnectionInv
  <2>2. ServerTypeOK' /\ reply' \in Replies
    BY DEF ConnectionInv, SessionInv, TypeOK, Replies
  <2> QED
    BY <2>1, <2>2, StreamTaken, StreamType DEF TakeLine, clientVars
<1>2. issued \in Seq(Replies) /\ Len(issued) \in Nat
  BY <1>1, LenProperties DEF ServerTypeOK, Replies
<1>3. ASSUME issued' = issued \/ issued' = Append(issued, reply')
      PROVE  NoneTooLarge' => NoneTooLarge
  <2>1. PICK r \in Replies : r = reply'
    BY <1>1
  <2> QED
    BY <1>1, <1>3, <2>1, NoneTooLargeBefore
<1>4. ASSUME issued' = Append(issued, reply')
      PROVE  /\ Len(issued') = Len(issued) + 1 /\ Last(issued') = reply'
             /\ reply'.code = 552 => ~ NoneTooLarge'
  <2>1. PICK r \in Replies : r = reply'
    BY <1>1
  <2> QED
    BY <1>1, <1>4, <2>1, NoneTooLargeBefore
<1>5. ASSUME NEW n \in Nat, n <= Len(Stream) - 1 PROVE DotIn(1, n)' <=> DotIn(2, n + 1)
  BY <1>1, <1>5, DotsTaken
<1>6. ASSUME NEW n \in Nat, ~ DotIn(1, n + 1) PROVE Stream[1] # Dot /\ ~ DotIn(2, n + 1)
  BY <1>6 DEF DotIn
<1>7. CASE ServeCommand
  <2>1. /\ state # "ReceivingData"
        /\ state' = "ReceivingData" <=> reply'.code = 354
        /\ state' = "ReceivingData" => Stream[1] = "DATA"
        /\ issued' = Append(issued, reply') /\ conn' # "spooling"
    BY <1>1, <1>7, ProcessEffect DEF ServeCommand
  <2>2. NoneTooLarge' => NoneTooLarge
    BY <1>3, <2>1
  <2>3. Waits' => \A k \in 1 .. Len(Stream) : Stream[k] \notin Texts \cup {Dot}
    <3>1. Waits' => Waits
      BY <1>1, <2>2 DEF Waits
    <3> QED
      BY <2>1, <3>1 DEF StreamInv, BodiesWanted
  <2>4. CommandsBehindDots' /\ BodiesEnded' /\ OpeningFirst'
    BY <1>1, <2>1, <2>2, BodiesTaken
  <2>5. BodiesWanted'
    <3> SUFFICES ASSUME Waits', NEW k \in 1 .. Len(Stream') PROVE Stream'[k] \notin Texts \cup {Dot}
      BY DEF BodiesWanted
    <3>1. k + 1 \in 1 .. Len(Stream) /\ Stream'[k] = Stream[k + 1]
      BY <1>1
    <3> QED
      BY <2>3, <3>1
  <2>6. SendsWhatIsWanted'
    <3>1. Waits' => Waits
      BY <1>1, <2>2 DEF Waits
    <3> QED
      BY <1>1, <2>1, <3>1 DEF StreamInv, SendsWhatIsWanted
  <2>7. AnswerToData'
    <3> SUFFICES ASSUME Waits'
                 PROVE  /\ \A j \in 1 .. Len(Stream') : Stream'[j] # Dot
                        /\ Last(issued').code = 354 => state' = "ReceivingData"
      BY DEF AnswerToData, DotIn
    <3>1. ASSUME NEW j \in 1 .. Len(Stream') PROVE Stream'[j] # Dot
      <4>1. j + 1 \in 1 .. Len(Stream) /\ Stream'[j] = Stream[j + 1]
        BY <1>1
      <4> QED
        BY <2>3, <4>1
    <3> QED
      BY <1>4, <2>1, <3>1
  <2>8. Numbered'
    <3>1. CASE Waits'
      <4>1. Answering(Stream[1])
        BY <1>1, <2>3, <3>1 DEF Answering
      <4> QED
        BY <1>1, <1>2, <1>4, <2>1, <2>2, <4>1, NumbersTaken
    <3>2. CASE ~ Waits'
      BY <3>2 DEF Numbered
    <3> QED
      BY <3>1, <3>2
  <2> QED
    BY <2>4, <2>5, <2>6, <2>7, <2>8 DEF StreamInv
<1>8. CASE ServeDataLine
  <2>1. /\ state = "ReceivingData" /\ Stream[1] # Dot /\ conn' = conn
        /\ \/ state' = "ReceivingData" /\ issued' = issued
           \/ state' = "Ready" /\ reply'.code = 552 /\ issued' = Append(issued, reply')
    <3>1. /\ state = "ReceivingData"
          /\ state' = "ReceivingData" \/ (state' = "Ready" /\ reply' = Reply(552))
      BY <1>8, DataLineEffect DEF ServeDataLine
    <3>2. Head(readBuf) # Dot /\ conn' = conn
      <4>1. AsDataLine(Head(readBuf)) # EndOfDataLine /\ conn' = conn
        BY <1>8 DEF ServeDataLine
      <4>2. AsDataLine(Dot) = EndOfDataLine
        BY DEF AsDataLine, Dot, StuffedText
      <4> QED
        BY <4>1, <4>2
    <3>3. IF state' = "ReceivingData" THEN issued' = issued ELSE issued' = Append(issued, reply')
      BY <1>8 DEF ServeDataLine, replyVars, Write
    <3> QED
      BY <1>1, <3>1, <3>2, <3>3 DEF Reply
  <2>2. NoneTooLarge' => NoneTooLarge
    BY <1>3, <2>1
  <2>3. CommandsBehindDots' /\ BodiesEnded' /\ OpeningFirst'
    BY <1>1, <2>1, <2>2, BodiesTaken
  <2>4. CASE ~ NoneTooLarge'
    BY <2>3, <2>4 DEF StreamInv, BodiesWanted, SendsWhatIsWanted, AnswerToData, Numbered, Waits
  <2>5. CASE NoneTooLarge'
    <3>1. state' = "ReceivingData" /\ issued' = issued /\ NoneTooLarge /\ (Waits' => Waits)
      BY <1>1, <1>4, <2>1, <2>2, <2>5 DEF Waits
    <3>2. Stream[1] # "DATA"
      <4>1. Stream[1] \notin Commands
        <5>1. 0 \in 0 .. Len(Stream) /\ 1 \in 1 .. Len(Stream) /\ 0 < 1 /\ Opens(0)
          BY <1>1, <2>1 DEF Opens
        <5>2. ~ DotIn(0 + 1, 1 - 1)
          BY DEF DotIn
        <5> QED
          BY <3>1, <5>1, <5>2 DEF StreamInv, CommandsBehindDots
      <4> QED
        BY <4>1 DEF Commands
    <3>3. BodiesWanted'
      <4> SUFFICES ASSUME Waits', NEW k \in 1 .. Len(Stream'), Stream'[k] \in Texts \cup {Dot}
                   PROVE  ~ DotIn(1, k - 1)'
        BY <3>1 DEF BodiesWanted
      <4>1. /\ k + 1 \in 1 .. Len(Stream) /\ Stream'[k] = Stream[k + 1]
            /\ k - 1 \in Nat /\ k - 1 <= Len(Stream) - 1 /\ (k + 1) - 1 = (k - 1) + 1
        BY <1>1
      <4>2. ~ DotIn(1, (k - 1) + 1)
        BY <3>1, <4>1 DEF StreamInv, BodiesWanted
      <4> QED
        BY <1>5, <1>6, <4>1, <4>2
    <3>4. ASSUME ~ DotIn(1, Len(Stream)) PROVE \A j \in 1 .. Len(Stream') : Stream'[j] # Dot
      BY <1>1, <3>4 DEF DotIn
    <3>5. SendsWhatIsWanted'
      <4> SUFFICES ASSUME Waits', closing' = "no", mode' = "body"
                   PROVE  \A j \in 1 .. Len(Stream') : Stream'[j] # Dot
        BY <3>1 DEF SendsWhatIsWanted, DotIn
      <4> QED
        BY <1>1, <3>1, <3>4 DEF StreamInv, SendsWhatIsWanted
    <3>6. AnswerToData'
      <4> SUFFICES ASSUME Waits', closing' = "no", mode' = "asked"
                   PROVE  \/ \E k \in 1 .. Len(Stream') : Stream'[k] = "DATA"
                          \/ \A j \in 1 .. Len(Stream') : Stream'[j] # Dot
        BY <3>1 DEF AnswerToData, DotIn
      <4>1. (\E k \in 1 .. Len(Stream) : Stream[k] = "DATA") \/ ~ DotIn(1, Len(Stream))
        BY <1>1, <3>1 DEF StreamInv, AnswerToData
      <4>2. ASSUME NEW k \in 1 .. Len(Stream), Stream[k] = "DATA"
            PROVE  \E i \in 1 .. Len(Stream') : Stream'[i] = "DATA"
        <5>1. k - 1 \in 1 .. Len(Stream') /\ Stream'[k - 1] = Stream[(k - 1) + 1] /\ (k - 1) + 1 = k
          BY <1>1, <3>2, <4>2
        <5> QED
          BY <4>2, <5>1
      <4> QED
        BY <3>4, <4>1, <4>2
    <3>7. Numbered'
      BY <1>1, <1>2, <2>1, <2>2, <3>1, NumbersTaken
    <3> QED
      BY <2>3, <3>3, <3>5, <3>6, <3>7 DEF StreamInv
  <2> QED
    BY <2>4, <2>5
<1>9. CASE ServeEndOfData
  <2>1. /\ state = "ReceivingData" /\ state' = "Ready" /\ Stream[1] = Dot
        /\ \/ issued' = Append(issued, reply') /\ conn' = conn
           \/ issued' = issued
    <3>1. Head(readBuf) = Dot
      <4>1. AsDataLine(Head(readBuf)).text = FALSE
        BY <1>9 DEF ServeEndOfData, EndOfDataLine
      <4> QED
        BY <4>1 DEF AsDataLine
    <3>2. /\ state = "ReceivingData" /\ state' = "Ready"
          /\ (issued' = Append(issued, reply') /\ conn' = conn) \/ issued' = issued
      BY <1>9 DEF ServeEndOfData, EndOfData, Write, replyVars
    <3> QED
      BY <1>1, <3>1, <3>2
  <2>2. NoneTooLarge' => NoneTooLarge
    BY <1>3, <2>1
  <2>3. CommandsBehindDots' /\ BodiesEnded' /\ OpeningFirst'
    BY <1>1, <2>1, <2>2, BodiesTaken
  <2>4. \A n \in Nat : DotIn(1, n + 1)
    BY <2>1 DEF DotIn
  <2>5. DotIn(1, Len(Stream))
    BY <1>1, <2>1 DEF DotIn
  <2>6. Waits' => Waits
    BY <1>1, <2>2 DEF Waits
  <2>7. BodiesWanted'
    <3> SUFFICES ASSUME Waits', NEW k \in 1 .. Len(Stream'), Stream'[k] \in Texts \cup {Dot}
                 PROVE  FALSE
      BY DEF BodiesWanted
    <3>1. /\ k + 1 \in 1 .. Len(Stream) /\ Stream'[k] = Stream[k + 1]
          /\ k - 1 \in Nat /\ (k + 1) - 1 = (k - 1) + 1
      BY <1>1
    <3>2. ~ DotIn(1, (k - 1) + 1)
      BY <2>6, <3>1 DEF StreamInv, BodiesWanted
    <3> QED
      BY <2>4, <3>1, <3>2
  <2>8. SendsWhatIsWanted'
    BY <1>1, <2>5, <2>6 DEF StreamInv, SendsWhatIsWanted
  <2>9. AnswerToData'
    <3> SUFFICES ASSUME Waits', closing' = "no", mode' = "asked"
                 PROVE  \E k \in 1 .. Len(Stream') : Stream'[k] = "DATA"
      BY DEF AnswerToData
    <3>1. PICK k \in 1 .. Len(Stream) : Stream[k] = "DATA"
      BY <1>1, <2>5, <2>6 DEF StreamInv, AnswerToData
    <3>2. k # 1
      BY <2>1, <3>1 DEF Dot
    <3>3. k - 1 \in 1 .. Len(Stream') /\ Stream'[k - 1] = Stream[(k - 1) + 1] /\ (k - 1) + 1 = k
      BY <1>1, <3>2
    <3> QED
      BY <3>1, <3>3
  <2>10. Numbered'
    <3>1. Answering(Stream[1])
      BY <2>1 DEF Answering, Texts, Text, StuffedText, Dot
    <3>2. Len(issued') + (IF conn' = "spooling" THEN 1 ELSE 0) <= Len(issued) + 1
      BY <1>1, <1>2, <1>4, <2>1
    <3> QED
      BY <1>1, <1>2, <2>2, <3>1, <3>2, NumbersTaken
  <2> QED
    BY <2>3, <2>7, <2>8, <2>9, <2>10 DEF StreamInv
<1> QED
  BY <1>7, <1>8, <1>9

\* A client that goes away in the middle of a line leaves one that ends no body it was not
\* asked for.
LEMMA StreamCutOff ==
  ASSUME ConnectionInv, RepliesInOrder, StreamInv, CutOff
  PROVE  StreamInv'
<1>1. PICK line \in Offer : \E part \in Fragments(line) : toServer' = Append(toServer, part)
  BY DEF CutOff
<1>2. PICK part \in Fragments(line) : toServer' = Append(toServer, part)
  BY <1>1
<1>3. /\ MaySend /\ closing' = "cut"
      /\ UNCHANGED <<state, issued, conn, patience, sent, mode, readBuf>>
  BY DEF CutOff, sessionVars, replyVars
<1>4. ServerTypeOK /\ part \in Line
  BY <1>2, OfferType DEF ConnectionInv
<1>5. /\ Len(Stream') = Len(Stream) + 1 /\ Stream'[Len(Stream) + 1] = part
      /\ \A k \in 1 .. Len(Stream) : Stream'[k] = Stream[k]
      /\ Len(Stream) \in Nat
  BY <1>2, <1>3, <1>4, StreamSent, StreamType
<1>6. part \notin Commands /\ (part \in Texts \cup {Dot} => line = StuffedText)
  BY <1>2 DEF Fragments, Commands, Texts, Text, StuffedText, Dot
<1>7. /\ \A m \in Nat : \A n \in 0 .. Len(Stream) : m >= 1 => (DotIn(m, n)' <=> DotIn(m, n))
      /\ \A n \in 0 .. Len(Stream) : Opens(n)' <=> Opens(n)
      /\ NoneTooLarge' <=> NoneTooLarge
      /\ Waits' <=> Waits
  BY <1>3, <1>5 DEF DotIn, Opens, NoneTooLarge, Waits
<1>8. CommandsBehindDots'
  <2> SUFFICES ASSUME NoneTooLarge', NEW n \in 0 .. Len(Stream'), NEW k \in 1 .. Len(Stream'),
                      n < k, Opens(n)', Stream'[k] \in Commands
               PROVE  DotIn(n + 1, k - 1)'
    BY DEF CommandsBehindDots
  <2>1. k \in 1 .. Len(Stream) /\ Stream[k] \in Commands
    BY <1>5, <1>6
  <2>2. n \in 0 .. Len(Stream) /\ n + 1 \in Nat /\ n + 1 >= 1 /\ k - 1 \in 0 .. Len(Stream)
    BY <1>5, <2>1
  <2>3. DotIn(n + 1, k - 1)
    BY <1>7, <2>1, <2>2 DEF StreamInv, CommandsBehindDots
  <2> QED
    BY <1>7, <2>2, <2>3
<1>9. BodiesWanted'
  <2> SUFFICES ASSUME Waits', NEW k \in 1 .. Len(Stream'), Stream'[k] \in Texts \cup {Dot}
               PROVE  state = "ReceivingData" /\ ~ DotIn(1, k - 1)'
    BY <1>3 DEF BodiesWanted
  <2>1. k - 1 \in 0 .. Len(Stream)
    BY <1>5
  <2>2. CASE k = Len(Stream) + 1
    <3>1. line = StuffedText
      BY <1>5, <1>6, <2>2
    <3>2. ModeNow = "body"
      <4>1. sent \in Nat /\ Opening \in Seq(Commands)
        BY <1>4, ServerAssumption DEF ServerTypeOK, Commands
      <4>2. CASE sent < Len(Opening)
        <5>1. line = Opening[sent + 1] /\ sent + 1 \in 1 .. Len(Opening)
          BY <4>1, <4>2, LenProperties DEF Offer
        <5>2. line \in Commands
          BY <4>1, <5>1, ElementOfSeq
        <5> QED
          BY <3>1, <5>2 DEF Commands, StuffedText
      <4>3. CASE ~ (sent < Len(Opening))
        BY <3>1, <4>3 DEF Offer, Commands, StuffedText
      <4> QED
        BY <4>2, <4>3
    <3>3. state = "ReceivingData" /\ ~ DotIn(1, Len(Stream))
      BY <1>3, <1>7, <3>2, WantsBody
    <3>4. k - 1 = Len(Stream)
      BY <1>5, <2>2
    <3> QED
      BY <1>7, <2>1, <3>3, <3>4
  <2>3. CASE k \in 1 .. Len(Stream)
    <3>1. state = "ReceivingData" /\ ~ DotIn(1, k - 1)
      BY <1>5, <1>7, <2>3 DEF StreamInv, BodiesWanted
    <3> QED
      BY <1>7, <2>1, <3>1
  <2> QED
    BY <1>5, <2>2, <2>3
<1> QED
  BY <1>3, <1>8, <1>9
  DEF StreamInv, BodiesEnded, OpeningFirst, SendsWhatIsWanted, AnswerToData, Numbered

\* Every step keeps the invariant of the stream.
LEMMA StreamStep ==
  ASSUME ConnectionInv, ConnectionInv', RepliesInOrder, StreamInv, [ServerNext]_vars
  PROVE  StreamInv'
<1>1. ServerTypeOK
  BY DEF ConnectionInv
<1>2. CASE \E line \in Wire : Send(line)
  BY <1>2, StreamSend
<1>3. CASE Close
  <2>1. /\ closing' = "clean" /\ Stream' = Stream
        /\ UNCHANGED <<state, issued, mode, patience, sent>>
    BY <1>3 DEF Close, Stream, sessionVars, replyVars, inputVars
  <2>2. /\ \A m, n : DotIn(m, n)' <=> DotIn(m, n)
        /\ \A n : Opens(n)' <=> Opens(n)
        /\ NoneTooLarge' <=> NoneTooLarge
        /\ Waits' <=> Waits
    BY <2>1 DEF DotIn, Opens, NoneTooLarge, Waits
  <2>3. CommandsBehindDots'
    BY <2>1, <2>2 DEF StreamInv, CommandsBehindDots
  <2>4. BodiesWanted'
    BY <2>1, <2>2 DEF StreamInv, BodiesWanted
  <2> QED
    BY <2>1, <2>3, <2>4
    DEF StreamInv, BodiesEnded, OpeningFirst, SendsWhatIsWanted, AnswerToData, Numbered
<1>4. CASE CutOff
  BY <1>4, StreamCutOff
<1>10. CASE Begin
  <2>1. Stream' = Stream /\ UNCHANGED <<state, issued, closing, mode, patience, due, sent, conn>>
    BY <1>10 DEF Begin, Stream, sessionVars, replyVars, inputVars
  <2> QED
    BY <1>1, <2>1, StreamSame
<1>5. CASE Fill
  <2>1. Stream' = Stream
    BY <1>1, <1>5, FillType DEF Stream
  <2>2. UNCHANGED <<state, issued, closing, mode, patience, due, sent, conn>>
    BY <1>5 DEF Fill, sessionVars, replyVars, clientVars
  <2> QED
    BY <1>1, <2>1, <2>2, StreamSame
<1>6. CASE ServeCommand \/ ServeDataLine \/ ServeEndOfData
  BY <1>6, StreamTakenBy
<1>7. CASE StoreOk \/ StoreFails
  BY <1>7, StreamStored
<1>8. CASE Eof \/ Abort
  <2>1. /\ Stream' = Stream /\ conn' = "closed"
        /\ UNCHANGED <<state, issued, closing, mode, patience, due, sent>>
    BY <1>8 DEF Eof, Abort, Stream, sessionVars, replyVars, clientVars, inputVars
  <2> QED
    BY <1>1, <2>1, StreamSame
<1>9. CASE UNCHANGED vars
  <2>1. Stream' = Stream /\ UNCHANGED <<state, issued, closing, mode, patience, due, sent, conn>>
    BY <1>9 DEF vars, Stream, sessionVars, replyVars, clientVars, inputVars
  <2> QED
    BY <1>1, <2>1, StreamSame
<1> QED
  BY <1>2, <1>3, <1>4, <1>5, <1>6, <1>7, <1>8, <1>9, <1>10 DEF ServerNext, Client, Server

\* The invariant of the stream, for ever.
LEMMA StreamInvariant == ServerSpec => []StreamInv
<1>1. ServerInit => StreamInv
  <2> SUFFICES ASSUME ServerInit PROVE StreamInv
    OBVIOUS
  <2>1. /\ Stream = <<>> \o <<>> /\ state = "Connected" /\ conn = "open" /\ issued = <<reply>>
        /\ mode = "command" /\ due = 1
    BY DEF ServerInit, Init, Stream
  <2>2. Len(Stream) = 0 /\ Len(issued) = 1
    BY <2>1
  <2>3. /\ CommandsBehindDots /\ BodiesEnded /\ OpeningFirst
        /\ BodiesWanted /\ SendsWhatIsWanted /\ AnswerToData
    BY <2>1, <2>2
    DEF CommandsBehindDots, BodiesEnded, OpeningFirst, BodiesWanted, SendsWhatIsWanted,
        AnswerToData, Opens
  <2>4. Numbered
    <3> DEFINE f == [k \in 0 .. 0 |-> 1]
    <3>1. f \in [0 .. 0 -> Nat] /\ f[0] = 1
      OBVIOUS
    <3> HIDE DEF f
    <3>2. Numbers(f)
      BY <2>1, <2>2, <3>1 DEF Numbers
    <3> QED
      BY <2>2, <3>1, <3>2 DEF Numbered
  <2> QED
    BY <2>3, <2>4 DEF StreamInv
<1>2. /\ ConnectionInv /\ ConnectionInv' /\ RepliesInOrder /\ StreamInv /\ [ServerNext]_vars
      => StreamInv'
  BY StreamStep
<1> QED
  BY <1>1, <1>2, ConnectionInvariant, RepliesCorrect, PTL DEF ServerSpec

\* For every client, however much it pipelines, no command of it is taken as a line of a
\* body, until a body of it is refused as too large (handle_connection, feed_data_line).
THEOREM CommandsCorrect == ServerSpec => []CommandsAreNotBodies
<1>1. ConnectionInv /\ StreamInv => CommandsAreNotBodies
  <2> SUFFICES ASSUME ConnectionInv, StreamInv, state = "ReceivingData", readBuf # <<>>, NoneTooLarge
               PROVE  Head(readBuf) \notin Commands
    BY DEF CommandsAreNotBodies
  <2>1. Len(Stream) \in Nat /\ Stream[1] = Head(readBuf) /\ Len(Stream) >= 1
    BY StreamType DEF ConnectionInv
  <2>2. 0 \in 0 .. Len(Stream) /\ 1 \in 1 .. Len(Stream) /\ 0 < 1 /\ Opens(0)
    BY <2>1 DEF Opens
  <2>3. ~ DotIn(0 + 1, 1 - 1)
    BY DEF DotIn
  <2> QED
    BY <2>1, <2>2, <2>3 DEF StreamInv, CommandsBehindDots
<1> QED
  BY <1>1, ConnectionInvariant, StreamInvariant, PTL

=============================================================================
