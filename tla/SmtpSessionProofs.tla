------------------------- MODULE SmtpSessionProofs -------------------------
(***************************************************************************)
(* The invariants of SmtpSession for every configuration of the session,   *)
(* and from them that queue ids increase.  Each invariant is proved from   *)
(* the ones before it; none needs a strengthening but the last, for which  *)
(* IdsBelowNext relates the last message to the next id.                   *)
(***************************************************************************)
EXTENDS SmtpSession, TLAPS

\* What a reset leaves is an envelope.
LEMMA ResetEnvelopeType ==
  ASSUME NEW e \in Envelopes
  PROVE  /\ ResetEnvelope(e) \in Envelopes
         /\ ResetEnvelope(e).recipients = <<>>
         /\ ResetEnvelope(e).greeted = e.greeted
<1>1. <<>> \in Seq(Addresses) /\ EmptyPath \in Paths
  BY DEF Paths
<1> QED
  BY <1>1 DEF ResetEnvelope, Envelopes

\* The values that Init and the handlers write are of their types.
LEMMA ConstantTypes ==
  /\ NoTransaction \in Transactions
  /\ <<>> \in Seq(Lines) /\ Len(<<>>) <= MaxMessageSize
  /\ \A code \in Nat : Reply(code) \in [code : Nat, id : {NoId} \cup Ids]
<1>1. <<>> \in Seq(Addresses) /\ <<>> \in Seq(Lines) /\ EmptyPath \in Paths
  BY DEF Paths
<1> QED
  BY <1>1, SessionAssumption DEF NoTransaction, Transactions, Reply, NoId

\* A line is a line without its stuffing.
LEMMA UnstuffType ==
  ASSUME NEW line \in Lines
  PROVE  Unstuff(line) \in Lines
  BY SessionAssumption DEF Unstuff, Lines

\* A command outside DATA keeps the types if what it writes has them.
LEMMA CommandTypes ==
  ASSUME TypeOK, UNCHANGED <<dataBuffer, nextId, fed, queued>>,
         state' \in States, envelope' \in Envelopes, txn' \in Transactions,
         Len(envelope'.recipients) <= MaxRecipients,
         reply' \in [code : Nat, id : {NoId} \cup Ids]
  PROVE  TypeOK'
  BY Zenon DEF TypeOK

\* The types, and the limits on recipients and on the size of a message, hold in
\* every session.
THEOREM TypeCorrect == Spec => []TypeOK
<1>1. Init => TypeOK
  BY SessionAssumption
  DEF Init, TypeOK, States, EmptyEnvelope, Envelopes, Paths, NoId, Ids, Reply,
      NoTransaction, Transactions, NoMessage
<1>2. TypeOK /\ [Next]_sessionVars => TypeOK'
  <2> SUFFICES ASSUME TypeOK, [Next]_sessionVars PROVE TypeOK'
    OBVIOUS
  <2> USE SessionAssumption
  <2>1. ASSUME NEW code \in Nat, AnswerOnly(code) PROVE TypeOK'
    BY <2>1, ConstantTypes DEF TypeOK, AnswerOnly
  <2>2. CASE HandleEhlo
    <3>1. ResetEnvelope(envelope) \in Envelopes
      BY ResetEnvelopeType DEF TypeOK
    <3>2. envelope' \in Envelopes /\ envelope'.recipients = <<>>
      BY <2>2, <3>1, ResetEnvelopeType DEF TypeOK, HandleEhlo, Envelopes
    <3>3. /\ state' = "Ready" /\ txn' = NoTransaction /\ reply' = Reply(250)
          /\ UNCHANGED <<dataBuffer, nextId, fed, queued>>
      BY <2>2, Zenon DEF HandleEhlo
    <3>4. Len(envelope'.recipients) <= MaxRecipients
      BY <3>2
    <3>5. /\ state' \in States /\ txn' \in Transactions
          /\ reply' \in [code : Nat, id : {NoId} \cup Ids]
      BY <3>3, ConstantTypes DEF States
    <3> QED
      BY <3>2, <3>3, <3>4, <3>5, CommandTypes, Zenon
  <2>3. ASSUME NEW a \in Paths, NEW big \in BOOLEAN, HandleMailFrom(a, big)
        PROVE  TypeOK'
    <3>1. CASE UNCHANGED <<state, envelope, txn>>
      <4>1. /\ reply' \in {Reply(250), Reply(503), Reply(552)}
            /\ UNCHANGED <<dataBuffer, nextId, fed, queued>>
        <5>1. CASE BadSequence({"Ready"})
          BY <5>1, Zenon DEF BadSequence
        <5>2. CASE ~ BadSequence({"Ready"})
          <6>1. CASE big
            BY <2>3, <5>2, <6>1, Zenon DEF HandleMailFrom
          <6>2. CASE ~ big
            BY <2>3, <5>2, <6>2, Zenon DEF HandleMailFrom
          <6> QED
            BY <6>1, <6>2
        <5> QED
          BY <5>1, <5>2
      <4>2. reply' \in [code : Nat, id : {NoId} \cup Ids]
        BY <4>1, ConstantTypes
      <4> QED
        BY <3>1, <4>1, <4>2 DEF TypeOK
    <3>2. CASE ~ UNCHANGED <<state, envelope, txn>>
      <4>1. ~ big
        BY <2>3, <3>2, Zenon DEF HandleMailFrom, BadSequence
      <4>2. /\ envelope' = [envelope EXCEPT !.sender = a]
            /\ state' = "MailFrom"
            /\ txn' = [sender |-> a, recipients |-> <<>>]
            /\ reply' = Reply(250)
            /\ UNCHANGED <<dataBuffer, nextId, fed, queued>>
        BY <2>3, <3>2, <4>1, Zenon DEF HandleMailFrom, BadSequence
      <4>3. envelope' \in Envelopes /\ envelope'.recipients = envelope.recipients
        BY <4>2 DEF TypeOK, Envelopes
      <4>4. txn' \in Transactions
        BY <4>2 DEF Transactions
      <4>5. Len(envelope'.recipients) <= MaxRecipients
        BY <4>3 DEF TypeOK
      <4>6. state' \in States /\ reply' \in [code : Nat, id : {NoId} \cup Ids]
        BY <4>2, ConstantTypes DEF States
      <4> QED
        BY <4>2, <4>3, <4>4, <4>5, <4>6, CommandTypes, Zenon
    <3> QED
      BY <3>1, <3>2
  <2>4. ASSUME NEW a \in Addresses, HandleRcptTo(a) PROVE TypeOK'
    <3>1. CASE UNCHANGED <<state, envelope, txn>>
      <4>1. /\ reply' \in {Reply(250), Reply(503), Reply(452)}
            /\ UNCHANGED <<dataBuffer, nextId, fed, queued>>
        <5>1. CASE BadSequence({"MailFrom", "RcptTo"})
          BY <5>1, Zenon DEF BadSequence
        <5>2. CASE ~ BadSequence({"MailFrom", "RcptTo"})
          <6>1. CASE Len(envelope.recipients) >= MaxRecipients
            BY <2>4, <5>2, <6>1, Zenon DEF HandleRcptTo
          <6>2. CASE ~ (Len(envelope.recipients) >= MaxRecipients)
            BY <2>4, <5>2, <6>2, Zenon DEF HandleRcptTo
          <6> QED
            BY <6>1, <6>2
        <5> QED
          BY <5>1, <5>2
      <4>2. reply' \in [code : Nat, id : {NoId} \cup Ids]
        BY <4>1, ConstantTypes
      <4> QED
        BY <3>1, <4>1, <4>2 DEF TypeOK
    <3>2. CASE ~ UNCHANGED <<state, envelope, txn>>
      <4> DEFINE more == Append(envelope.recipients, a)
      <4>1. /\ ~ (Len(envelope.recipients) >= MaxRecipients)
            /\ envelope' = [envelope EXCEPT !.recipients = Append(@, a)]
            /\ state' = "RcptTo"
            /\ txn' = [txn EXCEPT !.recipients = Append(@, a)]
            /\ reply' = Reply(250)
            /\ UNCHANGED <<dataBuffer, nextId, fed, queued>>
        BY <2>4, <3>2, Zenon DEF HandleRcptTo, BadSequence
      <4>2. envelope.recipients \in Seq(Addresses) /\ txn.recipients \in Seq(Addresses)
        BY DEF TypeOK, Envelopes, Transactions
      <4>3. more \in Seq(Addresses) /\ Len(more) <= MaxRecipients
        BY <4>1, <4>2
      <4>4. envelope' \in Envelopes /\ envelope'.recipients = more
        <5>1. envelope' = [envelope EXCEPT !.recipients = more]
          BY <4>1
        <5> HIDE DEF more
        <5> QED
          BY <4>3, <5>1 DEF TypeOK, Envelopes
      <4>5. txn' \in Transactions
        <5>1. Append(txn.recipients, a) \in Seq(Addresses)
          BY <4>2
        <5> QED
          BY <4>1, <5>1 DEF TypeOK, Transactions
      <4>6. Len(envelope'.recipients) <= MaxRecipients
        BY <4>3, <4>4, Zenon
      <4>7. state' \in States /\ reply' \in [code : Nat, id : {NoId} \cup Ids]
        BY <4>1, ConstantTypes DEF States
      <4> QED
        BY <4>1, <4>4, <4>5, <4>6, <4>7, CommandTypes, Zenon
    <3> QED
      BY <3>1, <3>2
  <2>5. CASE HandleData
    <3>1. CASE BadSequence({"RcptTo"})
      BY <3>1, ConstantTypes DEF TypeOK, BadSequence
    <3>2. CASE ~ BadSequence({"RcptTo"})
      <4>1. /\ nextId \in Ids /\ envelope' = [envelope EXCEPT !.id = nextId]
            /\ nextId' = nextId + 1 /\ dataBuffer' = <<>> /\ fed' = <<>>
            /\ state' = "ReceivingData" /\ reply' = Reply(354)
            /\ UNCHANGED <<txn, queued>>
        BY <2>5, <3>2 DEF HandleData
      <4>2. envelope' \in Envelopes /\ envelope'.recipients = envelope.recipients
        BY <4>1 DEF TypeOK, Envelopes
      <4>3. nextId + 1 \in 1 .. MaxIds + 1
        BY <4>1 DEF Ids
      <4>4. Len(envelope'.recipients) <= MaxRecipients
        BY <4>2 DEF TypeOK
      <4>5. state' \in States /\ reply' \in [code : Nat, id : {NoId} \cup Ids]
        BY <4>1, ConstantTypes DEF States
      <4> QED
        BY <4>1, <4>2, <4>3, <4>4, <4>5, ConstantTypes, Zenon DEF TypeOK
    <3> QED
      BY <3>1, <3>2
  <2>6. CASE HandleQuit
    BY <2>6, ConstantTypes DEF TypeOK, HandleQuit, States
  <2>7. CASE HandleRset
    <3>1. envelope' \in Envelopes /\ envelope'.recipients = <<>>
      BY <2>7, ResetEnvelopeType DEF TypeOK, HandleRset
    <3> QED
      BY <2>7, <3>1, ConstantTypes
      DEF TypeOK, HandleRset, States
  <2>8. CASE EndOfData
    <3>1. reply' \in [code : Nat, id : {NoId} \cup Ids]
      BY <2>8 DEF TypeOK, EndOfData, OkQueued, Envelopes
    <3>2. queued' \in [envelope : Envelopes, data : Seq(Lines),
                       txn : Transactions, sent : Seq(Lines)]
      BY <2>8 DEF TypeOK, EndOfData
    <3> QED
      BY <2>8, <3>1, <3>2 DEF TypeOK, EndOfData, States
  <2>9. ASSUME NEW line \in Lines, DataLine(line) PROVE TypeOK'
    <3>1. Unstuff(line) \in Lines
      BY UnstuffType
    <3>2. Append(dataBuffer, Unstuff(line)) \in Seq(Lines)
      BY <3>1 DEF TypeOK
    <3>3. CASE Len(Append(dataBuffer, Unstuff(line))) > MaxMessageSize
      <4>1. envelope' \in Envelopes /\ envelope'.recipients = <<>>
        BY <2>9, <3>3, ResetEnvelopeType DEF TypeOK, DataLine
      <4>2. /\ dataBuffer' = <<>> /\ state' = "Ready"
            /\ txn' = NoTransaction /\ fed' = <<>>
            /\ reply' = Reply(552)
            /\ UNCHANGED <<nextId, queued>>
        BY <2>9, <3>3 DEF DataLine
      <4> QED
        BY <2>9, <3>3, <4>1, <4>2, ConstantTypes DEF TypeOK, States
    <3>4. CASE ~(Len(Append(dataBuffer, Unstuff(line))) > MaxMessageSize)
      <4>1. Len(Append(dataBuffer, Unstuff(line))) <= MaxMessageSize
        BY <3>2, <3>4
      <4>2. Append(fed, line) \in Seq(Lines)
        BY DEF TypeOK
      <4>3. /\ dataBuffer' = Append(dataBuffer, Unstuff(line))
            /\ fed' = Append(fed, line)
            /\ UNCHANGED <<state, envelope, txn, reply, nextId, queued>>
        BY <2>9, <3>4 DEF DataLine
      <4> QED
        BY <3>2, <4>1, <4>2, <4>3 DEF TypeOK
    <3> QED
      BY <3>3, <3>4
  <2>10. CASE UNCHANGED sessionVars
    BY <2>10 DEF TypeOK, sessionVars
  <2> QED
    BY <2>1, <2>2, <2>3, <2>4, <2>5, <2>6, <2>7, <2>8, <2>9, <2>10
    DEF Next, Command, FeedDataLine
<1> QED
  BY <1>1, <1>2, PTL DEF Spec

-----------------------------------------------------------------------------

\* Sequences that end alike still do when the same element is appended to both.
LEMMA EndsWithAppend ==
  ASSUME NEW S, NEW s \in Seq(S), NEW t \in Seq(S), NEW x \in S, EndsWith(s, t)
  PROVE  EndsWith(Append(s, x), Append(t, x))
<1> DEFINE u == Append(s, x)
           v == Append(t, x)
<1>1. Len(u) = Len(s) + 1 /\ Len(v) = Len(t) + 1 /\ Len(s) \in Nat /\ Len(t) \in Nat
  OBVIOUS
<1>2. \A k \in 1 .. Len(s) + 1 : u[k] = IF k = Len(s) + 1 THEN x ELSE s[k]
  OBVIOUS
<1>3. \A k \in 1 .. Len(t) + 1 : v[k] = IF k = Len(t) + 1 THEN x ELSE t[k]
  OBVIOUS
<1>4. Len(t) <= Len(s) /\ \A i \in 1 .. Len(t) : s[Len(s) - Len(t) + i] = t[i]
  BY DEF EndsWith
<1> HIDE DEF u, v
<1>5. Len(v) <= Len(u)
  BY <1>1, <1>4
<1>6. ASSUME NEW i \in 1 .. Len(v) PROVE u[Len(u) - Len(v) + i] = v[i]
  <2>1. Len(u) - Len(v) + i \in 1 .. Len(s) + 1
    BY <1>1, <1>4
  <2>2. CASE i = Len(t) + 1
    BY <1>1, <1>2, <1>3, <2>1, <2>2
  <2>3. CASE i # Len(t) + 1
    <3>1. i \in 1 .. Len(t) /\ Len(u) - Len(v) + i # Len(s) + 1
      BY <1>1, <2>3
    <3>2. Len(u) - Len(v) + i = Len(s) - Len(t) + i
      BY <1>1
    <3>3. u[Len(u) - Len(v) + i] = s[Len(u) - Len(v) + i]
      BY <1>2, <2>1, <3>1
    <3>4. v[i] = t[i]
      BY <1>1, <1>3, <3>1
    <3>5. s[Len(s) - Len(t) + i] = t[i]
      BY <1>4, <3>1
    <3> QED
      BY <3>2, <3>3, <3>4, <3>5
  <2> QED
    BY <2>2, <2>3
<1>7. EndsWith(u, v)
  BY <1>5, <1>6 DEF EndsWith
<1> QED
  BY <1>7 DEF u, v

\* The state and the envelope agree in every session: what a client was answered 250
\* for in this transaction is in the envelope it will be queued with.
THEOREM EnvelopeCorrect == Spec => []EnvelopeMatchesState
<1>1. Init => EnvelopeMatchesState
  BY DEF Init, EnvelopeMatchesState
<1>2. TypeOK /\ EnvelopeMatchesState /\ [Next]_sessionVars => EnvelopeMatchesState'
  <2> SUFFICES ASSUME TypeOK, EnvelopeMatchesState, [Next]_sessionVars
               PROVE  EnvelopeMatchesState'
    OBVIOUS
  <2>1. ASSUME UNCHANGED <<state, envelope, nextId, txn>> PROVE EnvelopeMatchesState'
    BY <2>1, Zenon DEF EnvelopeMatchesState
  <2>2. CASE HandleEhlo
    <3>1. state' = "Ready" /\ envelope'.greeted
      BY <2>2, ResetEnvelopeType DEF HandleEhlo, TypeOK, Envelopes
    <3> QED
      BY <3>1 DEF EnvelopeMatchesState
  <2>3. ASSUME NEW a \in Paths, NEW big \in BOOLEAN, HandleMailFrom(a, big)
        PROVE  EnvelopeMatchesState'
    <3>1. CASE UNCHANGED <<state, envelope, txn>>
      <4>1. nextId' = nextId
        BY <2>3, Zenon DEF HandleMailFrom, BadSequence
      <4> QED
        BY <2>1, <3>1, <4>1
    <3>2. CASE ~ UNCHANGED <<state, envelope, txn>>
      <4>1. /\ state = "Ready" /\ state' = "MailFrom"
            /\ envelope' = [envelope EXCEPT !.sender = a]
            /\ txn' = [sender |-> a, recipients |-> <<>>]
        BY <2>3, <3>2, Zenon DEF HandleMailFrom, BadSequence
      <4>2. envelope'.greeted /\ envelope'.sender = a
        BY <4>1 DEF EnvelopeMatchesState, TypeOK, Envelopes
      <4>3. EndsWith(envelope'.recipients, <<>>)
        <5>1. envelope'.recipients \in Seq(Addresses)
          BY <4>1 DEF TypeOK, Envelopes
        <5> QED
          BY <5>1 DEF EndsWith
      <4> QED
        BY <4>1, <4>2, <4>3 DEF EnvelopeMatchesState
    <3> QED
      BY <3>1, <3>2
  <2>4. ASSUME NEW a \in Addresses, HandleRcptTo(a) PROVE EnvelopeMatchesState'
    <3>1. CASE UNCHANGED <<state, envelope, txn>>
      BY <2>1, <2>4, <3>1, Zenon DEF HandleRcptTo, BadSequence
    <3>2. CASE ~ UNCHANGED <<state, envelope, txn>>
      <4>1. /\ state \in {"MailFrom", "RcptTo"} /\ state' = "RcptTo"
            /\ envelope' = [envelope EXCEPT !.recipients = Append(@, a)]
            /\ txn' = [txn EXCEPT !.recipients = Append(@, a)]
        BY <2>4, <3>2, Zenon DEF HandleRcptTo, BadSequence
      <4>2. /\ envelope.recipients \in Seq(Addresses)
            /\ txn.recipients \in Seq(Addresses)
        BY DEF TypeOK, Envelopes, Transactions
      <4>3. /\ envelope.greeted /\ envelope.sender = txn.sender
            /\ EndsWith(envelope.recipients, txn.recipients)
        BY <4>1 DEF EnvelopeMatchesState
      <4>4. /\ envelope'.greeted = envelope.greeted /\ envelope'.sender = envelope.sender
            /\ envelope'.recipients = Append(envelope.recipients, a)
            /\ txn'.sender = txn.sender
            /\ txn'.recipients = Append(txn.recipients, a)
        BY <4>1 DEF TypeOK, Envelopes, Transactions
      <4>5. EndsWith(envelope'.recipients, txn'.recipients)
        BY <4>2, <4>3, <4>4, EndsWithAppend
      <4>6. txn'.recipients # <<>>
        BY <4>2, <4>4
      <4> QED
        BY <4>1, <4>3, <4>4, <4>5, <4>6 DEF EnvelopeMatchesState
    <3> QED
      BY <3>1, <3>2
  <2>5. CASE HandleData
    <3>1. CASE BadSequence({"RcptTo"})
      BY <2>1, <3>1 DEF BadSequence
    <3>2. CASE ~ BadSequence({"RcptTo"})
      <4>1. /\ state = "RcptTo" /\ state' = "ReceivingData" /\ nextId \in Ids
            /\ envelope' = [envelope EXCEPT !.id = nextId]
            /\ nextId' = nextId + 1 /\ txn' = txn
        BY <2>5, <3>2 DEF HandleData
      <4>2. /\ envelope'.greeted = envelope.greeted /\ envelope'.sender = envelope.sender
            /\ envelope'.recipients = envelope.recipients /\ envelope'.id = nextId
        BY <4>1 DEF TypeOK, Envelopes
      <4>3. nextId = nextId' - 1 /\ nextId # NoId
        BY <4>1 DEF Ids, NoId
      <4> QED
        BY <4>1, <4>2, <4>3 DEF EnvelopeMatchesState
    <3> QED
      BY <3>1, <3>2
  <2>6. CASE HandleQuit
    BY <2>6 DEF HandleQuit, EnvelopeMatchesState
  <2>7. CASE HandleRset
    <3>1. state' \in {"Connected", "Ready"} /\ envelope'.greeted = envelope.greeted
      BY <2>7, ResetEnvelopeType DEF HandleRset, TypeOK
    <3>2. state' = "Ready" => envelope.greeted
      BY <2>7 DEF HandleRset, TakesCommands, EnvelopeMatchesState, TypeOK, States
    <3> QED
      BY <3>1, <3>2 DEF EnvelopeMatchesState
  <2>8. CASE EndOfData
    BY <2>8 DEF EndOfData, EnvelopeMatchesState
  <2>9. ASSUME NEW line \in Lines, DataLine(line) PROVE EnvelopeMatchesState'
    <3>1. CASE UNCHANGED <<state, envelope, txn>>
      BY <2>1, <2>9, <3>1 DEF DataLine
    <3>2. CASE ~ UNCHANGED <<state, envelope, txn>>
      <4>1. state = "ReceivingData" /\ state' = "Ready" /\ envelope' = ResetEnvelope(envelope)
        BY <2>9, <3>2 DEF DataLine
      <4>2. envelope'.greeted
        BY <4>1, ResetEnvelopeType DEF EnvelopeMatchesState, TypeOK
      <4> QED
        BY <4>1, <4>2 DEF EnvelopeMatchesState
    <3> QED
      BY <3>1, <3>2
  <2>10. ASSUME NEW code, AnswerOnly(code) PROVE EnvelopeMatchesState'
    BY <2>1, <2>10 DEF AnswerOnly
  <2>11. CASE UNCHANGED sessionVars
    BY <2>1, <2>11 DEF sessionVars
  <2> QED
    BY <2>2, <2>3, <2>4, <2>5, <2>6, <2>7, <2>8, <2>9, <2>10, <2>11
    DEF Next, Command, FeedDataLine
<1> QED
  BY <1>1, <1>2, TypeCorrect, PTL DEF Spec

-----------------------------------------------------------------------------

\* A line that is appended to the buffer is the one the client meant.
LEMMA UnstuffIsMeant ==
  ASSUME NEW line \in Lines, line.dots # 1
  PROVE  Unstuff(line) = Meant(line)
<1>1. CASE line.dots = 0
  BY <1>1 DEF Unstuff, Meant, Lines
<1>2. CASE line.dots >= 2
  BY <1>2 DEF Unstuff, Meant, Lines
<1>3. line.dots \in Nat
  BY SessionAssumption DEF Lines
<1> QED
  BY <1>1, <1>2, <1>3

\* What was carried so far is still carried when a line is fed and its unstuffed form
\* is appended.
LEMMA CarriesAppend ==
  ASSUME NEW data \in Seq(Lines), NEW sent \in Seq(Lines), NEW line \in Lines,
         Carries(data, sent)
  PROVE  Carries(Append(data, Unstuff(line)), Append(sent, line))
<1> DEFINE new  == Unstuff(line)
           more == Append(data, new)
           then == Append(sent, line)
<1>1. new \in Lines
  BY UnstuffType
<1>2. Len(data) = Len(sent) /\ \A i \in 1 .. Len(sent) : sent[i].dots # 1 => data[i] = Meant(sent[i])
  BY DEF Carries
<1>3. line.dots # 1 => new = Meant(line)
  BY UnstuffIsMeant
<1> HIDE DEF new
<1>4. /\ Len(more) = Len(data) + 1 /\ Len(then) = Len(sent) + 1
      /\ \A k \in 1 .. Len(data) + 1 : more[k] = IF k = Len(data) + 1 THEN new ELSE data[k]
      /\ \A k \in 1 .. Len(sent) + 1 : then[k] = IF k = Len(sent) + 1 THEN line ELSE sent[k]
  BY <1>1
<1> HIDE DEF more, then
<1>5. ASSUME NEW i \in 1 .. Len(then), then[i].dots # 1 PROVE more[i] = Meant(then[i])
  <2>1. CASE i = Len(sent) + 1
    BY <1>2, <1>3, <1>4, <1>5, <2>1
  <2>2. CASE i # Len(sent) + 1
    <3>1. i \in 1 .. Len(sent)
      BY <1>4, <2>2
    <3>2. then[i] = sent[i] /\ more[i] = data[i]
      BY <1>2, <1>4, <3>1
    <3> QED
      BY <1>2, <1>5, <3>1, <3>2
  <2> QED
    BY <2>1, <2>2
<1>6. Carries(more, then)
  BY <1>2, <1>4, <1>5 DEF Carries
<1> QED
  BY <1>6 DEF more, then, new

\* In every session the buffer holds the body of the DATA under way, line by line and
\* without the client's stuffing, and nothing that is left of an earlier one.
THEOREM BufferCorrect == Spec => []BufferIsThisData
<1>1. Init => BufferIsThisData
  BY DEF Init, BufferIsThisData
<1>2. TypeOK /\ BufferIsThisData /\ [Next]_sessionVars => BufferIsThisData'
  <2> SUFFICES ASSUME TypeOK, BufferIsThisData, [Next]_sessionVars
               PROVE  BufferIsThisData'
    OBVIOUS
  <2>1. ASSUME UNCHANGED <<state, dataBuffer, fed>> PROVE BufferIsThisData'
    BY <2>1 DEF BufferIsThisData
  <2>2. ASSUME state # "ReceivingData", state' # "ReceivingData", dataBuffer' = dataBuffer
        PROVE  BufferIsThisData'
    BY <2>2 DEF BufferIsThisData
  <2>3. ASSUME state' # "ReceivingData", dataBuffer' = <<>> PROVE BufferIsThisData'
    BY <2>3 DEF BufferIsThisData
  <2>4. CASE HandleEhlo
    BY <2>2, <2>4 DEF HandleEhlo, TakesCommands
  <2>5. ASSUME NEW a, NEW big \in BOOLEAN, HandleMailFrom(a, big) PROVE BufferIsThisData'
    <3>1. /\ state # "ReceivingData" /\ dataBuffer' = dataBuffer
          /\ state' \in {state, "MailFrom"}
      <4>1. BadSequence({"Ready"}) \/ state = "Ready"
        BY <2>5, Zenon DEF HandleMailFrom
      <4>2. state # "ReceivingData"
        BY <4>1 DEF BadSequence, TakesCommands
      <4>3. dataBuffer' = dataBuffer /\ (state' = state \/ state' = "MailFrom")
        BY <2>5, Zenon DEF HandleMailFrom, BadSequence
      <4> QED
        BY <4>2, <4>3
    <3> QED
      BY <2>2, <3>1
  <2>6. ASSUME NEW a, HandleRcptTo(a) PROVE BufferIsThisData'
    BY <2>2, <2>6 DEF HandleRcptTo, BadSequence, TakesCommands
  <2>7. CASE HandleData
    <3>1. CASE BadSequence({"RcptTo"})
      BY <2>1, <3>1 DEF BadSequence
    <3>2. CASE ~ BadSequence({"RcptTo"})
      <4>1. state' = "ReceivingData" /\ dataBuffer' = <<>> /\ fed' = <<>>
        BY <2>7, <3>2 DEF HandleData
      <4> QED
        BY <4>1 DEF BufferIsThisData, Carries
    <3> QED
      BY <3>1, <3>2
  <2>8. CASE HandleQuit
    BY <2>2, <2>8 DEF HandleQuit, TakesCommands
  <2>9. CASE HandleRset
    BY <2>3, <2>9 DEF HandleRset, TakesCommands
  <2>10. CASE EndOfData
    BY <2>3, <2>10 DEF EndOfData
  <2>11. ASSUME NEW line \in Lines, DataLine(line) PROVE BufferIsThisData'
    <3>1. CASE state' = "Ready" /\ dataBuffer' = <<>>
      BY <2>3, <3>1
    <3>2. CASE ~ (state' = "Ready" /\ dataBuffer' = <<>>)
      <4>1. /\ state = "ReceivingData" /\ state' = state
            /\ dataBuffer' = Append(dataBuffer, Unstuff(line)) /\ fed' = Append(fed, line)
        BY <2>11, <3>2 DEF DataLine
      <4>2. Carries(dataBuffer, fed) /\ dataBuffer \in Seq(Lines) /\ fed \in Seq(Lines)
        BY <4>1 DEF BufferIsThisData, TypeOK
      <4>3. Carries(dataBuffer', fed')
        BY <4>1, <4>2, CarriesAppend
      <4> QED
        BY <4>1, <4>3 DEF BufferIsThisData
    <3> QED
      BY <3>1, <3>2
  <2>12. ASSUME NEW code, AnswerOnly(code) PROVE BufferIsThisData'
    BY <2>1, <2>12 DEF AnswerOnly
  <2>13. CASE UNCHANGED sessionVars
    BY <2>1, <2>13 DEF sessionVars
  <2> QED
    BY <2>4, <2>5, <2>6, <2>7, <2>8, <2>9, <2>10, <2>11, <2>12, <2>13
    DEF Next, Command, FeedDataLine
<1> QED
  BY <1>1, <1>2, TypeCorrect, PTL DEF Spec

-----------------------------------------------------------------------------

\* Only the end of DATA queues a message, and it queues the envelope, the transaction
\* and the buffer as they are.
LEMMA QueuedByEndOfData ==
  ASSUME [Next]_sessionVars
  PROVE  \/ queued' = queued
         \/ EndOfData
<1>1. ASSUME NEW a, NEW big \in BOOLEAN, HandleMailFrom(a, big) PROVE queued' = queued
  BY <1>1, Zenon DEF HandleMailFrom, BadSequence
<1>2. ASSUME NEW a, HandleRcptTo(a) PROVE queued' = queued
  BY <1>2, Zenon DEF HandleRcptTo, BadSequence
<1>3. ASSUME HandleData PROVE queued' = queued
  BY <1>3, Zenon DEF HandleData, BadSequence
<1>4. ASSUME NEW line, DataLine(line) PROVE queued' = queued
  BY <1>4, Zenon DEF DataLine
<1>5. ASSUME \/ \E code : AnswerOnly(code)
             \/ HandleEhlo \/ HandleQuit \/ HandleRset \/ UNCHANGED sessionVars
      PROVE  queued' = queued
  BY <1>5 DEF AnswerOnly, HandleEhlo, HandleQuit, HandleRset, sessionVars
<1> QED
  BY <1>1, <1>2, <1>3, <1>4, <1>5 DEF Next, Command, FeedDataLine

\* In every session a message answered "250 queued as" has its id, its sender, all the
\* recipients of its transaction and exactly the body that was sent.
THEOREM QueuedCorrect == Spec => []QueuedIsTransaction
<1>1. Init => QueuedIsTransaction
  BY DEF Init, QueuedIsTransaction
<1>2. /\ TypeOK /\ EnvelopeMatchesState /\ BufferIsThisData
      /\ QueuedIsTransaction /\ [Next]_sessionVars
      => QueuedIsTransaction'
  <2> SUFFICES ASSUME TypeOK, EnvelopeMatchesState, BufferIsThisData,
                      QueuedIsTransaction, [Next]_sessionVars
               PROVE  QueuedIsTransaction'
    OBVIOUS
  <2>1. CASE queued' = queued
    BY <2>1 DEF QueuedIsTransaction
  <2>2. CASE EndOfData
    <3>1. /\ state = "ReceivingData"
          /\ queued'.envelope = envelope /\ queued'.txn = txn
          /\ queued'.data = dataBuffer /\ queued'.sent = fed
      BY <2>2 DEF EndOfData
    <3>2. envelope.id \in Ids
      BY <3>1 DEF EnvelopeMatchesState, TypeOK, Envelopes
    <3>3. /\ envelope.sender = txn.sender /\ txn.recipients # <<>>
          /\ EndsWith(envelope.recipients, txn.recipients)
      BY <3>1 DEF EnvelopeMatchesState
    <3>4. Carries(dataBuffer, fed)
      BY <3>1 DEF BufferIsThisData
    <3> QED
      BY <3>1, <3>2, <3>3, <3>4 DEF QueuedIsTransaction
  <2> QED
    BY <2>1, <2>2, QueuedByEndOfData
<1> QED
  BY <1>1, <1>2, TypeCorrect, EnvelopeCorrect, BufferCorrect, PTL DEF Spec

\* The last message queued has an id that was drawn before the next one, and before the
\* one of the DATA under way.
IdsBelowNext ==
  /\ queued.envelope.id < nextId
  /\ state = "ReceivingData" => queued.envelope.id < nextId - 1

LEMMA IdsBelowNextInvariant == Spec => []IdsBelowNext
<1>1. Init => IdsBelowNext
  BY DEF Init, IdsBelowNext, NoMessage, EmptyEnvelope, NoId
<1>2. TypeOK /\ EnvelopeMatchesState /\ IdsBelowNext /\ [Next]_sessionVars => IdsBelowNext'
  <2> SUFFICES ASSUME TypeOK, EnvelopeMatchesState, IdsBelowNext, [Next]_sessionVars
               PROVE  IdsBelowNext'
    OBVIOUS
  <2>1. nextId \in Nat /\ queued.envelope.id \in Nat
    BY SessionAssumption DEF TypeOK, Envelopes, Ids, NoId
  <2>2. CASE EndOfData
    <3>1. queued'.envelope.id = nextId - 1 /\ nextId' = nextId /\ state' = "Ready"
      BY <2>2 DEF EndOfData, EnvelopeMatchesState
    <3> QED
      BY <2>1, <3>1 DEF IdsBelowNext
  <2>3. CASE queued' = queued
    <3>1. CASE HandleData /\ ~ BadSequence({"RcptTo"})
      <4>1. nextId' = nextId + 1
        BY <3>1 DEF HandleData
      <4> QED
        BY <2>1, <2>3, <4>1 DEF IdsBelowNext
    <3>2. ASSUME nextId' = nextId, state' # "ReceivingData" \/ state' = state
          PROVE  IdsBelowNext'
      BY <2>3, <3>2 DEF IdsBelowNext
    <3>3. ASSUME NEW a, NEW big \in BOOLEAN, HandleMailFrom(a, big) PROVE IdsBelowNext'
      <4>1. nextId' = nextId /\ (state' = state \/ state' = "MailFrom")
        BY <3>3, Zenon DEF HandleMailFrom, BadSequence
      <4> QED
        BY <3>2, <4>1
    <3>4. ASSUME NEW a, HandleRcptTo(a) PROVE IdsBelowNext'
      BY <3>2, <3>4 DEF HandleRcptTo, BadSequence
    <3>5. CASE BadSequence({"RcptTo"})
      BY <3>2, <3>5 DEF BadSequence
    <3>6. ASSUME \/ \E code : AnswerOnly(code)
                 \/ HandleEhlo \/ HandleQuit \/ HandleRset \/ UNCHANGED sessionVars
          PROVE  IdsBelowNext'
      <4>1. nextId' = nextId /\ state' \in {state, "Ready", "Closing", "Connected"}
        BY <3>6 DEF AnswerOnly, HandleEhlo, HandleQuit, HandleRset, sessionVars
      <4> QED
        BY <3>2, <4>1
    <3>7. ASSUME NEW line, DataLine(line) PROVE IdsBelowNext'
      <4>1. nextId' = nextId /\ (state' = state \/ state' = "Ready")
        BY <3>7, Zenon DEF DataLine
      <4> QED
        BY <3>2, <4>1
    <3> QED
      BY <2>2, <3>1, <3>3, <3>4, <3>5, <3>6, <3>7 DEF Next, Command, FeedDataLine
  <2> QED
    BY <2>2, <2>3, QueuedByEndOfData
<1> QED
  BY <1>1, <1>2, TypeCorrect, EnvelopeCorrect, PTL DEF Spec

\* In every session the messages are queued under increasing ids, so that no message
\* replaces an earlier one of its session in the spool.
THEOREM IdsIncrease == Spec => QueuedIdsIncrease
<1>1. /\ TypeOK /\ EnvelopeMatchesState /\ IdsBelowNext /\ [Next]_sessionVars
      => [queued' # queued => queued'.envelope.id > queued.envelope.id]_sessionVars
  <2> SUFFICES ASSUME TypeOK, EnvelopeMatchesState, IdsBelowNext, [Next]_sessionVars,
                      queued' # queued
               PROVE  queued'.envelope.id > queued.envelope.id
    OBVIOUS
  <2>1. EndOfData
    BY QueuedByEndOfData
  <2>2. queued'.envelope.id = nextId - 1 /\ queued.envelope.id < nextId - 1
    BY <2>1 DEF EndOfData, EnvelopeMatchesState, IdsBelowNext
  <2>3. nextId \in Nat /\ queued.envelope.id \in Nat
    BY SessionAssumption DEF TypeOK, Envelopes, Ids, NoId
  <2> QED
    BY <2>2, <2>3
<1> QED
  BY <1>1, TypeCorrect, EnvelopeCorrect, IdsBelowNextInvariant, PTL
  DEF Spec, QueuedIdsIncrease

=============================================================================
