----------------------- MODULE SmtpClientReplyProofs -----------------------
(***************************************************************************)
(* One delivery: which command a reply answers.  After a timeout on RCPT   *)
(* TO the client goes on, and every reply it reads may be an old one.  The *)
(* invariant follows the two queues of the connection in use.  The client  *)
(* is                                                                      *)
(*   in step   - what is to come is the reply to its last command;         *)
(*   refusing  - it began a reply with a code that is no success, or with  *)
(*               the rest of a torn line: whatever ends that reply, it     *)
(*               will note a failure.  It may be in step again after it,   *)
(*               for such a rest can swallow a line that was too much;     *)
(*   behind    - lines of an older reply are to come before the answer it  *)
(*               waits for, more than a torn line can swallow, and it      *)
(*               never catches up on this connection.                      *)
(* Unless it is behind it knows of every success it noted.  Behind it does *)
(* not, but then it never gets to a body: DATA is the last command it has  *)
(* sent, so the 354 is the last reply to come, and one who is behind reads *)
(* an earlier one in its place.                                            *)
(*                                                                         *)
(* All of it for torn lines whose rest is not taken for a 250 or a 354.    *)
(***************************************************************************)
EXTENDS SmtpClientProofs

\* The recipients with a success among the results r.
Successes(r) == {i \in DOMAIN r : r[i] = "success"}

\* Lines of replies still to be read on connection x, with one line for each command that was not
\* answered yet: at least so many come, if any do.
More(x)   == IF x.more = 0 THEN 0 ELSE 1
ToCome(x) == Len(x.toClient) + More(x) + Len(x.toServer)

\* The next reply to be read ends before all that is to come is read.
Stale(x) ==
  \/ \E i \in DOMAIN x.toClient : x.toClient[i].last /\ i < ToCome(x)
  \/ More(x) + Len(x.toServer) >= 2

\* So it does after the first line, when `asked' commands more are sent.
StaleRest(x, asked) ==
  IF x.toClient = <<>> THEN More(x) + Len(x.toServer) >= 2 + asked
  ELSE \/ More(x) + Len(x.toServer) >= 1 + asked
       \/ \E i \in DOMAIN x.toClient :
            i >= 2 /\ x.toClient[i].last /\ i + asked <= ToCome(x)

\* An older reply is to come before the answer that the client waits for (w), or before that to
\* the command it sends next, even after what is left of a torn line has swallowed a line.
Behind(x, w) ==
  IF x.torn = "no" THEN IF w THEN Stale(x) ELSE ToCome(x) >= 1
  ELSE IF x.torn = "lf" THEN ToCome(x) >= (IF w THEN 3 ELSE 2)
  ELSE StaleRest(x, IF w THEN 1 ELSE 0)

\* The last command of stage s waits alone for its reply.  p is what was read of a reply.
Asked(x, s, p, r) ==
  /\ Len(x.toServer) = 1 /\ x.toClient = <<>> /\ x.more = 0 /\ p = 0
  /\ s = "RcptTo" => x.toServer[1] \in {RcptTo(Len(r) + 1), Command("JUNK")}

\* What is left of the reply to it: lines with its code, of which the last one ends it.
ReplyLeft(x, p, code) ==
  /\ x.toServer = <<>> /\ ToCome(x) >= 1
  /\ x.more \in {0, code} /\ p \in {0, code}
  /\ \A i \in DOMAIN x.toClient :
       x.toClient[i].code = code /\ (x.toClient[i].last <=> i = ToCome(x))

\* What the server did when it gave that reply.
Meant(x, s, r, code) ==
  /\ s = "RcptTo" /\ code = 250 => Len(r) + 1 \in x.rcpts
  /\ code = 354 => x.inData

\* What is to come is the reply to the last command, or nothing when there is none.
InStep(x, s, w, p, r) ==
  /\ x.torn = "no"
  /\ IF w THEN Asked(x, s, p, r) \/ \E code \in Codes : ReplyLeft(x, p, code) /\ Meant(x, s, r, code)
          ELSE ToCome(x) = 0

\* What it reads next of a whole line belongs to the reply it waits for, or to one it will take
\* for a failure.
Sound(x, s, w, p, r) ==
  w /\ x.torn = "no" => p \in {450, 550} \/ InStep(x, s, w, p, r)

\* The client is behind, or every success it noted is that of a recipient the server accepted.
Knows(x, s, w, p, r) ==
  \/ Behind(x, w)
  \/ Successes(r) \subseteq x.rcpts /\ Sound(x, s, w, p, r)

\* No 354 is to come: DATA was not sent.
NoGoAhead(x, p) ==
  /\ \A i \in DOMAIN x.toClient : x.toClient[i].code # 354
  /\ x.more # 354 /\ p # 354
  /\ \A i \in DOMAIN x.toServer : x.toServer[i].verb # "DATA"

\* A 354 was read or is to be read up to line i.
GoAhead(x, p, i) == p = 354 \/ \E j \in DOMAIN x.toClient : j <= i /\ x.toClient[j].code = 354

\* A 354 is the last reply to come: DATA was the last command.
GoAheadLast(x, p) ==
  /\ \A i \in DOMAIN x.toClient : GoAhead(x, p, i) /\ x.toClient[i].last => i = ToCome(x)
  /\ p = 354 \/ x.more = 354 \/ (\E i \in DOMAIN x.toClient : x.toClient[i].code = 354) =>
       x.toServer = <<>>
  /\ \A i \in DOMAIN x.toServer : x.toServer[i].verb = "DATA" => i = Len(x.toServer)

\* Where the body may be on its way: alone, to a server that waits for it.
NoBody(x)    == \A i \in DOMAIN x.toServer : x.toServer[i].verb # "BODY"
BodyAlone(x) == NoBody(x) \/ (x.toServer = <<Command("BODY")>> /\ x.inData)

\* A server that is up ends every reply it does not go on with.
Whole(x)     == x.toClient # <<>> /\ x.more = 0 => x.toClient[Len(x.toClient)].last

\* The body is the only thing on its way, and a 250 is its acceptance, for every success.
BodyUnderWay(x, p, r) ==
  /\ x.toServer # <<>> =>
       /\ x.toServer \in {<<Command("BODY")>>, <<Command("JUNK")>>}
       /\ Successes(r) \subseteq x.rcpts
       /\ x.toClient = <<>> /\ x.more = 0 /\ p = 0
  /\ p = 250 \/ x.more = 250 \/ (\E i \in DOMAIN x.toClient : x.toClient[i].code = 250) =>
       Successes(r) \subseteq x.accepted

\* The connection in use, for a client at stage s.  Nothing is said of replies once it is down.
InUse(x, s, w, p, r) ==
  /\ ~ x.left
  /\ x.up => Whole(x)
  /\ s # "Final" => NoBody(x)
  /\ s \in {"Greeting", "Ehlo", "Helo", "MailFrom"} =>
       NoGoAhead(x, p) /\ (x.up => InStep(x, s, w, p, r))
  /\ s = "RcptTo" => NoGoAhead(x, p) /\ (x.up => Knows(x, s, w, p, r))
  /\ s = "Data" => (IF w THEN GoAheadLast(x, p) ELSE NoGoAhead(x, p)) /\ (x.up => Knows(x, s, w, p, r))
  /\ s = "Body" => ToCome(x) = 0 /\ (x.up => x.inData /\ Successes(r) \subseteq x.rcpts)
  /\ s = "Final" => BodyUnderWay(x, p, r)
  /\ s = "Quit" => Successes(r) \subseteq x.accepted

\* The rest of a torn line is never taken for a code that says yes.
TailsRefuse == TailCodes \subseteq {450, 550}

\* The inductive invariant.
SyncInv ==
  /\ ~ waiting => partial = 0
  /\ stage \notin {"Connect", "Done"} => InUse(conn[dest], stage, waiting, partial, results)
  /\ \A d \in 1..MaxDestinations : BodyAlone(conn[d])
  /\ dest = 0 => outcome # "ok"
  /\ SuccessMeansAccepted

-----------------------------------------------------------------------------

\* The fields of a connection, and what is to come on it as a number.
LEMMA LinkFields ==
  ASSUME NEW x \in Links
  PROVE  /\ x.toServer \in Seq([verb : Verbs, rcpt : Recipients \cup {0}])
         /\ x.toClient \in Seq([code : Codes, last : BOOLEAN])
         /\ x.more \in Codes \cup {0} /\ x.torn \in {"no", "mid", "short", "lf"}
         /\ x.up \in BOOLEAN /\ x.left \in BOOLEAN /\ x.inData \in BOOLEAN
         /\ Len(x.toClient) \in Nat /\ Len(x.toServer) \in Nat
         /\ DOMAIN x.toClient = 1..Len(x.toClient) /\ DOMAIN x.toServer = 1..Len(x.toServer)
         /\ More(x) \in {0, 1} /\ (More(x) = 0 <=> x.more = 0)
         /\ ToCome(x) = Len(x.toClient) + More(x) + Len(x.toServer) /\ ToCome(x) \in Nat
         /\ (x.toClient = <<>> <=> Len(x.toClient) = 0)
         /\ (x.toServer = <<>> <=> Len(x.toServer) = 0)
<1>1. /\ x.toServer \in Seq([verb : Verbs, rcpt : Recipients \cup {0}])
      /\ x.toClient \in Seq([code : Codes, last : BOOLEAN])
      /\ x.more \in Codes \cup {0} /\ x.torn \in {"no", "mid", "short", "lf"}
      /\ x.up \in BOOLEAN /\ x.left \in BOOLEAN /\ x.inData \in BOOLEAN
  BY DEF Links
<1>2. More(x) \in {0, 1} /\ (More(x) = 0 <=> x.more = 0)
  BY DEF More
<1>3. /\ Len(x.toClient) \in Nat /\ Len(x.toServer) \in Nat
      /\ DOMAIN x.toClient = 1..Len(x.toClient) /\ DOMAIN x.toServer = 1..Len(x.toServer)
      /\ (x.toClient = <<>> <=> Len(x.toClient) = 0)
      /\ (x.toServer = <<>> <=> Len(x.toServer) = 0)
  BY <1>1, LenProperties, EmptySeq
<1>4. ToCome(x) = Len(x.toClient) + More(x) + Len(x.toServer)
  BY DEF ToCome
<1>5. ToCome(x) \in Nat
  BY <1>2, <1>3, <1>4
<1> QED BY <1>1, <1>2, <1>3, <1>4, <1>5

\* One more line arrives at the client (client.rs:408-466).
Arrives(x, y, code, more) ==
  /\ x.up /\ y.up /\ ~ y.left /\ y.torn = x.torn
  /\ y.toClient = Append(x.toClient, Line(code, more = 0))
  /\ y.more = more /\ more \in {0, code}

\* The first line of the answer to the first command.
Answered(x, y, code) ==
  LET command == Head(x.toServer) IN
  /\ x.more = 0 /\ x.toServer # <<>> /\ y.toServer = Tail(x.toServer)
  /\ code \in Answers(x, command) /\ y.inData = (code = 354)
  /\ y.rcpts = IF command.verb = "RCPT" /\ code = 250
               THEN x.rcpts \cup ({command.rcpt} \ {0}) ELSE x.rcpts
  /\ y.accepted = IF command.verb = "BODY" /\ code = 250 THEN x.accepted \cup x.rcpts
                                                         ELSE x.accepted

\* One more line of a reply.
AnsweredOn(x, y, code, more) ==
  /\ x.more = code /\ y.toServer = x.toServer
  /\ y.inData = x.inData /\ y.rcpts = x.rcpts /\ y.accepted = x.accepted

\* What a line that arrives changes of the two queues.
OneLineMore(x, y, code, more) ==
  /\ Len(y.toClient) = Len(x.toClient) + 1
  /\ \A i \in 1..Len(x.toClient) : y.toClient[i] = x.toClient[i]
  /\ y.toClient[Len(x.toClient) + 1] = Line(code, more = 0)
  /\ Len(y.toServer) <= Len(x.toServer)
  /\ y.more = more /\ More(y) = IF more = 0 THEN 0 ELSE 1
  /\ ToCome(y) \in {ToCome(x), ToCome(x) + 1}
  /\ ToCome(y) = Len(x.toClient) + 1 + (IF more = 0 THEN 0 ELSE 1) + Len(y.toServer)
  /\ \/ /\ Answered(x, y, code)
        /\ Len(y.toServer) = Len(x.toServer) - 1
        /\ \A i \in 1..Len(y.toServer) : y.toServer[i] = x.toServer[i + 1]
        /\ More(x) = 0 /\ Len(x.toServer) >= 1
        /\ Head(x.toServer) = x.toServer[1]
        /\ (code = 354 <=> y.inData)
        /\ code = 354 => x.toServer[1].verb = "DATA"
     \/ /\ y.toServer = x.toServer /\ More(x) = 1 /\ x.more = code
        /\ AnsweredOn(x, y, code, more)

\* A line that arrives is the last of the queue, whichever of the two it is.
LEMMA LineArrives ==
  ASSUME NEW x \in Links, NEW y \in Links, NEW code \in Codes, NEW more \in Codes \cup {0},
         Arrives(x, y, code, more), Answered(x, y, code) \/ AnsweredOn(x, y, code, more)
  PROVE  OneLineMore(x, y, code, more)
<1>1. /\ Line(code, more = 0) \in [code : Codes, last : BOOLEAN] /\ code # 0
      /\ more \in {0, code}
  BY DEF Line, Codes, Arrives
<1>2. /\ Len(y.toClient) = Len(x.toClient) + 1
      /\ \A i \in 1..Len(x.toClient) : y.toClient[i] = x.toClient[i]
      /\ y.toClient[Len(x.toClient) + 1] = Line(code, more = 0)
  <2>1. x.toClient \in Seq([code : Codes, last : BOOLEAN])
        /\ y.toClient = Append(x.toClient, Line(code, more = 0))
    BY LinkFields DEF Arrives
  <2> QED BY <1>1, <2>1, AppendProperties
<1>3. More(y) = IF more = 0 THEN 0 ELSE 1
  BY <1>1 DEF More, Arrives
<1>4. ASSUME Answered(x, y, code)
      PROVE  /\ Len(y.toServer) = Len(x.toServer) - 1
             /\ \A i \in 1..Len(y.toServer) : y.toServer[i] = x.toServer[i + 1]
             /\ More(x) = 0 /\ Len(x.toServer) >= 1
             /\ Head(x.toServer) = x.toServer[1]
             /\ (code = 354 <=> y.inData)
             /\ code = 354 => x.toServer[1].verb = "DATA"
  <2>1. /\ x.toServer \in Seq([verb : Verbs, rcpt : Recipients \cup {0}]) /\ x.toServer # <<>>
        /\ y.toServer = Tail(x.toServer) /\ x.more = 0 /\ code \in Answers(x, Head(x.toServer))
        /\ y.inData = (code = 354)
    <3>1. x.toServer \in Seq([verb : Verbs, rcpt : Recipients \cup {0}])
      BY LinkFields, Zenon
    <3> QED BY <1>4, <3>1, Zenon DEF Answered
  <2>2. /\ Len(y.toServer) = Len(x.toServer) - 1 /\ Len(x.toServer) >= 1
        /\ \A i \in 1..Len(y.toServer) : y.toServer[i] = x.toServer[i + 1]
        /\ Head(x.toServer) = x.toServer[1]
    BY <2>1, HeadTailProperties
  <2>3. code = 354 => Head(x.toServer).verb = "DATA"
    BY <2>1 DEF Answers
  <2>4. code = 354 <=> y.inData
    BY <2>1, Zenon
  <2>5. More(x) = 0
    BY <2>1 DEF More
  <2> QED BY <2>2, <2>3, <2>4, <2>5
<1>5. ASSUME ~ Answered(x, y, code)
      PROVE  /\ y.toServer = x.toServer /\ More(x) = 1 /\ x.more = code
             /\ AnsweredOn(x, y, code, more)
  BY <1>1, <1>5 DEF AnsweredOn, More
<1>6. /\ ToCome(x) = Len(x.toClient) + More(x) + Len(x.toServer)
      /\ ToCome(y) = Len(y.toClient) + More(y) + Len(y.toServer)
      /\ Len(x.toClient) \in Nat /\ Len(x.toServer) \in Nat /\ Len(y.toServer) \in Nat
  BY LinkFields
<1>7. Len(y.toClient) = Len(x.toClient) + 1 /\ more \in {0, code}
  BY <1>1, <1>2, Zenon
<1>8. /\ Len(y.toServer) <= Len(x.toServer)
      /\ ToCome(y) \in {ToCome(x), ToCome(x) + 1}
      /\ ToCome(y) = Len(x.toClient) + 1 + (IF more = 0 THEN 0 ELSE 1) + Len(y.toServer)
  <2>1. PICK n \in Nat, m \in Nat, k \in Nat :
          n = Len(x.toClient) /\ m = Len(x.toServer) /\ k = Len(y.toServer)
    BY <1>6, Zenon
  <2>2. PICK one \in {0, 1} : one = More(y) /\ one = IF more = 0 THEN 0 ELSE 1
    BY <1>3, Zenon
  <2>3. \/ k = m - 1 /\ More(x) = 0
        \/ k = m /\ More(x) = 1
    BY <1>4, <1>5, <2>1
  <2>4. ToCome(x) = n + More(x) + m /\ ToCome(y) = n + 1 + one + k
    BY <1>6, <1>7, <2>1, <2>2, Zenon
  <2>5. k <= m /\ ToCome(y) \in {ToCome(x), ToCome(x) + 1}
    BY <2>2, <2>3, <2>4
  <2> QED BY <2>1, <2>2, <2>4, <2>5, Zenon
<1> QED BY <1>2, <1>3, <1>4, <1>5, <1>8, Zenon DEF OneLineMore, Arrives

\* A line that arrives ends a reply, or leaves its last line to come; no command to the server is
\* added by it, and 354 answers only DATA (client.rs:347-361).
LEMMA ArrivalKeepsOrder ==
  ASSUME NEW x \in Links, NEW y \in Links, NEW code \in Codes, NEW more \in Codes \cup {0},
         Arrives(x, y, code, more), Answered(x, y, code) \/ AnsweredOn(x, y, code, more),
         NEW p \in Codes \cup {0}
  PROVE  /\ Whole(y)
         /\ NoBody(x) => NoBody(y)
         /\ NoGoAhead(x, p) => NoGoAhead(y, p)
         /\ GoAheadLast(x, p) => GoAheadLast(y, p)
<1>0. OneLineMore(x, y, code, more)
  BY LineArrives, Zenon
<1> DEFINE n == Len(x.toClient)
<1>1. /\ n \in Nat /\ Len(y.toClient) = n + 1
      /\ Len(x.toServer) \in Nat /\ Len(y.toServer) \in Nat
      /\ DOMAIN x.toClient = 1..n /\ DOMAIN y.toClient = 1..(n + 1)
      /\ DOMAIN x.toServer = 1..Len(x.toServer) /\ DOMAIN y.toServer = 1..Len(y.toServer)
      /\ (x.toServer = <<>> <=> Len(x.toServer) = 0) /\ (y.toServer = <<>> <=> Len(y.toServer) = 0)
      /\ ToCome(x) \in Nat /\ ToCome(y) \in Nat
      /\ ToCome(x) = n + More(x) + Len(x.toServer)
  <2>1. Len(y.toClient) = n + 1
    BY <1>0, Zenon DEF OneLineMore
  <2>2. n \in Nat /\ Len(y.toClient) \in Nat /\ DOMAIN x.toClient = 1..n
        /\ DOMAIN y.toClient = 1..Len(y.toClient)
    BY LinkFields, Zenon
  <2>3. /\ Len(x.toServer) \in Nat /\ Len(y.toServer) \in Nat
        /\ DOMAIN x.toServer = 1..Len(x.toServer) /\ DOMAIN y.toServer = 1..Len(y.toServer)
        /\ (x.toServer = <<>> <=> Len(x.toServer) = 0)
        /\ (y.toServer = <<>> <=> Len(y.toServer) = 0)
    BY LinkFields, Zenon
  <2>4. /\ ToCome(x) \in Nat /\ ToCome(y) \in Nat
        /\ ToCome(x) = n + More(x) + Len(x.toServer)
    BY LinkFields, Zenon
  <2> QED BY <2>1, <2>2, <2>3, <2>4, Zenon
<1>2. /\ \A i \in 1..n : y.toClient[i] = x.toClient[i]
      /\ y.toClient[n + 1].code = code /\ y.toClient[n + 1].last = (more = 0)
      /\ y.more = more /\ More(y) = (IF more = 0 THEN 0 ELSE 1) /\ more \in {0, code}
  <2>1. Line(code, more = 0).code = code /\ Line(code, more = 0).last = (more = 0)
    BY DEF Line
  <2>2. /\ y.toClient[n + 1] = Line(code, more = 0) /\ \A i \in 1..n : y.toClient[i] = x.toClient[i]
        /\ More(y) = (IF more = 0 THEN 0 ELSE 1)
    BY <1>0, Zenon DEF OneLineMore
  <2> QED BY <2>1, <2>2, Zenon DEF Arrives
<1>3. \/ /\ Len(y.toServer) = Len(x.toServer) - 1
         /\ \A i \in 1..Len(y.toServer) : y.toServer[i] = x.toServer[i + 1]
         /\ More(x) = 0 /\ Len(x.toServer) >= 1
         /\ code = 354 => x.toServer[1].verb = "DATA"
      \/ y.toServer = x.toServer /\ More(x) = 1 /\ x.more = code
  BY <1>0, Zenon DEF OneLineMore
<1>4. ToCome(y) = n + 1 + (IF more = 0 THEN 0 ELSE 1) + Len(y.toServer)
  BY <1>0, Zenon DEF OneLineMore
<1> HIDE DEF n
<1>5. Whole(y)
  <2> SUFFICES ASSUME y.more = 0 PROVE y.toClient[Len(y.toClient)].last
    BY DEF Whole
  <2>1. more = 0
    BY <1>2
  <2> QED BY <1>1, <1>2, <2>1, Zenon
<1>6. \A i \in DOMAIN y.toServer : \E j \in DOMAIN x.toServer :
        y.toServer[i] = x.toServer[j] /\ Len(x.toServer) - j = Len(y.toServer) - i
  <2>1. CASE y.toServer = x.toServer
    BY <1>1, <2>1
  <2>2. CASE /\ Len(y.toServer) = Len(x.toServer) - 1
             /\ \A i \in 1..Len(y.toServer) : y.toServer[i] = x.toServer[i + 1]
    <3> SUFFICES ASSUME NEW i \in 1..Len(y.toServer)
                 PROVE  \E j \in 1..Len(x.toServer) :
                          y.toServer[i] = x.toServer[j] /\ Len(x.toServer) - j = Len(y.toServer) - i
      BY <1>1
    <3>1. i + 1 \in 1..Len(x.toServer) /\ y.toServer[i] = x.toServer[i + 1]
          /\ Len(x.toServer) - (i + 1) = Len(y.toServer) - i
      BY <1>1, <2>2
    <3> QED BY <3>1, Zenon
  <2> QED BY <1>3, <2>1, <2>2, Zenon
<1>7. \A i \in DOMAIN y.toClient :
        \/ i = n + 1 /\ y.toClient[i].code = code /\ y.toClient[i].last = (more = 0)
        \/ i \in DOMAIN x.toClient /\ y.toClient[i] = x.toClient[i]
  <2>1. \A i \in 1..(n + 1) : i = n + 1 \/ i \in 1..n
    BY <1>1
  <2> QED BY <1>1, <1>2, <2>1, Zenon
<1>8. ASSUME NoBody(x) PROVE NoBody(y)
  BY <1>6, <1>8, Zenon DEF NoBody
<1>9. \/ code = 354 => x.toServer[1].verb = "DATA" /\ 1 \in DOMAIN x.toServer
      \/ x.more = code
  BY <1>1, <1>3
<1>10. ASSUME NoGoAhead(x, p) PROVE NoGoAhead(y, p)
  <2>1. code # 354
    <3>1. x.more # 354 /\ \A j \in DOMAIN x.toServer : x.toServer[j].verb # "DATA"
      BY <1>10, Zenon DEF NoGoAhead
    <3> QED BY <1>9, <3>1, SMT
  <2>2. ASSUME NEW i \in DOMAIN y.toServer PROVE y.toServer[i].verb # "DATA"
    <3>1. PICK j \in DOMAIN x.toServer : y.toServer[i] = x.toServer[j]
      BY <1>6, <2>2, SMT
    <3>2. x.toServer[j].verb # "DATA"
      <4>1. \A k \in DOMAIN x.toServer : x.toServer[k].verb # "DATA"
        BY <1>10, Zenon DEF NoGoAhead
      <4> QED BY <4>1
    <3> QED BY <3>1, <3>2
  <2>3. ASSUME NEW i \in DOMAIN y.toClient PROVE y.toClient[i].code # 354
    <3>1. CASE y.toClient[i].code = code
      BY <2>1, <3>1
    <3>2. CASE i \in DOMAIN x.toClient /\ y.toClient[i] = x.toClient[i]
      <4>1. \A j \in DOMAIN x.toClient : x.toClient[j].code # 354
        BY <1>10, Zenon DEF NoGoAhead
      <4> QED BY <3>2, <4>1
    <3> QED BY <1>7, <2>3, <3>1, <3>2, Zenon
  <2>4. y.more # 354
    BY <1>2, <2>1
  <2>5. p # 354
    BY <1>10, Zenon DEF NoGoAhead
  <2> QED BY <2>2, <2>3, <2>4, <2>5, Zenon DEF NoGoAhead
<1>11. ASSUME GoAheadLast(x, p) PROVE GoAheadLast(y, p)
  <2>1. ASSUME code = 354 PROVE Len(y.toServer) = 0
    <3>1. CASE x.toServer[1].verb = "DATA" /\ 1 \in DOMAIN x.toServer
      <4>1. Len(x.toServer) = 1
        BY <1>11, <3>1, Zenon DEF GoAheadLast
      <4>2. x.toServer # <<>>
        <5>1. Len(x.toServer) # 0
          BY <1>1, <4>1
        <5> QED BY <1>1, <5>1, Zenon
      <4>3. x.more # 354
        BY <1>11, <4>2, Zenon DEF GoAheadLast
      <4>4. Len(y.toServer) = Len(x.toServer) - 1
        BY <1>3, <2>1, <4>3, Zenon
      <4> QED BY <1>1, <4>1, <4>4
    <3>2. CASE x.more = code
      <4>1. Len(x.toServer) = 0
        BY <1>1, <1>11, <2>1, <3>2, Zenon DEF GoAheadLast
      <4> QED BY <1>1, <1>3, <4>1
    <3> QED BY <1>9, <2>1, <3>1, <3>2, Zenon
  <2>2. \A i \in DOMAIN y.toServer : y.toServer[i].verb = "DATA" => i = Len(y.toServer)
    <3> SUFFICES ASSUME NEW i \in 1..Len(y.toServer), y.toServer[i].verb = "DATA"
                 PROVE  i = Len(y.toServer)
      BY <1>1
    <3>1. PICK j \in 1..Len(x.toServer) : /\ x.toServer[j].verb = "DATA"
                                         /\ Len(x.toServer) - j = Len(y.toServer) - i
      BY <1>1, <1>6, Zenon
    <3>2. j = Len(x.toServer)
      BY <1>1, <1>11, <3>1, Zenon DEF GoAheadLast
    <3> QED BY <1>1, <3>1, <3>2
  <2>3. ASSUME p = 354 \/ x.more = 354 \/ \E i \in DOMAIN x.toClient : x.toClient[i].code = 354
        PROVE  Len(y.toServer) = 0 /\ ToCome(x) = n + 1
    <3>1. Len(x.toServer) = 0
      BY <1>1, <1>11, <2>3, Zenon DEF GoAheadLast
    <3>2. y.toServer = x.toServer /\ More(x) = 1
      BY <1>1, <1>3, <3>1
    <3>3. Len(y.toServer) = 0
      BY <3>1, <3>2, Zenon
    <3>4. ToCome(x) = n + 1
      BY <1>1, <3>1, <3>2
    <3> QED BY <3>3, <3>4, Zenon
  <2>4. ASSUME NEW i \in DOMAIN y.toClient, GoAhead(y, p, i), y.toClient[i].last
        PROVE  i = ToCome(y)
    <3>1. CASE p = 354 \/ \E j \in DOMAIN x.toClient : x.toClient[j].code = 354
      <4>1. Len(y.toServer) = 0 /\ ToCome(x) = n + 1
        BY <2>3, <3>1, Zenon
      <4>2. CASE i = n + 1 /\ y.toClient[i].last = (more = 0)
        <5>1. more = 0
          BY <2>4, <4>2, Zenon
        <5> QED BY <1>1, <1>4, <4>1, <4>2, <5>1
      <4>3. CASE i \in DOMAIN x.toClient /\ i \in 1..n /\ y.toClient[i] = x.toClient[i]
        <5>1. CASE GoAhead(x, p, i)
          <6>1. i = ToCome(x)
            BY <1>11, <2>4, <4>3, <5>1, Zenon DEF GoAheadLast
          <6> QED BY <1>1, <4>1, <4>3, <6>1
        <5>2. CASE ~ GoAhead(x, p, i)
          <6>1. p # 354 /\ \A j \in DOMAIN x.toClient : j <= i => x.toClient[j].code # 354
            BY <5>2 DEF GoAhead
          <6>2. PICK j \in DOMAIN y.toClient : j <= i /\ y.toClient[j].code = 354
            BY <2>4, <6>1, Zenon DEF GoAhead
          <6>3. j \in 1..n
            BY <1>1, <4>3, <6>2
          <6>4. y.toClient[j] = x.toClient[j] /\ j \in DOMAIN x.toClient
            BY <1>1, <1>2, <6>3, Zenon
          <6>5. x.toClient[j].code = 354
            BY <6>2, <6>4, Zenon
          <6> QED BY <6>1, <6>2, <6>4, <6>5, Zenon
        <5> QED BY <5>1, <5>2
      <4> QED BY <1>1, <1>7, <2>4, <4>2, <4>3, Zenon
    <3>2. CASE p # 354 /\ \A j \in DOMAIN x.toClient : x.toClient[j].code # 354
      <4>1. PICK j \in DOMAIN y.toClient : j <= i /\ y.toClient[j].code = 354
        BY <2>4, <3>2, Zenon DEF GoAhead
      <4>2. j = n + 1 /\ code = 354
        <5>1. ~ (j \in DOMAIN x.toClient /\ y.toClient[j] = x.toClient[j])
          BY <3>2, <4>1
        <5> QED BY <1>7, <4>1, <5>1, Zenon
      <4>3. i = n + 1
        BY <1>1, <4>1, <4>2
      <4>4. more = 0
        BY <1>2, <2>4, <4>3, Zenon
      <4>5. Len(y.toServer) = 0
        BY <2>1, <4>2
      <4> QED BY <1>1, <1>4, <4>3, <4>4, <4>5
    <3> QED BY <3>1, <3>2
  <2>5. ASSUME NEW i \in DOMAIN y.toClient, y.toClient[i].code = 354
        PROVE  Len(y.toServer) = 0
    <3>1. CASE i = n + 1 /\ y.toClient[i].code = code
      BY <2>1, <2>5, <3>1, Zenon
    <3>2. CASE i \in DOMAIN x.toClient /\ y.toClient[i] = x.toClient[i]
      <4>1. \E j \in DOMAIN x.toClient : x.toClient[j].code = 354
        BY <2>5, <3>2
      <4> QED BY <2>3, <4>1, Zenon
    <3> QED BY <1>7, <2>5, <3>1, <3>2, Zenon
  <2>6. y.more = 354 => Len(y.toServer) = 0
    BY <1>2, <2>1
  <2>7. p = 354 \/ y.more = 354 \/ (\E i \in DOMAIN y.toClient : y.toClient[i].code = 354) =>
          y.toServer = <<>>
    <3>1. p = 354 => Len(y.toServer) = 0
      BY <2>3, Zenon
    <3> QED BY <1>1, <2>5, <2>6, <3>1
  <2> QED BY <2>2, <2>4, <2>5, <2>7, Zenon DEF GoAheadLast
<1> QED BY <1>5, <1>8, <1>10, <1>11

\* What a line that arrives means does not depend on when: a client in step stays in step, and
\* one that is behind stays behind (client.rs:408-466).
LEMMA ArrivalKeepsKnowledge ==
  ASSUME NEW x \in Links, NEW y \in Links, NEW code \in Codes, NEW more \in Codes \cup {0},
         Arrives(x, y, code, more), Answered(x, y, code) \/ AnsweredOn(x, y, code, more),
         NEW s \in Stages, NEW w \in BOOLEAN, NEW p \in Codes \cup {0}, NEW r \in Seq(Classes)
  PROVE  /\ InStep(x, s, w, p, r) => InStep(y, s, w, p, r)
         /\ Knows(x, s, w, p, r) => Knows(y, s, w, p, r)
<1>1. OneLineMore(x, y, code, more)
  BY LineArrives, Zenon
<1>2. PICK n \in Nat, m \in Nat, k \in Nat, t \in Nat, u \in Nat :
        /\ n = Len(x.toClient) /\ m = Len(x.toServer) /\ k = Len(y.toServer)
        /\ t = ToCome(x) /\ u = ToCome(y)
  BY LinkFields, Zenon
<1>3. /\ DOMAIN x.toClient = 1..n /\ DOMAIN y.toClient = 1..Len(y.toClient)
      /\ (x.toServer = <<>> <=> m = 0) /\ (y.toServer = <<>> <=> k = 0)
      /\ (x.toClient = <<>> <=> n = 0)
      /\ More(x) \in {0, 1} /\ More(y) \in {0, 1}
      /\ t = n + More(x) + m
  <2>1. /\ DOMAIN x.toClient = 1..n /\ (x.toServer = <<>> <=> m = 0) /\ (x.toClient = <<>> <=> n = 0)
        /\ More(x) \in {0, 1} /\ t = n + More(x) + m
    BY <1>2, LinkFields, Zenon
  <2>2. DOMAIN y.toClient = 1..Len(y.toClient) /\ (y.toServer = <<>> <=> k = 0) /\ More(y) \in {0, 1}
    BY <1>2, LinkFields, Zenon
  <2> QED BY <2>1, <2>2, Zenon
<1>4. /\ Len(y.toClient) = n + 1 /\ k <= m /\ u \in {t, t + 1}
      /\ u = n + 1 + (IF more = 0 THEN 0 ELSE 1) + k
      /\ y.more = more /\ More(y) = IF more = 0 THEN 0 ELSE 1
      /\ \/ Answered(x, y, code) /\ k = m - 1 /\ More(x) = 0 /\ m >= 1
         \/ AnsweredOn(x, y, code, more) /\ k = m /\ More(x) = 1 /\ x.more = code
  BY <1>1, <1>2, Zenon DEF OneLineMore
<1>5. \A i \in 1..n : y.toClient[i] = x.toClient[i]
  BY <1>1, <1>2, Zenon DEF OneLineMore
<1>6. y.toClient[n + 1].code = code /\ (y.toClient[n + 1].last <=> more = 0)
  <2>1. y.toClient[n + 1] = Line(code, more = 0)
    BY <1>1, <1>2, Zenon DEF OneLineMore
  <2>2. Line(code, more = 0).code = code /\ (Line(code, more = 0).last <=> more = 0)
    BY DEF Line
  <2> QED BY <2>1, <2>2, Zenon
<1>7. x.rcpts \subseteq y.rcpts /\ y.torn = x.torn /\ more \in {0, code} /\ code # 0
  <2>1. x.rcpts \subseteq y.rcpts
    <3>1. y.rcpts = x.rcpts \/ y.rcpts = x.rcpts \cup ({Head(x.toServer).rcpt} \ {0})
      BY Zenon DEF Answered, AnsweredOn
    <3> QED BY <3>1
  <2>2. code # 0
    BY DEF Codes
  <2> QED BY <2>1, <2>2, Zenon DEF Arrives
<1>8. ASSUME InStep(x, s, w, p, r) PROVE InStep(y, s, w, p, r)
  <2>1. w
    <3> SUFFICES ASSUME ~ w PROVE FALSE
      OBVIOUS
    <3>1. t = 0
      BY <1>2, <1>8, Zenon DEF InStep
    <3> QED BY <1>3, <1>4, <3>1
  <2>2. SUFFICES \E c \in Codes : ReplyLeft(y, p, c) /\ Meant(y, s, r, c)
    BY <1>7, <1>8, <2>1, Zenon DEF InStep
  <2>3. CASE Asked(x, s, p, r)
    <3>1. m = 1 /\ n = 0 /\ x.more = 0 /\ p = 0
          /\ (s = "RcptTo" => x.toServer[1] \in {RcptTo(Len(r) + 1), Command("JUNK")})
      BY <1>2, <1>3, <2>3, Zenon DEF Asked
    <3>2. Answered(x, y, code) /\ k = 0 /\ Head(x.toServer) = x.toServer[1]
      <4>1. k = 0 /\ Answered(x, y, code)
        BY <1>4, <1>7, <3>1
      <4> QED BY <1>1, <1>2, <4>1, <3>1, <1>7, Zenon DEF OneLineMore, AnsweredOn
    <3>3. ReplyLeft(y, p, code)
      <4>1. u = IF more = 0 THEN 1 ELSE 2
        BY <1>4, <3>1, <3>2
      <4>2. DOMAIN y.toClient = {1}
        BY <1>3, <1>4, <3>1
      <4>3. y.toClient[1].code = code /\ (y.toClient[1].last <=> more = 0)
        BY <1>6, <3>1
      <4>4. ToCome(y) >= 1 /\ (1 = ToCome(y) <=> more = 0)
        BY <1>2, <4>1
      <4> QED BY <1>3, <1>4, <1>7, <3>1, <3>2, <4>2, <4>3, <4>4, Zenon DEF ReplyLeft
    <3>4. Meant(y, s, r, code)
      <4>1. code = 354 => y.inData
        BY <3>2, Zenon DEF Answered
      <4>2. ASSUME s = "RcptTo", code = 250 PROVE Len(r) + 1 \in y.rcpts
        <5>0. Head(x.toServer) # Command("JUNK")
          <6>1. 250 \in Answers(x, Head(x.toServer))
            BY <3>2, <4>2, Zenon DEF Answered
          <6>2. 250 \notin Answers(x, Command("JUNK"))
            BY DEF Answers, Command
          <6> QED BY <6>1, <6>2, Zenon
        <5>1. Head(x.toServer) = [verb |-> "RCPT", rcpt |-> Len(r) + 1]
          <6>1. Head(x.toServer) = RcptTo(Len(r) + 1)
            BY <3>1, <3>2, <4>2, <5>0
          <6> QED BY <6>1 DEF RcptTo
        <5>2. Head(x.toServer).verb = "RCPT" /\ Head(x.toServer).rcpt = Len(r) + 1
          BY <5>1
        <5>3. y.rcpts = x.rcpts \cup ({Head(x.toServer).rcpt} \ {0})
          <6>1. Head(x.toServer).verb = "RCPT" /\ code = 250
            BY <4>2, <5>2, Zenon
          <6>2. y.rcpts = IF Head(x.toServer).verb = "RCPT" /\ code = 250
                          THEN x.rcpts \cup ({Head(x.toServer).rcpt} \ {0}) ELSE x.rcpts
            BY <3>2, Zenon DEF Answered
          <6> QED BY <6>1, <6>2
        <5>4. Len(r) + 1 # 0
          BY LenProperties
        <5> QED BY <5>2, <5>3, <5>4
      <4> QED BY <4>1, <4>2, Zenon DEF Meant
    <3> QED BY <3>3, <3>4
  <2>4. CASE \E c \in Codes : ReplyLeft(x, p, c) /\ Meant(x, s, r, c)
    <3>1. PICK c \in Codes : ReplyLeft(x, p, c) /\ Meant(x, s, r, c)
      BY <2>4
    <3>2. /\ m = 0 /\ t >= 1 /\ x.more \in {0, c} /\ p \in {0, c}
          /\ \A i \in 1..n : x.toClient[i].code = c /\ (x.toClient[i].last <=> i = t)
      BY <1>2, <1>3, <3>1, Zenon DEF ReplyLeft
    <3>3. AnsweredOn(x, y, code, more) /\ k = 0 /\ More(x) = 1 /\ x.more = code
      BY <1>4, <3>2
    <3>4. c = code /\ t = n + 1 /\ u = n + 1 + (IF more = 0 THEN 0 ELSE 1)
      BY <1>3, <1>4, <1>7, <3>2, <3>3
    <3>5. \A i \in 1..(n + 1) : y.toClient[i].code = c /\ (y.toClient[i].last <=> i = u)
      <4> SUFFICES ASSUME NEW i \in 1..(n + 1)
                   PROVE  y.toClient[i].code = c /\ (y.toClient[i].last <=> i = u)
        OBVIOUS
      <4>1. CASE i = n + 1
        <5>1. i = u <=> more = 0
          BY <3>4, <4>1
        <5> QED BY <1>6, <3>4, <4>1, <5>1, Zenon
      <4>2. CASE i \in 1..n
        <5>1. x.toClient[i].code = c /\ (x.toClient[i].last <=> i = t)
          BY <3>2, <4>2, Zenon
        <5>2. i # t /\ i # u
          BY <3>4, <4>2
        <5> QED BY <1>5, <4>2, <5>1, <5>2, Zenon
      <4> QED BY <4>1, <4>2
    <3>6. ReplyLeft(y, p, c)
      <4>1. DOMAIN y.toClient = 1..(n + 1)
        BY <1>3, <1>4, Zenon
      <4>2. ToCome(y) = u /\ ToCome(y) >= 1
        <5>1. u >= 1
          BY <3>4
        <5> QED BY <1>2, <5>1, Zenon
      <4>3. y.more \in {0, c}
        BY <1>4, <1>7, <3>4
      <4> QED BY <1>3, <1>4, <3>2, <3>3, <3>5, <4>1, <4>2, <4>3, Zenon DEF ReplyLeft
    <3>7. Meant(y, s, r, c)
      BY <3>1, <3>3, Zenon DEF Meant, AnsweredOn
    <3> QED BY <3>6, <3>7
  <2> QED BY <1>8, <2>1, <2>3, <2>4, Zenon DEF InStep
<1>9. ASSUME Behind(x, w) PROVE Behind(y, w)
  <2>1. CASE w /\ x.torn = "no"
    <3>1. Stale(x)
      BY <1>9, <2>1, Zenon DEF Behind
    <3>2. CASE \E i \in DOMAIN x.toClient : x.toClient[i].last /\ i < ToCome(x)
      <4>1. PICK i \in 1..n : x.toClient[i].last /\ i < t
        BY <1>2, <1>3, <3>2, Zenon
      <4>2. y.toClient[i].last /\ i < u /\ i \in 1..(n + 1)
        <5>1. y.toClient[i].last
          BY <1>5, <4>1, Zenon
        <5> QED BY <1>4, <4>1, <5>1
      <4>3. Stale(y)
        BY <1>2, <1>3, <1>4, <4>2, Zenon DEF Stale
      <4> QED BY <1>7, <2>1, <4>3, Zenon DEF Behind
    <3>3. CASE More(x) + Len(x.toServer) >= 2
      <4>1. More(x) + m >= 2
        BY <1>2, <3>3, Zenon
      <4>2. CASE more = 0
        <5>1. n + 1 \in 1..(n + 1) /\ n + 1 < u /\ y.toClient[n + 1].last
          <6>1. k >= 1
            BY <1>4, <4>1
          <6>2. u = n + 1 + k
            BY <1>4, <4>2
          <6> QED BY <1>6, <4>2, <6>1, <6>2
        <5>2. Stale(y)
          BY <1>2, <1>3, <1>4, <5>1, Zenon DEF Stale
        <5> QED BY <1>7, <2>1, <5>2, Zenon DEF Behind
      <4>3. CASE more # 0
        <5>1. More(y) + k >= 2
          BY <1>4, <4>1, <4>3
        <5> QED BY <1>2, <1>7, <2>1, <5>1, Zenon DEF Behind, Stale
      <4> QED BY <4>2, <4>3
    <3> QED BY <3>1, <3>2, <3>3, Zenon DEF Stale
  <2>2. CASE ~ w /\ x.torn = "no"
    <3>1. t >= 1
      BY <1>2, <1>9, <2>2, Zenon DEF Behind
    <3>2. u >= 1
      BY <1>4, <3>1
    <3> QED BY <1>2, <1>7, <2>2, <3>2, Zenon DEF Behind
  <2>3. CASE x.torn = "lf"
    <3>1. x.torn # "no"
      BY <2>3
    <3>2. PICK least \in {2, 3} : least = IF w THEN 3 ELSE 2
      OBVIOUS
    <3>3. t >= least
      BY <1>2, <1>9, <2>3, <3>1, <3>2, Zenon DEF Behind
    <3>4. u >= least
      BY <1>4, <3>3
    <3> QED BY <1>2, <1>7, <2>3, <3>1, <3>2, <3>4, Zenon DEF Behind
  <2>4. CASE x.torn \notin {"no", "lf"}
    <3>1. x.torn # "no" /\ x.torn # "lf"
      BY <2>4
    <3>2. PICK a \in {0, 1} : a = IF w THEN 1 ELSE 0
      OBVIOUS
    <3>3. StaleRest(x, a)
      BY <1>9, <3>1, <3>2, Zenon DEF Behind
    <3>4. y.toClient # <<>> /\ n + 1 \in 1..(n + 1)
      <4>1. Len(y.toClient) # 0 /\ n + 1 \in 1..(n + 1)
        BY <1>4
      <4> QED BY <4>1, LinkFields, Zenon
    <3>5. SUFFICES \/ More(y) + k >= 1 + a
                   \/ \E i \in 1..(n + 1) : i >= 2 /\ y.toClient[i].last /\ i + a <= u
      <4>1. StaleRest(y, a)
        BY <1>2, <1>3, <1>4, <3>4, <3>5, Zenon DEF StaleRest
      <4> QED BY <1>7, <3>1, <3>2, <4>1, Zenon DEF Behind
    <3>6. CASE n = 0
      <4>1. More(x) + m >= 2 + a
        BY <1>2, <1>3, <3>3, <3>6, Zenon DEF StaleRest
      <4>2. k >= 1 + a
        BY <1>3, <1>4, <4>1
      <4> QED BY <1>3, <1>4, <4>2
    <3>7. CASE n # 0 /\ More(x) + m >= 1 + a
      <4>1. k >= a
        BY <1>3, <1>4, <3>7
      <4>2. CASE more = 0
        <5>1. n + 1 >= 2 /\ n + 1 + a <= u
          BY <1>4, <3>7, <4>1, <4>2
        <5> QED BY <1>6, <3>4, <4>2, <5>1, Zenon
      <4>3. CASE more # 0
        BY <1>4, <4>1, <4>3
      <4> QED BY <4>2, <4>3
    <3>8. CASE n # 0 /\ ~ (More(x) + m >= 1 + a)
      <4>1. PICK i \in 1..n : i >= 2 /\ x.toClient[i].last /\ i + a <= t
        BY <1>2, <1>3, <3>3, <3>8, Zenon DEF StaleRest
      <4>2. i \in 1..(n + 1) /\ i + a <= u
        BY <1>4, <4>1
      <4>3. y.toClient[i].last
        BY <1>5, <4>1, Zenon
      <4> QED BY <4>1, <4>2, <4>3, Zenon
    <3> QED BY <3>6, <3>7, <3>8
  <2> QED BY <2>1, <2>2, <2>3, <2>4
<1>10. ASSUME Sound(x, s, w, p, r) PROVE Sound(y, s, w, p, r)
  BY <1>7, <1>8, <1>10, ZenonT(60) DEF Sound
<1>11. ASSUME Knows(x, s, w, p, r) PROVE Knows(y, s, w, p, r)
  <2>1. CASE Behind(x, w)
    BY <1>9, <2>1, Zenon DEF Knows
  <2>2. CASE ~ Behind(x, w)
    <3>1. Successes(r) \subseteq x.rcpts /\ Sound(x, s, w, p, r)
      BY <1>11, <2>2, Zenon DEF Knows
    <3>2. Successes(r) \subseteq y.rcpts
      BY <1>7, <3>1
    <3> QED BY <1>10, <3>1, <3>2, Zenon DEF Knows
  <2> QED BY <2>1, <2>2
<1> QED BY <1>8, <1>11, Zenon

\* On the connection in use, an answer that arrives keeps what the client knows, and an answer to
\* the body says for whom it was accepted (client.rs:241-266).
LEMMA ArrivalKeepsUse ==
  ASSUME NEW x \in Links, NEW y \in Links, NEW code \in Codes, NEW more \in Codes \cup {0},
         Arrives(x, y, code, more), Answered(x, y, code) \/ AnsweredOn(x, y, code, more),
         NEW s \in Stages, NEW w \in BOOLEAN, NEW p \in Codes \cup {0}, NEW r \in Seq(Classes),
         InUse(x, s, w, p, r)
  PROVE  InUse(y, s, w, p, r)
<1>1. OneLineMore(x, y, code, more)
  BY LineArrives, Zenon
<1>2. /\ Whole(y)
      /\ NoBody(x) => NoBody(y)
      /\ NoGoAhead(x, p) => NoGoAhead(y, p)
      /\ GoAheadLast(x, p) => GoAheadLast(y, p)
  BY ArrivalKeepsOrder, Zenon
<1>3. /\ InStep(x, s, w, p, r) => InStep(y, s, w, p, r)
      /\ Knows(x, s, w, p, r) => Knows(y, s, w, p, r)
  BY ArrivalKeepsKnowledge, Zenon
<1>4. x.up /\ y.up /\ ~ y.left
  BY Zenon DEF Arrives
<1>5. s # "Body"
  <2> SUFFICES ASSUME s = "Body" PROVE FALSE
    OBVIOUS
  <2>1. Len(x.toClient) + More(x) + Len(x.toServer) = 0 /\ Len(x.toServer) \in Nat
        /\ Len(x.toClient) \in Nat /\ More(x) \in {0, 1}
    <3>1. ToCome(x) = 0
      BY Zenon DEF InUse
    <3> QED BY <3>1, LinkFields
  <2>2. More(x) = 1 \/ Len(x.toServer) >= 1
    BY <1>1, Zenon DEF OneLineMore
  <2> QED BY <2>1, <2>2
<1>6. ASSUME s = "Final" PROVE BodyUnderWay(y, p, r)
  <2>1. BodyUnderWay(x, p, r)
    BY <1>6, Zenon DEF InUse
  <2>2. /\ \A i \in 1..Len(x.toClient) : y.toClient[i] = x.toClient[i]
        /\ y.toClient[Len(x.toClient) + 1].code = code
        /\ DOMAIN y.toClient = 1..(Len(x.toClient) + 1) /\ DOMAIN x.toClient = 1..Len(x.toClient)
        /\ Len(x.toClient) \in Nat
    <3>1. Line(code, more = 0).code = code
      BY DEF Line
    <3>2. /\ y.toClient[Len(x.toClient) + 1] = Line(code, more = 0)
          /\ \A i \in 1..Len(x.toClient) : y.toClient[i] = x.toClient[i]
          /\ Len(y.toClient) = Len(x.toClient) + 1
      BY <1>1, Zenon DEF OneLineMore
    <3>3. DOMAIN y.toClient = 1..Len(y.toClient) /\ DOMAIN x.toClient = 1..Len(x.toClient)
          /\ Len(x.toClient) \in Nat
      BY LinkFields, Zenon
    <3>4. y.toClient[Len(x.toClient) + 1].code = code
      BY <3>1, <3>2, Zenon
    <3>5. DOMAIN y.toClient = 1..(Len(x.toClient) + 1)
      BY <3>2, <3>3, Zenon
    <3> QED BY <3>2, <3>3, <3>4, <3>5, Zenon
  <2>3. \A i \in DOMAIN y.toClient : y.toClient[i].code = code \/ \E j \in DOMAIN x.toClient : y.toClient[i] = x.toClient[j]
    <3> SUFFICES ASSUME NEW i \in 1..(Len(x.toClient) + 1), ~ (i \in 1..Len(x.toClient))
                 PROVE  y.toClient[i].code = code
      BY <2>2, Zenon
    <3>1. i = Len(x.toClient) + 1
      BY <2>2
    <3> QED BY <2>2, <3>1, Zenon
  <2>4. y.more \in {0, code} /\ code # 0
    BY DEF Arrives, Codes
  <2>5. CASE Answered(x, y, code)
    <3>1. x.toServer # <<>>
      BY <2>5, Zenon DEF Answered
    <3>2. /\ x.toServer \in {<<Command("BODY")>>, <<Command("JUNK")>>}
          /\ Successes(r) \subseteq x.rcpts
          /\ x.toClient = <<>> /\ x.more = 0 /\ p = 0
      BY <2>1, <3>1, Zenon DEF BodyUnderWay
    <3>3. Len(x.toServer) = 1 /\ x.toServer[1] \in {Command("BODY"), Command("JUNK")}
      BY <3>2
    <3>4. Len(y.toServer) = Len(x.toServer) - 1 /\ Head(x.toServer) = x.toServer[1]
      <4>1. Len(y.toServer) = Len(x.toServer) - 1 /\ Len(x.toServer) >= 1
        BY <2>5, LinkFields, HeadTailProperties DEF Answered
      <4> QED BY <3>2, <3>3, <4>1
    <3>5. y.toServer = <<>>
      <4>1. Len(y.toServer) = 0
        BY <3>3, <3>4
      <4> QED BY <4>1, LinkFields, Zenon
    <3>6. code = 250 => Head(x.toServer).verb = "BODY"
      <4>1. code \in Answers(x, Head(x.toServer))
        BY <2>5, Zenon DEF Answered
      <4>2. 250 \notin Answers(x, Command("JUNK")) /\ Command("BODY").verb = "BODY"
        BY DEF Answers, Command
      <4> QED BY <3>3, <3>4, <4>1, <4>2
    <3>7. code = 250 => Successes(r) \subseteq y.accepted
      <4>1. code = 250 => y.accepted = x.accepted \cup x.rcpts
        BY <2>5, <3>6 DEF Answered
      <4> QED BY <3>2, <4>1
    <3>8. p # 250
      BY <3>2
    <3>9. y.more = 250 \/ (\E i \in DOMAIN y.toClient : y.toClient[i].code = 250) => code = 250
      <4>1. y.more = 250 => code = 250
        BY <2>4
      <4>2. DOMAIN x.toClient = {}
        BY <3>2
      <4> QED BY <2>3, <4>1, <4>2, Zenon
    <3> QED BY <3>5, <3>7, <3>8, <3>9, Zenon DEF BodyUnderWay
  <2>6. CASE AnsweredOn(x, y, code, more)
    <3>1. /\ x.more = code /\ y.toServer = x.toServer /\ y.accepted = x.accepted /\ y.rcpts = x.rcpts
      BY <2>6, Zenon DEF AnsweredOn
    <3>2. x.toServer = <<>>
      BY <2>1, <2>4, <3>1, Zenon DEF BodyUnderWay
    <3>3. y.more = 250 => x.more = 250
      BY <2>4, <3>1
    <3> DEFINE asked == \E i \in DOMAIN x.toClient : x.toClient[i].code = 250
               told  == \E i \in DOMAIN y.toClient : y.toClient[i].code = 250
    <3>4. told => x.more = 250 \/ asked
      <4> SUFFICES ASSUME NEW i \in DOMAIN y.toClient, y.toClient[i].code = 250, x.more # 250
                   PROVE  asked
        OBVIOUS
      <4>1. y.toClient[i].code # code
        BY <3>1
      <4>2. PICK j \in DOMAIN x.toClient : y.toClient[i] = x.toClient[j]
        BY <2>3, <4>1
      <4>3. x.toClient[j].code = 250
        BY <4>2
      <4> QED BY <4>3
    <3>5. p = 250 \/ x.more = 250 \/ asked => Successes(r) \subseteq x.accepted
      BY <2>1, Zenon DEF BodyUnderWay
    <3>6. p = 250 \/ y.more = 250 \/ told => Successes(r) \subseteq y.accepted
      <4> HIDE DEF asked, told
      <4> QED BY <3>1, <3>3, <3>4, <3>5
    <3>7. y.toServer = <<>>
      BY <3>1, <3>2, Zenon
    <3> QED BY <3>6, <3>7, Zenon DEF BodyUnderWay
  <2> QED BY <2>5, <2>6
<1>7. ASSUME s = "Quit" PROVE Successes(r) \subseteq y.accepted
  <2>1. y.accepted = x.accepted \/ y.accepted = x.accepted \cup x.rcpts
    BY Zenon DEF Answered, AnsweredOn
  <2>2. Successes(r) \subseteq x.accepted
    BY <1>7, Zenon DEF InUse
  <2> QED BY <2>1, <2>2
<1>8. /\ s # "Final" => NoBody(y)
      /\ s \in {"Greeting", "Ehlo", "Helo", "MailFrom"} => NoGoAhead(y, p) /\ InStep(y, s, w, p, r)
      /\ s = "RcptTo" => NoGoAhead(y, p) /\ Knows(y, s, w, p, r)
  BY <1>2, <1>3, <1>4, Zenon DEF InUse
<1>9. s = "Data" => /\ IF w THEN GoAheadLast(y, p) ELSE NoGoAhead(y, p)
                    /\ Knows(y, s, w, p, r)
  BY <1>2, <1>3, <1>4, Zenon DEF InUse
<1> QED BY <1>2, <1>4, <1>5, <1>6, <1>7, <1>8, <1>9, Zenon DEF InUse

-----------------------------------------------------------------------------

\* read_response takes the first n lines (client.rs:408-466).
Reads(x, y, n) ==
  /\ n \in {1, 2} /\ Len(x.toClient) >= n
  /\ y.toClient = SubSeq(x.toClient, n + 1, Len(x.toClient)) /\ y.torn = "no"
  /\ y.toServer = x.toServer /\ y.more = x.more /\ y.up = x.up /\ y.left = x.left
  /\ y.inData = x.inData /\ y.rcpts = x.rcpts /\ y.accepted = x.accepted

\* What is left after n lines were read, in numbers.
LEMMA LinesRead ==
  ASSUME NEW x \in Links, NEW y \in Links, NEW n \in {1, 2}, Reads(x, y, n)
  PROVE  /\ Len(y.toClient) = Len(x.toClient) - n
         /\ ToCome(y) = ToCome(x) - n
         /\ More(y) = More(x)
         /\ \A i \in DOMAIN y.toClient : i + n \in DOMAIN x.toClient /\ y.toClient[i] = x.toClient[i + n]
<1>1. /\ Len(x.toClient) \in Nat /\ Len(x.toClient) >= n
      /\ DOMAIN x.toClient = 1..Len(x.toClient) /\ DOMAIN y.toClient = 1..Len(y.toClient)
  BY LinkFields DEF Reads
<1>2. PICK k \in Nat : k = Len(x.toClient)
  BY <1>1
<1>3. y.toClient = SubSeq(x.toClient, n + 1, k) /\ n \in Nat /\ k >= n
  BY <1>1, <1>2 DEF Reads
<1>4. \A i \in (n + 1)..k : x.toClient[i] \in [code : Codes, last : BOOLEAN]
  <2>1. x.toClient \in Seq([code : Codes, last : BOOLEAN])
    BY LinkFields, Zenon
  <2>2. \A i \in 1..k : x.toClient[i] \in [code : Codes, last : BOOLEAN]
    BY <1>2, <2>1, ElementOfSeq, Zenon
  <2> QED BY <1>3, <2>2
<1>5. /\ Len(y.toClient) = IF n + 1 <= k THEN k - (n + 1) + 1 ELSE 0
      /\ \A i \in 1..(k - (n + 1) + 1) : y.toClient[i] = x.toClient[(n + 1) + i - 1]
  <2>1. n + 1 \in Int /\ k \in Int
    BY <1>2, <1>3
  <2> QED BY <1>3, <1>4, <2>1, SubSeqProperties
<1>6. Len(y.toClient) = k - n
  BY <1>3, <1>5
<1>7. \A i \in 1..(k - n) : i + n \in 1..k /\ y.toClient[i] = x.toClient[i + n]
  <2> SUFFICES ASSUME NEW i \in 1..(k - n)
               PROVE  i + n \in 1..k /\ y.toClient[i] = x.toClient[i + n]
    OBVIOUS
  <2>1. (n + 1) + i - 1 = i + n /\ i \in 1..(k - (n + 1) + 1) /\ i + n \in 1..k
    BY <1>3
  <2> QED BY <1>5, <2>1
<1>8. More(y) = More(x) /\ Len(y.toServer) = Len(x.toServer)
  BY Zenon DEF More, Reads
<1>9. ToCome(y) = ToCome(x) - n
  <2>1. /\ ToCome(x) = k + More(x) + Len(x.toServer) /\ ToCome(y) = Len(y.toClient) + More(y) + Len(y.toServer)
        /\ More(x) \in {0, 1} /\ Len(x.toServer) \in Nat
    BY <1>2, LinkFields
  <2> QED BY <1>3, <1>6, <1>8, <2>1
<1> QED BY <1>1, <1>2, <1>6, <1>7, <1>8, <1>9, Zenon

\* Reading disturbs nothing that is still on its way.
LEMMA ReadKeepsOrder ==
  ASSUME NEW x \in Links, NEW y \in Links, NEW n \in {1, 2}, Reads(x, y, n),
         NEW p \in Codes \cup {0}
  PROVE  /\ Whole(x) => Whole(y)
         /\ NoBody(x) => NoBody(y)
         /\ NoGoAhead(x, p) => NoGoAhead(y, 0)
<1>1. /\ Len(y.toClient) = Len(x.toClient) - n
      /\ \A i \in DOMAIN y.toClient : i + n \in DOMAIN x.toClient /\ y.toClient[i] = x.toClient[i + n]
  BY LinesRead, Zenon
<1>2. /\ y.toServer = x.toServer /\ y.more = x.more
  BY Zenon DEF Reads
<1>3. /\ Len(y.toClient) \in Nat /\ Len(x.toClient) \in Nat
      /\ DOMAIN y.toClient = 1..Len(y.toClient)
      /\ (x.toClient = <<>> <=> Len(x.toClient) = 0) /\ (y.toClient = <<>> <=> Len(y.toClient) = 0)
  BY LinkFields, Zenon
<1>4. ASSUME Whole(x) PROVE Whole(y)
  <2> SUFFICES ASSUME y.toClient # <<>>, y.more = 0 PROVE y.toClient[Len(y.toClient)].last
    BY Zenon DEF Whole
  <2>1. Len(y.toClient) # 0
    BY <1>3, Zenon
  <2>2. Len(y.toClient) \in 1..Len(y.toClient) /\ Len(y.toClient) + n = Len(x.toClient)
        /\ Len(x.toClient) # 0
    BY <1>1, <1>3, <2>1
  <2>3. x.toClient[Len(x.toClient)].last
    BY <1>2, <1>3, <1>4, <2>2, Zenon DEF Whole
  <2>4. y.toClient[Len(y.toClient)] = x.toClient[Len(y.toClient) + n]
    BY <1>1, <1>3, <2>2, Zenon
  <2> QED BY <2>2, <2>3, <2>4, Zenon
<1>5. ASSUME NoBody(x) PROVE NoBody(y)
  BY <1>2, <1>5, Zenon DEF NoBody
<1>6. ASSUME NoGoAhead(x, p) PROVE NoGoAhead(y, 0)
  <2>1. \A i \in DOMAIN y.toClient : y.toClient[i].code # 354
    <3> SUFFICES ASSUME NEW i \in DOMAIN y.toClient PROVE y.toClient[i].code # 354
      OBVIOUS
    <3>1. i + n \in DOMAIN x.toClient /\ y.toClient[i] = x.toClient[i + n]
      BY <1>1
    <3>2. x.toClient[i + n].code # 354
      BY <1>6, <3>1 DEF NoGoAhead
    <3> QED BY <3>1, <3>2
  <2>2. 0 # 354
    OBVIOUS
  <2>3. y.more # 354 /\ \A i \in DOMAIN y.toServer : y.toServer[i].verb # "DATA"
    <3>1. x.more # 354 /\ \A i \in DOMAIN x.toServer : x.toServer[i].verb # "DATA"
      BY <1>6, Zenon DEF NoGoAhead
    <3> QED BY <1>2, <3>1
  <2> QED BY <2>1, <2>2, <2>3, Zenon DEF NoGoAhead
<1> QED BY <1>4, <1>5, <1>6

\* A line after which q is known of the reply: a continuation line, or the rest of a torn line
\* that looks like one (client.rs:516-540).
Continues(x, p, q) ==
  \/ x.torn = "no" /\ ~ x.toClient[1].last /\ q = IF p = 0 THEN x.toClient[1].code ELSE p
  \/ x.torn = "mid" /\ q \in {450, 550}

\* Such a line is not the end of the reply the client waits for, and not of one it should have had
\* (client.rs:516-540).
LEMMA ReadOn ==
  ASSUME NEW x \in Links, NEW y \in Links, Reads(x, y, 1),
         NEW s \in Stages, NEW p \in Codes \cup {0}, NEW q \in Codes \cup {0},
         NEW r \in Seq(Classes), Continues(x, p, q), InUse(x, s, TRUE, p, r)
  PROVE  InUse(y, s, TRUE, q, r)
<1>1. PICK n \in Nat, m \in Nat, t \in Nat :
        /\ n = Len(x.toClient) /\ m = Len(x.toServer) /\ t = ToCome(x)
  BY LinkFields, Zenon
<1>2. /\ Len(y.toClient) = n - 1 /\ ToCome(y) = t - 1 /\ More(y) = More(x)
      /\ \A i \in DOMAIN y.toClient : i + 1 \in DOMAIN x.toClient /\ y.toClient[i] = x.toClient[i + 1]
  BY <1>1, LinesRead, Zenon
<1>3. /\ DOMAIN x.toClient = 1..n /\ DOMAIN y.toClient = 1..Len(y.toClient) /\ n >= 1
      /\ (x.toServer = <<>> <=> m = 0) /\ (x.toClient = <<>> <=> n = 0)
      /\ More(x) \in {0, 1} /\ t = n + More(x) + m /\ 1 \in DOMAIN x.toClient
      /\ x.toClient # <<>>
  <2>1. /\ DOMAIN x.toClient = 1..n /\ (x.toServer = <<>> <=> m = 0) /\ (x.toClient = <<>> <=> n = 0)
        /\ More(x) \in {0, 1} /\ t = n + More(x) + m
    BY <1>1, LinkFields, Zenon
  <2>2. DOMAIN y.toClient = 1..Len(y.toClient)
    BY LinkFields, Zenon
  <2>3. n >= 1
    BY <1>1, Zenon DEF Reads
  <2>4. 1 \in 1..n /\ n # 0
    BY <2>3
  <2> QED BY <2>1, <2>2, <2>3, <2>4, Zenon
<1>4. /\ y.toServer = x.toServer /\ y.more = x.more /\ y.up = x.up /\ y.left = x.left
      /\ y.inData = x.inData /\ y.rcpts = x.rcpts /\ y.accepted = x.accepted /\ y.torn = "no"
  BY Zenon DEF Reads
<1>5. /\ q = p \/ q = x.toClient[1].code \/ q \in {450, 550}
      /\ x.torn = "no" => (q = p \/ q = x.toClient[1].code) /\ ~ x.toClient[1].last
      /\ x.torn = "no" /\ p # 0 => q = p
  <2>1. ASSUME x.torn = "no" PROVE ~ x.toClient[1].last /\ q = IF p = 0 THEN x.toClient[1].code ELSE p
    <3>1. x.torn # "mid"
      BY <2>1
    <3> QED BY <3>1, Zenon DEF Continues
  <2>2. CASE x.torn = "no"
    BY <2>1, <2>2, Zenon
  <2>3. CASE x.torn # "no"
    BY <2>3, Zenon DEF Continues
  <2> QED BY <2>2, <2>3
<1>6. /\ Whole(x) => Whole(y)
      /\ NoBody(x) => NoBody(y)
      /\ NoGoAhead(x, p) => NoGoAhead(y, 0)
  BY ReadKeepsOrder, Zenon
<1>7. ASSUME NoGoAhead(x, p) PROVE NoGoAhead(y, q)
  <2>1. x.toClient[1].code # 354 /\ p # 354
    <3>1. p # 354 /\ \A i \in DOMAIN x.toClient : x.toClient[i].code # 354
      BY <1>7, Zenon DEF NoGoAhead
    <3> QED BY <1>3, <3>1
  <2>2. NoGoAhead(y, 0) /\ q # 354
    BY <1>5, <1>6, <1>7, <2>1
  <2> QED BY <2>2, Zenon DEF NoGoAhead
<1>8. ASSUME InStep(x, s, TRUE, p, r) PROVE InStep(y, s, TRUE, q, r)
  <2>0. x.torn = "no" /\ ~ x.toClient[1].last
    BY <1>5, <1>8, Zenon DEF InStep
  <2>1. ~ Asked(x, s, p, r)
    BY <1>3, Zenon DEF Asked
  <2>2. PICK c \in Codes : ReplyLeft(x, p, c) /\ Meant(x, s, r, c)
    BY <1>8, <2>1, Zenon DEF InStep
  <2>3. /\ x.toServer = <<>> /\ t >= 1 /\ x.more \in {0, c} /\ p \in {0, c}
        /\ \A i \in 1..n : x.toClient[i].code = c /\ (x.toClient[i].last <=> i = t)
    BY <1>1, <1>3, <2>2, Zenon DEF ReplyLeft
  <2>4. t > 1 /\ x.toClient[1].code = c
    <3>1. x.toClient[1].code = c /\ (x.toClient[1].last <=> 1 = t)
      BY <1>3, <2>3, Zenon
    <3>2. t # 1
      BY <2>0, <3>1, Zenon
    <3> QED BY <2>3, <3>1, <3>2
  <2>5. q \in {0, c}
    BY <1>5, <2>0, <2>3, <2>4, ZenonT(60)
  <2>6. \A i \in DOMAIN y.toClient : y.toClient[i].code = c /\ (y.toClient[i].last <=> i = t - 1)
    <3> SUFFICES ASSUME NEW i \in DOMAIN y.toClient
                 PROVE  y.toClient[i].code = c /\ (y.toClient[i].last <=> i = t - 1)
      OBVIOUS
    <3>1. i \in Nat /\ i + 1 \in 1..n /\ y.toClient[i] = x.toClient[i + 1]
      BY <1>2, <1>3
    <3>2. x.toClient[i + 1].code = c /\ (x.toClient[i + 1].last <=> i + 1 = t)
      BY <2>3, <3>1, Zenon
    <3>3. i + 1 = t <=> i = t - 1
      BY <3>1
    <3> QED BY <3>1, <3>2, <3>3, Zenon
  <2>7. ToCome(y) >= 1
    BY <1>2, <2>4
  <2>8. ReplyLeft(y, q, c)
    BY <1>2, <1>4, <2>3, <2>5, <2>6, <2>7, Zenon DEF ReplyLeft
  <2>9. Meant(y, s, r, c)
    BY <1>4, <2>2, Zenon DEF Meant
  <2> QED BY <1>4, <2>8, <2>9, Zenon DEF InStep
<1>9. ASSUME Behind(x, TRUE) PROVE Behind(y, TRUE)
  <2>1. \/ \E i \in 1..n : i # 1 /\ x.toClient[i].last /\ i < t
        \/ More(x) + m >= 2
    <3>1. CASE x.torn = "no"
      <4>1. Stale(x)
        BY <1>9, <3>1, Zenon DEF Behind
      <4>2. CASE \E i \in DOMAIN x.toClient : x.toClient[i].last /\ i < ToCome(x)
        <5>1. PICK i \in 1..n : x.toClient[i].last /\ i < t
          BY <1>1, <1>3, <4>2, Zenon
        <5>2. i # 1
          BY <1>5, <3>1, <5>1, Zenon
        <5> QED BY <5>1, <5>2, Zenon
      <4> QED BY <1>1, <4>1, <4>2, Zenon DEF Stale
    <3>2. CASE x.torn # "no"
      <4>1. x.torn # "lf"
        BY <3>2 DEF Continues
      <4>2. StaleRest(x, 1)
        BY <1>9, <3>2, <4>1, Zenon DEF Behind
      <4>3. \/ More(x) + m >= 1 + 1
            \/ \E i \in 1..n : i >= 2 /\ x.toClient[i].last /\ i + 1 <= t
        BY <1>1, <1>3, <4>2, Zenon DEF StaleRest
      <4>4. CASE More(x) + m >= 1 + 1
        BY <1>3, <4>4
      <4>5. CASE \E i \in 1..n : i >= 2 /\ x.toClient[i].last /\ i + 1 <= t
        <5>1. PICK i \in 1..n : i >= 2 /\ x.toClient[i].last /\ i + 1 <= t
          BY <4>5
        <5>2. i # 1 /\ i < t
          BY <5>1
        <5> QED BY <5>1, <5>2, Zenon
      <4> QED BY <4>3, <4>4, <4>5
    <3> QED BY <3>1, <3>2
  <2>2. CASE \E i \in 1..n : i # 1 /\ x.toClient[i].last /\ i < t
    <3>1. PICK i \in 1..n : i # 1 /\ x.toClient[i].last /\ i < t
      BY <2>2
    <3>3. i - 1 \in DOMAIN y.toClient /\ i - 1 < t - 1 /\ (i - 1) + 1 = i
      BY <1>2, <1>3, <3>1
    <3>4. y.toClient[i - 1].last
      BY <1>2, <3>1, <3>3, Zenon
    <3> QED BY <1>2, <1>4, <3>3, <3>4, Zenon DEF Behind, Stale
  <2>3. CASE More(x) + m >= 2
    BY <1>1, <1>2, <1>4, <2>3, Zenon DEF Behind, Stale
  <2> QED BY <2>1, <2>2, <2>3
<1>10. ASSUME Knows(x, s, TRUE, p, r) PROVE Knows(y, s, TRUE, q, r)
  <2>1. CASE Behind(x, TRUE)
    BY <1>9, <2>1, Zenon DEF Knows
  <2>2. CASE ~ Behind(x, TRUE)
    <3>1. Successes(r) \subseteq y.rcpts /\ Sound(x, s, TRUE, p, r)
      BY <1>4, <1>10, <2>2, Zenon DEF Knows
    <3>2. CASE q \in {450, 550}
      BY <3>1, <3>2, Zenon DEF Knows, Sound
    <3>3. CASE q \notin {450, 550}
      <4>1. x.torn = "no"
        BY <3>3, Zenon DEF Continues
      <4>2. p \notin {450, 550}
        <5>1. p \in {450, 550} => p # 0
          OBVIOUS
        <5>2. p # 0 => q = p
          BY <1>5, <4>1, Zenon
        <5> QED BY <3>3, <5>1, <5>2
      <4>3. InStep(y, s, TRUE, q, r)
        BY <1>8, <3>1, <4>1, <4>2, Zenon DEF Sound
      <4> QED BY <3>1, <4>3, Zenon DEF Knows, Sound
    <3> QED BY <3>2, <3>3
  <2> QED BY <2>1, <2>2
<1>11. ASSUME GoAheadLast(x, p) PROVE GoAheadLast(y, q)
  <2>1. q = 354 => p = 354 \/ x.toClient[1].code = 354
    BY <1>5
  <2>2. \A i \in DOMAIN y.toClient : GoAhead(y, q, i) /\ y.toClient[i].last => i = ToCome(y)
    <3> SUFFICES ASSUME NEW i \in DOMAIN y.toClient, GoAhead(y, q, i), y.toClient[i].last
                 PROVE  i = ToCome(y)
      OBVIOUS
    <3>1. i \in Nat /\ i + 1 \in DOMAIN x.toClient /\ y.toClient[i] = x.toClient[i + 1]
      BY <1>2, <1>3
    <3>2. GoAhead(x, p, i + 1)
      <4>1. CASE q = 354
        <5>1. 1 <= i + 1
          BY <3>1
        <5> QED BY <1>3, <2>1, <4>1, <5>1 DEF GoAhead
      <4>2. CASE q # 354
        <5>1. PICK j \in DOMAIN y.toClient : j <= i /\ y.toClient[j].code = 354
          BY <4>2, Zenon DEF GoAhead
        <5>2. j + 1 \in DOMAIN x.toClient /\ j + 1 <= i + 1 /\ x.toClient[j + 1].code = 354
          <6>1. j \in Nat
            BY <1>3, LinkFields
          <6>2. j + 1 <= i + 1
            BY <3>1, <5>1, <6>1
          <6>3. j + 1 \in DOMAIN x.toClient /\ y.toClient[j] = x.toClient[j + 1]
            BY <1>2, <5>1, Zenon
          <6> QED BY <5>1, <6>2, <6>3
        <5> QED BY <5>2 DEF GoAhead
      <4> QED BY <4>1, <4>2
    <3>3. i + 1 = t
      BY <1>1, <1>11, <3>1, <3>2, Zenon DEF GoAheadLast
    <3> QED BY <1>2, <3>1, <3>3
  <2>4. q = 354 \/ y.more = 354 \/ (\E i \in DOMAIN y.toClient : y.toClient[i].code = 354) =>
          y.toServer = <<>>
    <3>1. \A i \in DOMAIN y.toClient : y.toClient[i].code = 354 =>
            i + 1 \in DOMAIN x.toClient /\ x.toClient[i + 1].code = 354
      BY <1>2
    <3>2. (\E i \in DOMAIN y.toClient : y.toClient[i].code = 354) =>
            \E i \in DOMAIN x.toClient : x.toClient[i].code = 354
      BY <3>1
    <3>3. q = 354 => p = 354 \/ \E i \in DOMAIN x.toClient : x.toClient[i].code = 354
      BY <1>3, <2>1
    <3> QED BY <1>4, <1>11, <3>2, <3>3 DEF GoAheadLast
  <2>5. \A i \in DOMAIN y.toServer : y.toServer[i].verb = "DATA" => i = Len(y.toServer)
    BY <1>4, <1>11, Zenon DEF GoAheadLast
  <2> QED BY <2>2, <2>4, <2>5, Zenon DEF GoAheadLast
<1>12. ASSUME BodyUnderWay(x, p, r) PROVE BodyUnderWay(y, q, r)
  <2>1. x.toServer = <<>>
    BY <1>3, <1>12, Zenon DEF BodyUnderWay
  <2>2. (\E i \in DOMAIN y.toClient : y.toClient[i].code = 250) =>
          \E i \in DOMAIN x.toClient : x.toClient[i].code = 250
    <3>1. \A i \in DOMAIN y.toClient : y.toClient[i].code = 250 =>
            i + 1 \in DOMAIN x.toClient /\ x.toClient[i + 1].code = 250
      BY <1>2
    <3> QED BY <3>1
  <2>3. q = 250 => p = 250 \/ \E i \in DOMAIN x.toClient : x.toClient[i].code = 250
    <3>1. q = 250 => p = 250 \/ x.toClient[1].code = 250
      BY <1>5
    <3> QED BY <1>3, <3>1
  <2> QED BY <1>4, <1>12, <2>1, <2>2, <2>3 DEF BodyUnderWay
<1>13. s # "Body"
  <2> SUFFICES ASSUME s = "Body" PROVE FALSE
    OBVIOUS
  <2>1. t = 0
    BY <1>1, Zenon DEF InUse
  <2> QED BY <1>3, <2>1
<1>14. InUse(y, s, TRUE, q, r)
  <2>1. /\ ~ y.left
        /\ y.up => Whole(y)
        /\ s # "Final" => NoBody(y)
    BY <1>4, <1>6, Zenon DEF InUse
  <2>2. /\ s \in {"Greeting", "Ehlo", "Helo", "MailFrom"} =>
             NoGoAhead(y, q) /\ (y.up => InStep(y, s, TRUE, q, r))
        /\ s = "RcptTo" => NoGoAhead(y, q) /\ (y.up => Knows(y, s, TRUE, q, r))
    BY <1>4, <1>7, <1>8, <1>10, Zenon DEF InUse
  <2>3. s = "Data" => GoAheadLast(y, q) /\ (y.up => Knows(y, s, TRUE, q, r))
    BY <1>4, <1>10, <1>11, Zenon DEF InUse
  <2>4. /\ s = "Final" => BodyUnderWay(y, q, r)
        /\ s = "Quit" => Successes(r) \subseteq y.accepted
    BY <1>4, <1>12, Zenon DEF InUse
  <2> QED BY <1>13, <2>1, <2>2, <2>3, <2>4, Zenon DEF InUse
<1> QED BY <1>14

\* If the next reply ends before all is read even when `asked' commands more are sent, there is as
\* much to come.
LEMMA RestStale ==
  ASSUME NEW x \in Links, NEW asked \in {0, 1}, StaleRest(x, asked)
  PROVE  ToCome(x) >= 2 + asked
<1>1. PICK n \in Nat, m \in Nat, t \in Nat :
        /\ n = Len(x.toClient) /\ m = Len(x.toServer) /\ t = ToCome(x)
        /\ t = n + More(x) + m /\ More(x) \in {0, 1} /\ DOMAIN x.toClient = 1..n
        /\ (x.toClient = <<>> <=> n = 0)
  BY LinkFields, Zenon
<1>2. CASE n = 0
  <2>1. More(x) + m >= 2 + asked
    BY <1>1, <1>2, Zenon DEF StaleRest
  <2> QED BY <1>1, <2>1
<1>3. CASE n # 0
  <2>1. \/ More(x) + m >= 1 + asked
        \/ \E i \in 1..n : i >= 2 /\ i + asked <= t
    BY <1>1, <1>3, Zenon DEF StaleRest
  <2> QED BY <1>1, <1>3, <2>1
<1> QED BY <1>2, <1>3

\* What the client may conclude after the end of a reply, whatever its code (client.rs:200-222):
\* it is behind, or knows of every success.
Settles(x, r) == Behind(x, FALSE) \/ Successes(r) \subseteq x.rcpts

\* What is left to the client of a connection after it read a complete reply with that code.
AfterReply(y, s, r, code) ==
  /\ ~ y.left
  /\ y.up => Whole(y)
  /\ s # "Final" => NoBody(y)
  /\ s \in {"Greeting", "Ehlo", "Helo", "MailFrom"} =>
       NoGoAhead(y, 0) /\ (y.up => y.torn = "no" /\ ToCome(y) = 0)
  /\ s = "RcptTo" =>
       /\ NoGoAhead(y, 0)
       /\ y.up => \/ Behind(y, FALSE)
                  \/ Successes(r) \subseteq y.rcpts /\ (code = 250 => Len(r) + 1 \in y.rcpts)
  /\ s = "Data" /\ code = 354 =>
       ToCome(y) = 0 /\ (y.up => y.inData /\ Successes(r) \subseteq y.rcpts)
  /\ s = "Final" /\ code = 250 => Successes(r) \subseteq y.accepted

\* A line that ends a reply: its last line, or the rest of a torn line that looks like one
\* (client.rs:516-540).
Ends(x, p, code) ==
  \/ x.torn = "no" /\ x.toClient[1].last /\ code = IF p = 0 THEN x.toClient[1].code ELSE p
  \/ x.torn = "mid" /\ code \in {450, 550}

\* A complete reply (client.rs:477-554).  Unless the client is behind, a 250 is the answer to what
\* the client asked last; a reply that asks for the body is never an old one.
LEMMA ReplyRead ==
  ASSUME NEW x \in Links, NEW y \in Links, Reads(x, y, 1),
         NEW s \in Stages, NEW p \in Codes \cup {0}, NEW r \in Seq(Classes),
         InUse(x, s, TRUE, p, r), NEW code \in Codes, Ends(x, p, code)
  PROVE  AfterReply(y, s, r, code)
<1>1. PICK n \in Nat, m \in Nat, t \in Nat :
        /\ n = Len(x.toClient) /\ m = Len(x.toServer) /\ t = ToCome(x)
  BY LinkFields, Zenon
<1>2. /\ ToCome(y) = t - 1 /\ More(y) = More(x)
  BY <1>1, LinesRead, Zenon
<1>3. /\ DOMAIN x.toClient = 1..n /\ n >= 1
      /\ (x.toServer = <<>> <=> m = 0) /\ (x.toClient = <<>> <=> n = 0)
      /\ More(x) \in {0, 1} /\ t = n + More(x) + m /\ 1 \in DOMAIN x.toClient
      /\ x.toClient # <<>>
  <2>1. /\ DOMAIN x.toClient = 1..n /\ (x.toServer = <<>> <=> m = 0) /\ (x.toClient = <<>> <=> n = 0)
        /\ More(x) \in {0, 1} /\ t = n + More(x) + m
    BY <1>1, LinkFields, Zenon
  <2>2. n >= 1
    BY <1>1, Zenon DEF Reads
  <2>3. 1 \in 1..n /\ n # 0
    BY <2>2
  <2> QED BY <2>1, <2>2, <2>3, Zenon
<1>4. /\ y.toServer = x.toServer /\ y.more = x.more /\ y.up = x.up /\ y.left = x.left
      /\ y.inData = x.inData /\ y.rcpts = x.rcpts /\ y.accepted = x.accepted /\ y.torn = "no"
  BY Zenon DEF Reads
<1>5. /\ x.torn = "no" => (code = p \/ code = x.toClient[1].code) /\ x.toClient[1].last
      /\ x.torn = "no" /\ p # 0 => code = p
      /\ x.torn # "no" => x.torn = "mid" /\ code \in {450, 550}
  <2>1. ASSUME x.torn = "no" PROVE x.toClient[1].last /\ code = IF p = 0 THEN x.toClient[1].code ELSE p
    <3>1. x.torn # "mid"
      BY <2>1
    <3> QED BY <2>1, <3>1, Zenon DEF Ends
  <2>2. CASE x.torn = "no"
    BY <2>1, <2>2, Zenon
  <2>3. CASE x.torn # "no"
    BY <2>3, Zenon DEF Ends
  <2> QED BY <2>2, <2>3
<1>6. /\ Whole(x) => Whole(y)
      /\ NoBody(x) => NoBody(y)
      /\ NoGoAhead(x, p) => NoGoAhead(y, 0)
  BY ReadKeepsOrder, Zenon
<1>7. ASSUME InStep(x, s, TRUE, p, r)
      PROVE  ToCome(y) = 0 /\ Meant(x, s, r, code)
  <2>0. x.torn = "no"
    BY <1>7, Zenon DEF InStep
  <2>1. ~ Asked(x, s, p, r)
    BY <1>3, Zenon DEF Asked
  <2>2. PICK c \in Codes : ReplyLeft(x, p, c) /\ Meant(x, s, r, c)
    BY <1>7, <2>1, Zenon DEF InStep
  <2>3. /\ p \in {0, c}
        /\ x.toClient[1].code = c /\ (x.toClient[1].last <=> 1 = t)
    BY <1>1, <1>3, <2>2, Zenon DEF ReplyLeft
  <2>4. t = 1
    BY <1>5, <2>0, <2>3, Zenon
  <2>5. code = c
    BY <1>5, <2>0, <2>3 DEF Codes
  <2> QED BY <1>2, <2>2, <2>4, <2>5
<1>8. ASSUME Behind(x, TRUE) PROVE Behind(y, FALSE) /\ ToCome(y) >= 1
  <2>1. t >= 2
    <3>1. CASE x.torn = "no"
      <4>1. Stale(x)
        BY <1>8, <3>1, Zenon DEF Behind
      <4>2. \/ \E i \in 1..n : i < t
            \/ More(x) + m >= 2
        BY <1>1, <1>3, <4>1, Zenon DEF Stale
      <4> QED BY <1>3, <4>2
    <3>2. CASE x.torn # "no"
      <4>1. x.torn # "lf"
        BY <1>5, <3>2
      <4>2. StaleRest(x, 1)
        BY <1>8, <3>2, <4>1, Zenon DEF Behind
      <4> QED BY <1>1, <4>2, RestStale
    <3> QED BY <3>1, <3>2
  <2>2. ToCome(y) >= 1
    BY <1>2, <2>1
  <2> QED BY <1>4, <2>2, Zenon DEF Behind
<1>9. ASSUME Knows(x, s, TRUE, p, r)
      PROVE  \/ Behind(y, FALSE) /\ ToCome(y) >= 1
             \/ /\ Successes(r) \subseteq x.rcpts
                /\ code \in {450, 550} \/ Meant(x, s, r, code)
  <2>1. CASE Behind(x, TRUE)
    BY <1>8, <2>1, Zenon
  <2>2. CASE ~ Behind(x, TRUE)
    <3>1. Successes(r) \subseteq x.rcpts /\ Sound(x, s, TRUE, p, r)
      BY <1>9, <2>2, Zenon DEF Knows
    <3>2. CASE x.torn # "no"
      BY <1>5, <3>1, <3>2, Zenon
    <3>3. CASE x.torn = "no" /\ p \in {450, 550}
      <4>1. p # 0
        BY <3>3
      <4> QED BY <1>5, <3>1, <3>3, <4>1, ZenonT(60)
    <3>4. CASE x.torn = "no" /\ InStep(x, s, TRUE, p, r)
      BY <1>7, <3>1, <3>4, Zenon
    <3> QED BY <3>1, <3>2, <3>3, <3>4, ZenonT(60) DEF Sound
  <2> QED BY <2>1, <2>2
<1>10. /\ ~ y.left
       /\ y.up => Whole(y)
       /\ s # "Final" => NoBody(y)
  BY <1>4, <1>6, Zenon DEF InUse
<1>11. s \in {"Greeting", "Ehlo", "Helo", "MailFrom"} =>
         NoGoAhead(y, 0) /\ (y.up => y.torn = "no" /\ ToCome(y) = 0)
  BY <1>4, <1>6, <1>7, Zenon DEF InUse
<1>12. ASSUME s = "RcptTo"
       PROVE  /\ NoGoAhead(y, 0)
              /\ y.up => \/ Behind(y, FALSE)
                         \/ Successes(r) \subseteq y.rcpts /\ (code = 250 => Len(r) + 1 \in y.rcpts)
  <2>1. NoGoAhead(x, p) /\ (x.up => Knows(x, s, TRUE, p, r))
    BY <1>12, Zenon DEF InUse
  <2>2. code \in {450, 550} => code # 250
    OBVIOUS
  <2> QED BY <1>4, <1>6, <1>9, <1>12, <2>1, <2>2, Zenon DEF Meant
<1>13. ASSUME s = "Data", code = 354
       PROVE  ToCome(y) = 0 /\ (y.up => y.inData /\ Successes(r) \subseteq y.rcpts)
  <2>1. GoAheadLast(x, p) /\ (x.up => Knows(x, s, TRUE, p, r))
    BY <1>13, Zenon DEF InUse
  <2>2. code \notin {450, 550}
    BY <1>13
  <2>3. x.torn = "no" /\ x.toClient[1].last
    BY <1>5, <2>2, Zenon
  <2>4. GoAhead(x, p, 1)
    <3>1. p = 354 \/ x.toClient[1].code = 354
      <4>1. code = p \/ code = x.toClient[1].code
        BY <1>5, <2>3, Zenon
      <4> QED BY <1>13, <4>1
    <3> QED BY <1>3, <3>1 DEF GoAhead
  <2>5. t = 1
    BY <1>1, <1>3, <2>1, <2>3, <2>4, Zenon DEF GoAheadLast
  <2>6. ToCome(y) = 0 /\ ~ (ToCome(y) >= 1)
    BY <1>2, <2>5
  <2>7. x.up => Successes(r) \subseteq x.rcpts /\ Meant(x, s, r, code)
    BY <1>9, <2>1, <2>2, <2>6, Zenon
  <2> QED BY <1>4, <1>13, <2>6, <2>7, Zenon DEF Meant
<1>14. ASSUME s = "Final", code = 250 PROVE Successes(r) \subseteq y.accepted
  <2>1. BodyUnderWay(x, p, r)
    BY <1>14, Zenon DEF InUse
  <2>2. p = 250 \/ \E i \in DOMAIN x.toClient : x.toClient[i].code = 250
    <3>1. code = p \/ code = x.toClient[1].code
      <4>1. code \notin {450, 550}
        BY <1>14
      <4> QED BY <1>5, <4>1, Zenon
    <3> QED BY <1>3, <1>14, <3>1
  <2> QED BY <1>4, <2>1, <2>2, Zenon DEF BodyUnderWay
<1> QED BY <1>10, <1>11, <1>12, <1>13, <1>14, Zenon DEF AfterReply

\* A line of which the beginning was lost (client.rs:516-535), with its line end gone together with
\* the next one: a client that was behind is still.
LEMMA GarbledRead ==
  ASSUME NEW x \in Links, NEW y \in Links, NEW n \in {1, 2}, Reads(x, y, n),
         x.torn # "no", n = IF x.torn = "lf" THEN 2 ELSE 1,
         NEW p \in Codes \cup {0}, NEW r \in Seq(Classes), Knows(x, "RcptTo", TRUE, p, r)
  PROVE  Settles(y, r)
<1>1. PICK t \in Nat : t = ToCome(x) /\ ToCome(y) = t - n /\ y.torn = "no" /\ y.rcpts = x.rcpts
  BY LinkFields, LinesRead, Zenon DEF Reads
<1>2. CASE Behind(x, TRUE)
  <2>1. t >= n + 1
    <3>1. CASE x.torn = "lf"
      BY <1>1, <1>2, <3>1 DEF Behind
    <3>2. CASE x.torn # "lf"
      <4>1. StaleRest(x, 1)
        BY <1>2, <3>2, Zenon DEF Behind
      <4> QED BY <1>1, <3>2, <4>1, RestStale
    <3> QED BY <3>1, <3>2
  <2>2. ToCome(y) >= 1
    BY <1>1, <2>1
  <2> QED BY <1>1, <2>2, Zenon DEF Settles, Behind
<1>3. CASE Successes(r) \subseteq x.rcpts
  BY <1>1, <1>3, Zenon DEF Settles
<1> QED BY <1>2, <1>3, Zenon DEF Knows

\* The reply does not come in time (client.rs:200-222): it is still to come, and whatever was torn
\* from it the client will not take it for the answer to its next command.
LEMMA TimeoutBehind ==
  ASSUME NEW x \in Links, NEW y \in Links,
         Len(x.toClient) < IF x.torn = "lf" THEN 2 ELSE 1,
         y.toClient = <<>>, y.toServer = x.toServer, y.more = x.more, y.rcpts = x.rcpts,
         NEW p \in Codes \cup {0}, NEW r \in Seq(Classes), Knows(x, "RcptTo", TRUE, p, r)
  PROVE  Settles(y, r)
<1>1. PICK n \in Nat, m \in Nat, t \in Nat, u \in Nat :
        /\ n = Len(x.toClient) /\ m = Len(x.toServer) /\ t = ToCome(x) /\ u = ToCome(y)
  BY LinkFields, Zenon
<1>2. /\ n < IF x.torn = "lf" THEN 2 ELSE 1
      /\ t = n + More(x) + m /\ u = More(x) + m /\ More(x) \in {0, 1}
      /\ (x.toServer = <<>> <=> m = 0) /\ DOMAIN x.toClient = 1..n
  <2>1. /\ t = n + More(x) + m /\ More(x) \in {0, 1} /\ (x.toServer = <<>> <=> m = 0)
        /\ DOMAIN x.toClient = 1..n
    BY <1>1, LinkFields, Zenon
  <2>2. More(y) = More(x)
    BY DEF More
  <2>3. Len(y.toClient) = 0
    OBVIOUS
  <2>4. u = Len(y.toClient) + More(y) + Len(y.toServer)
    BY <1>1, LinkFields, Zenon
  <2>5. u = More(x) + m
    BY <1>1, <2>1, <2>2, <2>3, <2>4
  <2>6. n < IF x.torn = "lf" THEN 2 ELSE 1
    BY <1>1
  <2> QED BY <2>1, <2>5, <2>6, Zenon
<1>3. CASE Behind(x, TRUE)
  <2>1. u >= 2
    <3>1. CASE x.torn = "no"
      <4>1. DOMAIN x.toClient = {}
        BY <1>2, <3>1
      <4>2. More(x) + m >= 2
        BY <1>1, <1>3, <3>1, <4>1, Zenon DEF Behind, Stale
      <4> QED BY <1>2, <4>2
    <3>2. CASE x.torn = "lf"
      <4>1. t >= 3
        BY <1>1, <1>3, <3>2 DEF Behind
      <4> QED BY <1>2, <3>2, <4>1
    <3>3. CASE x.torn # "no" /\ x.torn # "lf"
      <4>1. StaleRest(x, 1)
        BY <1>3, <3>3, Zenon DEF Behind
      <4>2. t >= 3
        BY <1>1, <4>1, RestStale
      <4> QED BY <1>2, <3>3, <4>2
    <3> QED BY <3>1, <3>2, <3>3
  <2>2. More(y) + Len(y.toServer) >= 2 + 0 /\ u >= 1
    <3>1. More(y) = More(x) /\ Len(y.toServer) = m
      BY <1>1 DEF More
    <3> QED BY <1>2, <2>1, <3>1
  <2>3. StaleRest(y, 0)
    BY <2>2, Zenon DEF StaleRest
  <2>4. Behind(y, FALSE)
    BY <1>1, <2>1, <2>2, <2>3, Zenon DEF Behind
  <2> QED BY <2>4, Zenon DEF Settles
<1>4. CASE Successes(r) \subseteq x.rcpts
  BY <1>4, Zenon DEF Settles
<1> QED BY <1>3, <1>4, Zenon DEF Knows

\* The stages with a command to send, and the line the server gets from each (client.rs:281-380).
SendStages == {"Ehlo", "Helo", "MailFrom", "RcptTo", "Data", "Body", "Quit"}

CommandAt(x, s, r) ==
  IF x.cut THEN Command("JUNK")
  ELSE CASE s = "Ehlo"     -> Command("EHLO")
         [] s = "Helo"     -> Command("HELO")
         [] s = "MailFrom" -> Command("MAIL")
         [] s = "RcptTo"   -> RcptTo(Len(r) + 1)
         [] s = "Data"     -> Command("DATA")
         [] s = "Body"     -> Command("BODY")
         [] s = "Quit"     -> Command("QUIT")

\* The connection after that command was sent.
Sent(x, y, s, r) ==
  IF x.up THEN y = [x EXCEPT !.toServer = Append(x.toServer, CommandAt(x, s, r)), !.cut = FALSE]
          ELSE y = x

\* A command sent to a server that is up waits behind those before it, and the client for its
\* answer behind theirs; one that is not up gets nothing (client.rs:281-380).
LEMMA SendKeeps ==
  ASSUME NEW x \in Links, NEW y \in Links, NEW r \in Seq(Classes), NEW s \in SendStages,
         InUse(x, s, FALSE, 0, r),
         Sent(x, y, s, r)
  PROVE  /\ InUse(y, IF s = "Body" THEN "Final" ELSE s, TRUE, 0, r)
         /\ BodyAlone(x) => BodyAlone(y)
<1> DEFINE command == CommandAt(x, s, r)
           next    == IF s = "Body" THEN "Final" ELSE s
<1>0. s \in {"Ehlo", "Helo", "MailFrom", "RcptTo", "Data", "Body", "Quit"}
  BY Zenon DEF SendStages
<1>1. PICK n \in Nat, m \in Nat, t \in Nat :
        /\ n = Len(x.toClient) /\ m = Len(x.toServer) /\ t = ToCome(x)
  BY LinkFields, Zenon
<1>2. /\ t = n + More(x) + m /\ More(x) \in {0, 1}
      /\ DOMAIN x.toClient = 1..n /\ DOMAIN x.toServer = 1..m
      /\ (x.toServer = <<>> <=> m = 0) /\ (x.toClient = <<>> <=> n = 0)
      /\ (More(x) = 0 <=> x.more = 0)
  BY <1>1, LinkFields, Zenon
<1>3. /\ ~ x.left
      /\ x.up => Whole(x)
      /\ NoBody(x)
      /\ s \in {"Ehlo", "Helo", "MailFrom"} =>
           NoGoAhead(x, 0) /\ (x.up => InStep(x, s, FALSE, 0, r))
      /\ s = "RcptTo" => NoGoAhead(x, 0) /\ (x.up => Knows(x, s, FALSE, 0, r))
      /\ s = "Data" => NoGoAhead(x, 0) /\ (x.up => Knows(x, s, FALSE, 0, r))
      /\ s = "Body" => ToCome(x) = 0 /\ (x.up => x.inData /\ Successes(r) \subseteq x.rcpts)
      /\ s = "Quit" => Successes(r) \subseteq x.accepted
  <2>1. s # "Final"
    BY <1>0
  <2> QED BY <2>1, Zenon DEF InUse
<1>4. next # "Final" <=> s # "Body"
  BY <1>0
<1>5. CASE ~ x.up
  <2>1. y = x
    BY <1>5, Zenon DEF Sent
  <2>2. NoGoAhead(x, 0) => GoAheadLast(x, 0)
    <3> SUFFICES ASSUME NoGoAhead(x, 0) PROVE GoAheadLast(x, 0)
      OBVIOUS
    <3>1. \A i \in DOMAIN x.toClient : x.toClient[i].code # 354
      BY DEF NoGoAhead
    <3>2. \A i \in DOMAIN x.toClient : ~ GoAhead(x, 0, i)
      BY <3>1 DEF GoAhead
    <3>3. \A i \in DOMAIN x.toServer : x.toServer[i].verb # "DATA"
      BY Zenon DEF NoGoAhead
    <3>4. x.more # 354 /\ 0 # 354
      BY DEF NoGoAhead
    <3> QED BY <3>1, <3>2, <3>3, <3>4 DEF GoAheadLast
  <2>3. s = "Body" => BodyUnderWay(x, 0, r)
    <3> SUFFICES ASSUME s = "Body" PROVE BodyUnderWay(x, 0, r)
      OBVIOUS
    <3>1. n = 0 /\ m = 0 /\ More(x) = 0
      BY <1>1, <1>2, <1>3
    <3>2. DOMAIN x.toClient = {} /\ x.toServer = <<>> /\ x.more = 0
      BY <1>2, <3>1
    <3>3. 0 # 250
      OBVIOUS
    <3> QED BY <3>2, <3>3, Zenon DEF BodyUnderWay
  <2>4. InUse(x, next, TRUE, 0, r)
    BY <1>3, <1>5, <2>2, <2>3, Zenon DEF InUse
  <2> QED BY <2>1, <2>4
<1>6. CASE x.up
  <2>1. y = [x EXCEPT !.toServer = Append(x.toServer, command), !.cut = FALSE]
    BY <1>6, Zenon DEF Sent
  <2>2. /\ y.toClient = x.toClient /\ y.more = x.more /\ y.torn = x.torn /\ y.up = x.up
        /\ y.left = x.left /\ y.inData = x.inData /\ y.rcpts = x.rcpts /\ y.accepted = x.accepted
        /\ y.toServer = Append(x.toServer, command)
    BY <2>1 DEF Links
  <2>0. /\ s = "RcptTo" => command \in {RcptTo(Len(r) + 1), Command("JUNK")}
        /\ s = "Body" => command \in {Command("BODY"), Command("JUNK")}
        /\ s # "Body" => command.verb # "BODY"
        /\ s # "Data" => command.verb # "DATA"
    <3>1. CASE x.cut
      <4>1. command = Command("JUNK")
        BY <3>1 DEF CommandAt
      <4> QED BY <4>1 DEF Command
    <3>2. CASE ~ x.cut
      BY <1>0, <3>2 DEF CommandAt, Command, RcptTo
    <3> QED BY <3>1, <3>2
  <2> HIDE DEF command, next
  <2>3. /\ Len(y.toServer) = m + 1 /\ DOMAIN y.toServer = 1..(m + 1)
        /\ y.toServer[m + 1] = command
        /\ \A i \in 1..m : y.toServer[i] = x.toServer[i]
    <3>1. x.toServer \in Seq([verb : Verbs, rcpt : Recipients \cup {0}])
      BY LinkFields, Zenon
    <3>2. command \in [verb : Verbs, rcpt : Recipients \cup {0}]
      <4>1. Append(x.toServer, command) \in Seq([verb : Verbs, rcpt : Recipients \cup {0}])
        BY <2>2, LinkFields, Zenon
      <4>2. Len(x.toServer) \in Nat /\ Append(x.toServer, command)[Len(x.toServer) + 1] = command
            /\ Len(Append(x.toServer, command)) = Len(x.toServer) + 1
        BY <3>1
      <4> QED BY <4>1, <4>2
    <3>3. /\ Len(y.toServer) = Len(x.toServer) + 1
          /\ \A i \in 1..Len(x.toServer) : y.toServer[i] = x.toServer[i]
          /\ y.toServer[Len(x.toServer) + 1] = command
      BY <2>2, <3>1, <3>2, AppendProperties
    <3>4. DOMAIN y.toServer = 1..Len(y.toServer)
      BY LinkFields, Zenon
    <3> QED BY <1>1, <3>3, <3>4, Zenon
  <2>4. ToCome(y) = t + 1 /\ More(y) = More(x) /\ DOMAIN y.toClient = DOMAIN x.toClient
        /\ Len(y.toClient) = n
    <3>1. More(y) = More(x) /\ Len(y.toClient) = n /\ DOMAIN y.toClient = DOMAIN x.toClient
      BY <1>1, <2>2, Zenon DEF More
    <3>2. ToCome(y) = n + More(x) + (m + 1)
      BY <2>3, <3>1, LinkFields, Zenon
    <3>3. PICK one \in {0, 1} : one = More(x)
      BY <1>2, Zenon
    <3>4. t = n + one + m /\ ToCome(y) = n + one + (m + 1)
      BY <1>2, <3>2, <3>3, Zenon
    <3>5. ToCome(y) = t + 1
      BY <3>4
    <3> QED BY <3>1, <3>5, Zenon
  <2>5. \A i \in DOMAIN y.toServer :
          \/ i = m + 1 /\ y.toServer[i] = command
          \/ i \in DOMAIN x.toServer /\ y.toServer[i] = x.toServer[i]
    <3> SUFFICES ASSUME NEW i \in 1..(m + 1)
                 PROVE  \/ i = m + 1 /\ y.toServer[i] = command
                        \/ i \in 1..m /\ y.toServer[i] = x.toServer[i]
      BY <1>2, <2>3
    <3>1. i = m + 1 \/ i \in 1..m
      OBVIOUS
    <3> QED BY <2>3, <3>1
  <2>6. Whole(y) /\ ~ y.left
    BY <1>3, <1>6, <2>2, Zenon DEF Whole
  <2>7. ASSUME s # "Body" PROVE NoBody(y) /\ BodyAlone(y)
    <3>1. command.verb # "BODY"
      BY <2>0, <2>7, Zenon
    <3>2. NoBody(y)
      BY <1>3, <2>5, <3>1, Zenon DEF NoBody
    <3> QED BY <3>2, Zenon DEF BodyAlone
  <2>8. ASSUME s \in {"Ehlo", "Helo", "MailFrom", "RcptTo"} PROVE NoGoAhead(y, 0)
    <3>1. command.verb # "DATA"
      BY <2>0, <2>8
    <3>2. NoGoAhead(x, 0)
      BY <1>3, <2>8
    <3>3. \A i \in DOMAIN y.toServer : y.toServer[i].verb # "DATA"
      <4>1. \A i \in DOMAIN x.toServer : x.toServer[i].verb # "DATA"
        BY <3>2, Zenon DEF NoGoAhead
      <4> QED BY <2>5, <3>1, <4>1
    <3>4. /\ \A i \in DOMAIN y.toClient : y.toClient[i].code # 354
          /\ y.more # 354 /\ 0 # 354
      BY <2>2, <3>2 DEF NoGoAhead
    <3> QED BY <3>3, <3>4, Zenon DEF NoGoAhead
  <2>9. ASSUME x.torn = "no", t = 0 PROVE InStep(y, s, TRUE, 0, r)
    <3>1. n = 0 /\ m = 0 /\ More(x) = 0
      BY <1>2, <2>9
    <3>2. y.toClient = <<>> /\ y.more = 0 /\ Len(y.toServer) = 1 /\ y.toServer[1] = command
      BY <1>2, <2>2, <2>3, <3>1
    <3>3. s = "RcptTo" => command \in {RcptTo(Len(r) + 1), Command("JUNK")}
      BY <2>0, Zenon
    <3>4. Asked(y, s, 0, r)
      BY <3>2, <3>3, Zenon DEF Asked
    <3> QED BY <2>2, <2>9, <3>4, Zenon DEF InStep
  <2>10. ASSUME Behind(x, FALSE) PROVE Behind(y, TRUE)
    <3>2. CASE x.torn = "no"
      <4>0. t >= 1
        BY <1>1, <2>10, <3>2, Zenon DEF Behind
      <4>1. CASE More(x) + m >= 1
        <5>1. More(y) + Len(y.toServer) >= 2
          BY <1>2, <2>3, <2>4, <4>1
        <5> QED BY <2>2, <3>2, <5>1, Zenon DEF Behind, Stale
      <4>2. CASE ~ (More(x) + m >= 1)
        <5>1. More(x) = 0 /\ m = 0 /\ n >= 1
          BY <1>2, <4>0, <4>2
        <5>2. n # 0 /\ n \in 1..n /\ n < ToCome(y)
          BY <1>2, <2>4, <5>1
        <5>3. y.toClient[n].last
          BY <1>1, <1>2, <1>3, <1>6, <2>2, <5>1, <5>2, Zenon DEF Whole
        <5>4. Stale(y)
          BY <1>2, <2>4, <5>2, <5>3, Zenon DEF Stale
        <5> QED BY <2>2, <3>2, <5>4, Zenon DEF Behind
      <4> QED BY <4>1, <4>2
    <3>3. CASE x.torn = "lf"
      <4>1. t >= 2
        BY <1>1, <2>10, <3>3 DEF Behind
      <4>2. ToCome(y) >= 3
        BY <2>4, <4>1
      <4> QED BY <2>2, <3>3, <4>2 DEF Behind
    <3>4. CASE x.torn # "no" /\ x.torn # "lf"
      <4>1. StaleRest(x, 0)
        BY <2>10, <3>4, Zenon DEF Behind
      <4>2. CASE n = 0
        <5>1. More(x) + m >= 2 + 0
          BY <1>1, <1>2, <4>1, <4>2, Zenon DEF StaleRest
        <5>2. More(y) + Len(y.toServer) >= 2 + 1
          BY <1>2, <2>3, <2>4, <5>1
        <5>3. y.toClient = <<>>
          BY <1>2, <2>2, <4>2
        <5>4. StaleRest(y, 1)
          BY <5>2, <5>3, Zenon DEF StaleRest
        <5> QED BY <2>2, <3>4, <5>4, Zenon DEF Behind
      <4>3. CASE n # 0
        <5>1. \/ More(x) + m >= 1 + 0
              \/ \E i \in DOMAIN x.toClient : i >= 2 /\ x.toClient[i].last /\ i + 0 <= t
          BY <1>1, <1>2, <4>1, <4>3, Zenon DEF StaleRest
        <5>2. y.toClient # <<>>
          BY <1>2, <2>2, <4>3
        <5>3. CASE More(x) + m >= 1 + 0
          <6>1. More(y) + Len(y.toServer) >= 1 + 1
            BY <1>2, <2>3, <2>4, <5>3
          <6> QED BY <2>2, <3>4, <5>2, <6>1, Zenon DEF Behind, StaleRest
        <5>4. CASE \E i \in DOMAIN x.toClient : i >= 2 /\ x.toClient[i].last /\ i + 0 <= t
          <6>1. PICK i \in DOMAIN x.toClient : i >= 2 /\ x.toClient[i].last /\ i + 0 <= t
            BY <5>4
          <6>2. i + 1 <= ToCome(y)
            BY <1>2, <2>4, <6>1
          <6>3. i \in DOMAIN y.toClient /\ y.toClient[i].last
            BY <2>2, <6>1, Zenon
          <6>4. StaleRest(y, 1)
            BY <5>2, <6>1, <6>2, <6>3, Zenon DEF StaleRest
          <6> QED BY <2>2, <3>4, <6>4, Zenon DEF Behind
        <5> QED BY <5>1, <5>3, <5>4
      <4> QED BY <4>2, <4>3
    <3> QED BY <3>2, <3>3, <3>4
  <2>11. ASSUME Knows(x, s, FALSE, 0, r) PROVE Knows(y, s, TRUE, 0, r)
    <3>1. CASE Behind(x, FALSE)
      BY <2>10, <3>1, Zenon DEF Knows
    <3>2. CASE ~ Behind(x, FALSE)
      <4>1. Successes(r) \subseteq y.rcpts
        BY <2>2, <2>11, <3>2, Zenon DEF Knows
      <4>2. ASSUME y.torn = "no" PROVE InStep(y, s, TRUE, 0, r)
        <5>1. x.torn = "no" /\ ~ (t >= 1)
          BY <1>1, <2>2, <3>2, <4>2, Zenon DEF Behind
        <5>2. t = 0
          BY <1>1, <5>1
        <5> QED BY <2>9, <5>1, <5>2
      <4> QED BY <4>1, <4>2, Zenon DEF Knows, Sound
    <3> QED BY <3>1, <3>2
  <2>12. ASSUME s = "Data" PROVE GoAheadLast(y, 0)
    <3>1. NoGoAhead(x, 0)
      BY <1>3, <2>12
    <3>2. \A i \in DOMAIN y.toServer : y.toServer[i].verb = "DATA" => i = Len(y.toServer)
      <4>1. \A i \in DOMAIN x.toServer : x.toServer[i].verb # "DATA"
        BY <3>1, Zenon DEF NoGoAhead
      <4> QED BY <2>3, <2>5, <4>1
    <3>3. /\ \A i \in DOMAIN y.toClient : y.toClient[i].code # 354
          /\ y.more # 354 /\ 0 # 354
      BY <2>2, <3>1 DEF NoGoAhead
    <3>4. \A i \in DOMAIN y.toClient : ~ GoAhead(y, 0, i)
      BY <3>3 DEF GoAhead
    <3> QED BY <3>2, <3>3, <3>4, Zenon DEF GoAheadLast
  <2>13. ASSUME s = "Body" PROVE BodyUnderWay(y, 0, r) /\ BodyAlone(y)
    <3>1. n = 0 /\ m = 0 /\ More(x) = 0
      BY <1>1, <1>2, <1>3, <2>13
    <3>2. y.toClient = <<>> /\ y.more = 0 /\ DOMAIN y.toClient = {}
      BY <1>2, <2>2, <3>1
    <3>3. command \in {Command("BODY"), Command("JUNK")} /\ y.toServer = <<command>>
      <4>1. command \in {Command("BODY"), Command("JUNK")}
        BY <2>0, <2>13, Zenon
      <4>2. x.toServer = <<>>
        BY <1>2, <3>1
      <4> QED BY <2>2, <4>1, <4>2
    <3>4. y.inData /\ Successes(r) \subseteq y.rcpts
      BY <1>3, <1>6, <2>2, <2>13
    <3>5. 0 # 250
      OBVIOUS
    <3>6. BodyUnderWay(y, 0, r)
      <4>1. y.toServer \in {<<Command("BODY")>>, <<Command("JUNK")>>}
        BY <3>3
      <4> QED BY <3>2, <3>4, <3>5, <4>1, Zenon DEF BodyUnderWay
    <3>7. BodyAlone(y)
      <4>1. CASE y.toServer = <<Command("BODY")>>
        BY <3>4, <4>1, Zenon DEF BodyAlone
      <4>2. CASE y.toServer = <<Command("JUNK")>>
        <5>1. \A i \in DOMAIN y.toServer : y.toServer[i].verb # "BODY"
          BY <4>2 DEF Command
        <5> QED BY <5>1, Zenon DEF BodyAlone, NoBody
      <4> QED BY <3>3, <4>1, <4>2
    <3> QED BY <3>6, <3>7
  <2>14. ASSUME s = "Body" PROVE InUse(y, next, TRUE, 0, r)
    <3>1. next = "Final"
      BY <2>14 DEF next
    <3> QED BY <2>6, <2>13, <2>14, <3>1, Zenon DEF InUse
  <2>15. ASSUME s # "Body" PROVE InUse(y, next, TRUE, 0, r)
    <3>1. next = s
      BY <2>15 DEF next
    <3>2. s \in {"Ehlo", "Helo", "MailFrom"} => InStep(y, s, TRUE, 0, r)
      BY <1>1, <1>3, <1>6, <2>9, Zenon DEF InStep
    <3>3. s \in {"Ehlo", "Helo", "MailFrom"} => NoGoAhead(y, 0) /\ InStep(y, s, TRUE, 0, r)
      BY <2>8, <3>2, Zenon
    <3>4. /\ s = "RcptTo" => NoGoAhead(y, 0) /\ Knows(y, s, TRUE, 0, r)
          /\ s = "Data" => GoAheadLast(y, 0) /\ Knows(y, s, TRUE, 0, r)
      BY <1>3, <1>6, <2>8, <2>11, <2>12, Zenon
    <3>5. s = "Quit" => Successes(r) \subseteq y.accepted
      BY <1>3, <2>2
    <3>6. s # "Greeting" /\ s # "Final"
      BY <1>0
    <3>7. InUse(y, s, TRUE, 0, r)
      BY <2>6, <2>7, <2>15, <3>3, <3>4, <3>5, <3>6, Zenon DEF InUse
    <3> QED BY <3>1, <3>7, Zenon
  <2> QED BY <2>7, <2>13, <2>14, <2>15 DEF next
<1> QED BY <1>5, <1>6

-----------------------------------------------------------------------------

\* The answer to a command (client.rs:408-466), as an arrival.
LEMMA AnswerArrives ==
  ASSUME NEW x \in Links, x.up, x.more = 0, x.toServer # <<>>,
         NEW code, code \in Answers(x, Head(x.toServer)), NEW last \in BOOLEAN,
         NEW y, y = Reply(Served(x, Head(x.toServer), code), code, last)
  PROVE  /\ code \in Codes
         /\ y.toServer = Tail(x.toServer) /\ y.inData = (code = 354) /\ y.left = x.left
         /\ x.accepted \subseteq y.accepted
         /\ ~ x.left => Answered(x, y, code) /\ Arrives(x, y, code, IF last THEN 0 ELSE code)
<1> DEFINE command == Head(x.toServer)
           z == Served(x, command, code)
<1>0. y = Reply(z, code, last)
  OBVIOUS
<1>1. code \in Codes
  BY DEF Answers, Codes
<1>2. /\ z.up = x.up /\ z.left = x.left /\ z.torn = x.torn /\ z.toClient = x.toClient
      /\ z.more = x.more /\ z.toServer = Tail(x.toServer) /\ z.inData = (code = 354)
      /\ z.rcpts = IF command.verb = "RCPT" /\ code = 250
                   THEN x.rcpts \cup Whom(x, command) ELSE x.rcpts
      /\ z.accepted = IF command.verb = "BODY" /\ code = 250
                      THEN x.accepted \cup Whom(x, command) ELSE x.accepted
  <2> DEFINE whom     == Whom(x, command)
             tail     == Tail(x.toServer)
             asked    == code = 354
             rcpts    == IF command.verb = "RCPT" /\ code = 250 THEN x.rcpts \cup whom ELSE x.rcpts
             accepted == IF command.verb = "BODY" /\ code = 250 THEN x.accepted \cup whom
                                                                 ELSE x.accepted
             refused  == IF code = 550 THEN x.refused \cup whom ELSE x.refused
  <2>1. z = [x EXCEPT !.toServer = tail, !.inData = asked, !.rcpts = rcpts,
                      !.accepted = accepted, !.refused = refused]
    BY DEF z, Served
  <2> HIDE DEF whom, tail, asked, rcpts, accepted, refused, command, z
  <2>2. /\ z.up = x.up /\ z.left = x.left /\ z.torn = x.torn /\ z.toClient = x.toClient
        /\ z.more = x.more /\ z.toServer = tail /\ z.inData = asked
        /\ z.rcpts = rcpts /\ z.accepted = accepted
    BY <2>1 DEF Links
  <2> QED BY <2>2, Zenon DEF whom, tail, asked, rcpts, accepted
<1> HIDE DEF z
<1>3. /\ z.rcpts = IF command.verb = "RCPT" /\ code = 250
                   THEN x.rcpts \cup ({command.rcpt} \ {0}) ELSE x.rcpts
      /\ z.accepted = IF command.verb = "BODY" /\ code = 250
                      THEN x.accepted \cup x.rcpts ELSE x.accepted
  <2>1. command.verb = "RCPT" => Whom(x, command) = {command.rcpt} \ {0}
    BY DEF Whom
  <2>2. command.verb = "BODY" => Whom(x, command) = x.rcpts
    BY DEF Whom
  <2> HIDE DEF command
  <2>3. z.rcpts = IF command.verb = "RCPT" /\ code = 250
                  THEN x.rcpts \cup ({command.rcpt} \ {0}) ELSE x.rcpts
    <3>1. z.rcpts = IF command.verb = "RCPT" /\ code = 250
                    THEN x.rcpts \cup Whom(x, command) ELSE x.rcpts
      BY <1>2
    <3>2. CASE command.verb = "RCPT"
      BY <2>1, <3>1, <3>2
    <3>3. CASE command.verb # "RCPT"
      BY <3>1, <3>3
    <3> QED BY <3>2, <3>3
  <2>4. z.accepted = IF command.verb = "BODY" /\ code = 250
                     THEN x.accepted \cup x.rcpts ELSE x.accepted
    BY <1>2, <2>2, ZenonT(60)
  <2> QED BY <2>3, <2>4, Zenon
<1>4. x.accepted \subseteq z.accepted
  BY <1>3
<1>5. DOMAIN z = DOMAIN x
  BY DEF z, Served, Links
<1>6. CASE x.left
  <2>1. z.left
    BY <1>2, <1>6
  <2>2. y = z
    BY <1>0, <2>1, Zenon DEF Reply
  <2>3. y.toServer = Tail(x.toServer) /\ y.left = x.left /\ x.accepted \subseteq y.accepted
    BY <1>2, <1>4, <2>2
  <2>4. y.inData = (code = 354)
    <3>1. z.inData = (code = 354)
      BY <1>2, Zenon
    <3> QED BY <2>2, <3>1, Zenon
  <2> QED BY <1>1, <1>6, <2>3, <2>4
<1>7. CASE ~ x.left
  <2>1. y = [z EXCEPT !.toClient = Append(z.toClient, Line(code, last)), !.more = IF last THEN 0 ELSE code]
    <3>1. ~ z.left
      BY <1>2, <1>7
    <3> QED BY <1>0, <3>1, Zenon DEF Reply
  <2>2. /\ y.up = z.up /\ y.left = z.left /\ y.torn = z.torn /\ y.toServer = z.toServer
        /\ y.inData = z.inData /\ y.rcpts = z.rcpts /\ y.accepted = z.accepted
        /\ y.toClient = Append(z.toClient, Line(code, last)) /\ y.more = IF last THEN 0 ELSE code
    BY <1>5, <2>1 DEF Links
  <2>3. last = ((IF last THEN 0 ELSE code) = 0)
    BY <1>1 DEF Codes
  <2>4. Arrives(x, y, code, IF last THEN 0 ELSE code)
    <3>1. Line(code, last) = Line(code, (IF last THEN 0 ELSE code) = 0)
      BY <2>3, Zenon
    <3>2. (IF last THEN 0 ELSE code) \in {0, code}
      BY Zenon
    <3>3. x.up /\ y.up /\ ~ y.left /\ y.torn = x.torn
      <4>1. y.up = z.up /\ y.left = z.left /\ y.torn = z.torn
        BY <2>2
      <4>2. z.up = x.up /\ z.left = x.left /\ z.torn = x.torn
        BY <1>2
      <4>3. y.up = x.up
        BY <4>1, <4>2
      <4>4. y.left = x.left
        BY <4>1, <4>2
      <4>5. y.torn = x.torn
        BY <4>1, <4>2
      <4>6. y.up
        BY <4>3
      <4>7. ~ y.left
        BY <1>7, <4>4
      <4> QED BY <4>5, <4>6, <4>7
    <3>4. y.toClient = Append(x.toClient, Line(code, (IF last THEN 0 ELSE code) = 0))
      BY <1>2, <2>2, <3>1, Zenon
    <3>5. y.more = IF last THEN 0 ELSE code
      BY <2>2, Zenon
    <3> QED BY <3>2, <3>3, <3>4, <3>5, Zenon DEF Arrives
  <2>5. Answered(x, y, code)
    <3>1. y.toServer = Tail(x.toServer) /\ y.inData = (code = 354)
      <4>1. y.toServer = z.toServer /\ y.inData = z.inData
        BY <2>2
      <4>2. z.toServer = Tail(x.toServer) /\ z.inData = (code = 354)
        BY <1>2
      <4>3. y.toServer = Tail(x.toServer)
        BY <4>1, <4>2
      <4>4. y.inData = (code = 354)
        BY <4>1, <4>2
      <4> QED BY <4>3, <4>4
    <3>2. y.rcpts = IF Head(x.toServer).verb = "RCPT" /\ code = 250
                    THEN x.rcpts \cup ({Head(x.toServer).rcpt} \ {0}) ELSE x.rcpts
      BY <1>3, <2>2
    <3>3. y.accepted = IF Head(x.toServer).verb = "BODY" /\ code = 250
                       THEN x.accepted \cup x.rcpts ELSE x.accepted
      BY <1>3, <2>2
    <3> QED BY <3>1, <3>2, <3>3, Zenon DEF Answered
  <2> QED BY <1>1, <1>2, <1>4, <1>7, <2>2, <2>4, <2>5
<1> QED BY <1>6, <1>7

\* One more line of a reply, as an arrival (client.rs:516-540).
LEMMA AnswerOnArrives ==
  ASSUME NEW x \in Links, x.up, x.more # 0, NEW last \in BOOLEAN,
         NEW y, y = Reply(x, x.more, last),
         NEW more \in Codes \cup {0}, more = IF last THEN 0 ELSE x.more
  PROVE  /\ y.toServer = x.toServer /\ y.inData = x.inData /\ y.accepted = x.accepted
         /\ x.more \in Codes
         /\ ~ x.left => AnsweredOn(x, y, x.more, more) /\ Arrives(x, y, x.more, more)
<1>1. x.more \in Codes
  BY DEF Links
<1>2. CASE x.left
  BY <1>1, <1>2 DEF Reply
<1>3. CASE ~ x.left
  <2>1. y = [x EXCEPT !.toClient = Append(x.toClient, Line(x.more, last)), !.more = more]
    BY <1>3, Zenon DEF Reply
  <2>2. /\ y.up = x.up /\ y.left = x.left /\ y.torn = x.torn /\ y.toServer = x.toServer
        /\ y.inData = x.inData /\ y.rcpts = x.rcpts /\ y.accepted = x.accepted
        /\ y.toClient = Append(x.toClient, Line(x.more, last)) /\ y.more = more
    BY <2>1 DEF Links
  <2>3. Line(x.more, last) = Line(x.more, more = 0)
    <3>1. last = (more = 0)
      <4>1. more = 0 <=> last
        BY <1>1
      <4>2. (more = 0) \in BOOLEAN
        BY Zenon
      <4> QED BY <4>1, <4>2, Zenon
    <3> QED BY <3>1, Zenon
  <2>4. Arrives(x, y, x.more, more)
    <3>1. more \in {0, x.more}
      OBVIOUS
    <3> QED BY <1>3, <2>2, <2>3, <3>1, Zenon DEF Arrives
  <2> QED BY <1>1, <2>2, <2>4, Zenon DEF AnsweredOn
<1> QED BY <1>2, <1>3

\* A connection that is closed: nothing more arrives, and what arrived may be cut short.
LEMMA CloseKeeps ==
  ASSUME NEW x \in Links, NEW y \in Links, NEW n, n \in 0..Len(x.toClient),
         y = [x EXCEPT !.up = FALSE, !.toServer = <<>>, !.more = 0,
                       !.toClient = SubSeq(x.toClient, 1, n)]
  PROVE  /\ BodyAlone(y) /\ y.accepted = x.accepted
         /\ \A s \in Stages, w \in BOOLEAN, p \in Codes \cup {0}, r \in Seq(Classes) :
              InUse(x, s, w, p, r) => InUse(y, s, w, p, r)
<1>1. /\ y.up = FALSE /\ y.toServer = <<>> /\ y.more = 0 /\ y.toClient = SubSeq(x.toClient, 1, n)
      /\ y.left = x.left /\ y.inData = x.inData /\ y.rcpts = x.rcpts /\ y.accepted = x.accepted
      /\ y.torn = x.torn
  BY DEF Links
<1>2. /\ n \in Nat /\ n <= Len(x.toClient) /\ Len(x.toClient) \in Nat
      /\ DOMAIN x.toClient = 1..Len(x.toClient) /\ DOMAIN y.toServer = {}
  BY <1>1, LinkFields
<1>3. /\ Len(y.toClient) = n
      /\ \A i \in DOMAIN y.toClient : i \in DOMAIN x.toClient /\ y.toClient[i] = x.toClient[i]
  <2>1. \A i \in 1..n : x.toClient[i] \in [code : Codes, last : BOOLEAN]
    <3>1. x.toClient \in Seq([code : Codes, last : BOOLEAN])
      BY LinkFields, Zenon
    <3>2. \A i \in 1..Len(x.toClient) : x.toClient[i] \in [code : Codes, last : BOOLEAN]
      BY <3>1, ElementOfSeq, Zenon
    <3> QED BY <1>2, <3>2
  <2>2. /\ Len(y.toClient) = IF 1 <= n THEN n - 1 + 1 ELSE 0
        /\ \A i \in 1..(n - 1 + 1) : y.toClient[i] = x.toClient[1 + i - 1]
    <3>1. 1 \in Int /\ n \in Int
      BY <1>2
    <3> QED BY <1>1, <2>1, <3>1, SubSeqProperties
  <2>3. Len(y.toClient) = n
    BY <1>2, <2>2
  <2>4. DOMAIN y.toClient = 1..n
    BY <2>3, LinkFields, Zenon
  <2>5. \A i \in 1..n : y.toClient[i] = x.toClient[i] /\ i \in 1..Len(x.toClient)
    <3> SUFFICES ASSUME NEW i \in 1..n
                 PROVE  y.toClient[i] = x.toClient[i] /\ i \in 1..Len(x.toClient)
      OBVIOUS
    <3>1. i \in 1..(n - 1 + 1) /\ 1 + i - 1 = i /\ i \in 1..Len(x.toClient)
      BY <1>2
    <3> QED BY <2>2, <3>1
  <2> QED BY <1>2, <2>3, <2>4, <2>5, Zenon
<1>4. ToCome(y) = n /\ n <= ToCome(x)
  <2>1. More(y) = 0 /\ Len(y.toServer) = 0 /\ ToCome(y) = Len(y.toClient) + More(y) + Len(y.toServer)
    BY <1>1, LinkFields DEF More
  <2>2. ToCome(x) = Len(x.toClient) + More(x) + Len(x.toServer) /\ More(x) \in {0, 1}
        /\ Len(x.toServer) \in Nat
    BY LinkFields
  <2> QED BY <1>2, <1>3, <2>1, <2>2
<1>5. NoBody(y) /\ BodyAlone(y)
  BY <1>2, Zenon DEF NoBody, BodyAlone
<1>6. ASSUME NEW s \in Stages, NEW w \in BOOLEAN, NEW p \in Codes \cup {0}, NEW r \in Seq(Classes),
             InUse(x, s, w, p, r)
      PROVE  InUse(y, s, w, p, r)
  <2>1. ASSUME NoGoAhead(x, p) PROVE NoGoAhead(y, p)
    <3>1. 0 # 354
      OBVIOUS
    <3>2. \A i \in DOMAIN y.toClient : y.toClient[i].code # 354
      BY <1>3, <2>1 DEF NoGoAhead
    <3>3. \A i \in DOMAIN y.toServer : y.toServer[i].verb # "DATA"
      BY <1>2, Zenon
    <3>4. y.more # 354 /\ p # 354
      BY <1>1, <2>1, <3>1 DEF NoGoAhead
    <3> QED BY <3>2, <3>3, <3>4, Zenon DEF NoGoAhead
  <2>2. ASSUME GoAheadLast(x, p) PROVE GoAheadLast(y, p)
    <3>1. \A i \in DOMAIN y.toClient : GoAhead(y, p, i) /\ y.toClient[i].last => i = ToCome(y)
      <4> SUFFICES ASSUME NEW i \in DOMAIN y.toClient, GoAhead(y, p, i), y.toClient[i].last
                   PROVE  i = ToCome(y)
        OBVIOUS
      <4>1. i \in DOMAIN x.toClient /\ y.toClient[i] = x.toClient[i] /\ i \in 1..n
        BY <1>2, <1>3, LinkFields
      <4>2. GoAhead(x, p, i)
        <5>1. \A j \in DOMAIN y.toClient : j \in DOMAIN x.toClient /\ y.toClient[j] = x.toClient[j]
          BY <1>3, Zenon
        <5> QED BY <5>1 DEF GoAhead
      <4>3. i = ToCome(x)
        BY <2>2, <4>1, <4>2, Zenon DEF GoAheadLast
      <4> QED BY <1>2, <1>4, <4>1, <4>3, LinkFields
    <3> QED BY <1>1, <1>2, <3>1, Zenon DEF GoAheadLast
  <2>3. s = "Body" => ToCome(y) = 0
    <3>1. s = "Body" => ToCome(x) = 0
      BY <1>6, Zenon DEF InUse
    <3> QED BY <1>2, <1>4, <3>1
  <2>4. ASSUME BodyUnderWay(x, p, r) PROVE BodyUnderWay(y, p, r)
    <3>1. (\E i \in DOMAIN y.toClient : y.toClient[i].code = 250) =>
            \E i \in DOMAIN x.toClient : x.toClient[i].code = 250
      BY <1>3
    <3>2. 0 # 250
      OBVIOUS
    <3> QED BY <1>1, <2>4, <3>1, <3>2 DEF BodyUnderWay
  <2>5. /\ ~ y.left /\ ~ y.up
        /\ s = "Final" => BodyUnderWay(y, p, r)
        /\ s = "Quit" => Successes(r) \subseteq y.accepted
    BY <1>1, <1>6, <2>4, Zenon DEF InUse
  <2>6. /\ s \in {"Greeting", "Ehlo", "Helo", "MailFrom", "RcptTo"} => NoGoAhead(y, p)
        /\ s = "Data" => IF w THEN GoAheadLast(y, p) ELSE NoGoAhead(y, p)
    BY <1>6, <2>1, <2>2, Zenon DEF InUse
  <2> QED BY <1>5, <2>3, <2>5, <2>6, Zenon DEF InUse
<1> QED BY <1>1, <1>5, <1>6, Zenon

\* No step of a server sends it anything, takes back what it accepted, or undoes what the client
\* that uses its connection knows (client.rs:408-466).
LEMMA ServerStep ==
  ASSUME Inv, Inv', NEW d \in 1..MaxDestinations, Answer(d) \/ AnswerOn(d) \/ ServerCloses(d)
  PROVE  /\ UNCHANGED <<job, clientVars>>
         /\ \A e \in 1..MaxDestinations : e # d => conn'[e] = conn[e]
         /\ BodyAlone(conn[d]) => BodyAlone(conn'[d])
         /\ conn[d].accepted \subseteq conn'[d].accepted
         /\ \A s \in Stages, w \in BOOLEAN, p \in Codes \cup {0}, r \in Seq(Classes) :
              InUse(conn[d], s, w, p, r) => InUse(conn'[d], s, w, p, r)
<1>1. conn \in [1..MaxDestinations -> Links] /\ conn' \in [1..MaxDestinations -> Links]
  BY DEF Inv, ClientTypeOK
<1>2. PICK x \in Links, y \in Links : x = conn[d] /\ y = conn'[d]
  BY <1>1
<1>3. \A z : conn' = [conn EXCEPT ![d] = z] =>
        z = y /\ \A e \in 1..MaxDestinations : e # d => conn'[e] = conn[e]
  BY <1>1, <1>2
<1>4. CASE Answer(d)
  <2>1. PICK code \in Answers(x, Head(x.toServer)), last \in BOOLEAN :
          conn' = [conn EXCEPT ![d] = Reply(Served(x, Head(x.toServer), code), code, last)]
    BY <1>2, <1>4 DEF Answer
  <2>2. x.up /\ x.more = 0 /\ x.toServer # <<>> /\ UNCHANGED <<job, clientVars>>
    BY <1>2, <1>4 DEF Answer
  <2>3. y = Reply(Served(x, Head(x.toServer), code), code, last)
    BY <1>3, <2>1, Zenon
  <2>4. /\ code \in Codes
        /\ y.toServer = Tail(x.toServer) /\ y.left = x.left /\ x.accepted \subseteq y.accepted
        /\ ~ x.left => Answered(x, y, code) /\ Arrives(x, y, code, IF last THEN 0 ELSE code)
    <3>1. code \in Answers(x, Head(x.toServer)) /\ last \in BOOLEAN
      OBVIOUS
    <3>2. x.up /\ x.more = 0 /\ x.toServer # <<>>
      BY <2>2, Zenon
    <3> QED BY <2>3, <3>1, <3>2, AnswerArrives
  <2>5. BodyAlone(x) => BodyAlone(y)
    <3>1. x.toServer \in Seq([verb : Verbs, rcpt : Recipients \cup {0}])
      BY LinkFields, Zenon
    <3>2. /\ Len(y.toServer) = Len(x.toServer) - 1 /\ Len(x.toServer) \in Nat /\ Len(x.toServer) >= 1
          /\ \A i \in 1..Len(y.toServer) : y.toServer[i] = x.toServer[i + 1]
      BY <2>2, <2>4, <3>1, HeadTailProperties, LenProperties
    <3>3. DOMAIN y.toServer = 1..Len(y.toServer) /\ DOMAIN x.toServer = 1..Len(x.toServer)
      BY LinkFields, Zenon
    <3>4. \A i \in DOMAIN y.toServer : i + 1 \in DOMAIN x.toServer /\ y.toServer[i] = x.toServer[i + 1]
      BY <3>2, <3>3
    <3>5. CASE NoBody(x)
      <4>1. NoBody(y)
        BY <3>4, <3>5, Zenon DEF NoBody
      <4> QED BY <4>1, Zenon DEF BodyAlone
    <3>6. CASE x.toServer = <<Command("BODY")>>
      <4>1. Len(x.toServer) = 1
        BY <3>6
      <4>2. DOMAIN y.toServer = {}
        BY <3>2, <3>3, <4>1
      <4> QED BY <4>2, Zenon DEF BodyAlone, NoBody
    <3> QED BY <3>5, <3>6, Zenon DEF BodyAlone
  <2>6. ASSUME NEW s \in Stages, NEW w \in BOOLEAN, NEW p \in Codes \cup {0}, NEW r \in Seq(Classes),
               InUse(x, s, w, p, r)
        PROVE  InUse(y, s, w, p, r)
    <3>1. PICK more \in Codes \cup {0} : more = IF last THEN 0 ELSE code
      BY <2>4
    <3>2. Answered(x, y, code) /\ Arrives(x, y, code, more)
      BY <2>4, <2>6, <3>1, Zenon DEF InUse
    <3> QED BY <2>4, <2>6, <3>2, ArrivalKeepsUse, Zenon
  <2> QED BY <1>2, <1>3, <2>1, <2>2, <2>4, <2>5, <2>6, Zenon
<1>5. CASE AnswerOn(d)
  <2>1. PICK last \in BOOLEAN : conn' = [conn EXCEPT ![d] = Reply(x, x.more, last)]
    BY <1>2, <1>5 DEF AnswerOn
  <2>2. x.up /\ x.more # 0 /\ UNCHANGED <<job, clientVars>> /\ y = Reply(x, x.more, last)
    <3>1. x.up /\ x.more # 0 /\ UNCHANGED <<job, clientVars>>
      BY <1>2, <1>5 DEF AnswerOn
    <3> QED BY <1>3, <2>1, <3>1, Zenon
  <2>0. PICK more \in Codes \cup {0} : more = IF last THEN 0 ELSE x.more
    BY DEF Links
  <2>3. /\ y.toServer = x.toServer /\ y.inData = x.inData /\ y.accepted = x.accepted
        /\ x.more \in Codes
        /\ ~ x.left => AnsweredOn(x, y, x.more, more) /\ Arrives(x, y, x.more, more)
    <3>1. x.up /\ x.more # 0 /\ y = Reply(x, x.more, last)
      BY <2>2, Zenon
    <3>2. more = IF last THEN 0 ELSE x.more
      BY <2>0, Zenon
    <3> QED BY <3>1, <3>2, AnswerOnArrives
  <2>4. (BodyAlone(x) => BodyAlone(y)) /\ x.accepted \subseteq y.accepted
    BY <2>3 DEF BodyAlone, NoBody
  <2>5. ASSUME NEW s \in Stages, NEW w \in BOOLEAN, NEW p \in Codes \cup {0}, NEW r \in Seq(Classes),
               InUse(x, s, w, p, r)
        PROVE  InUse(y, s, w, p, r)
    <3>1. AnsweredOn(x, y, x.more, more) /\ Arrives(x, y, x.more, more)
      BY <2>3, <2>5, Zenon DEF InUse
    <3> QED BY <2>3, <2>5, <3>1, ArrivalKeepsUse, Zenon
  <2> QED BY <1>2, <1>3, <2>1, <2>2, <2>4, <2>5, ZenonT(60)
<1>6. CASE ServerCloses(d)
  <2>1. PICK n \in 0..Len(x.toClient) :
          conn' = [conn EXCEPT ![d].up = FALSE, ![d].toServer = <<>>, ![d].more = 0,
                               ![d].toClient = SubSeq(@, 1, n)]
    BY <1>2, <1>6 DEF ServerCloses
  <2>2. UNCHANGED <<job, clientVars>>
    BY <1>6 DEF ServerCloses
  <2>3. conn' = [conn EXCEPT ![d] = [x EXCEPT !.up = FALSE, !.toServer = <<>>, !.more = 0,
                                              !.toClient = SubSeq(x.toClient, 1, n)]]
    <3> DEFINE lines == SubSeq(x.toClient, 1, n)
               s1 == [x EXCEPT !.up = FALSE]
               s2 == [s1 EXCEPT !.toServer = <<>>]
               s3 == [s2 EXCEPT !.more = 0]
               s4 == [s3 EXCEPT !.toClient = lines]
    <3>1. conn' = [conn EXCEPT ![d] = s4]
      <4> HIDE DEF lines
      <4>1. conn' = [conn EXCEPT ![d].up = FALSE, ![d].toServer = <<>>, ![d].more = 0,
                                 ![d].toClient = lines]
        BY <1>2, <2>1, Zenon DEF lines
      <4> QED BY <1>1, <1>2, <4>1 DEF s1, s2, s3
    <3>2. s4 = [x EXCEPT !.up = FALSE, !.toServer = <<>>, !.more = 0, !.toClient = lines]
      <4> HIDE DEF lines
      <4> QED BY Zenon
    <3> QED BY <3>1, <3>2, Zenon
  <2>4. y = [x EXCEPT !.up = FALSE, !.toServer = <<>>, !.more = 0,
                      !.toClient = SubSeq(x.toClient, 1, n)]
    BY <1>3, <2>3, Zenon
  <2>5. /\ BodyAlone(y) /\ y.accepted = x.accepted
        /\ \A s \in Stages, w \in BOOLEAN, p \in Codes \cup {0}, r \in Seq(Classes) :
             InUse(x, s, w, p, r) => InUse(y, s, w, p, r)
    BY <2>4, CloseKeeps, Zenon
  <2> QED BY <1>2, <1>3, <2>2, <2>3, <2>5, Zenon
<1> QED BY <1>4, <1>5, <1>6

-----------------------------------------------------------------------------

\* One more result: the successes grow by the recipient it is for, or stay (client.rs:200-222).
LEMMA OneMoreResult ==
  ASSUME NEW r \in Seq(Classes), NEW class \in Classes
  PROVE  /\ Append(r, class) \in Seq(Classes)
         /\ class # "success" => Successes(Append(r, class)) = Successes(r)
         /\ class = "success" => Successes(Append(r, class)) = Successes(r) \cup {Len(r) + 1}
<1> DEFINE all == Append(r, class)
           n   == Len(r)
<1>1. /\ all \in Seq(Classes) /\ Len(all) = n + 1 /\ n \in Nat /\ all[n + 1] = class
      /\ \A i \in 1..n : all[i] = r[i]
  BY AppendProperties, LenProperties
<1>2. DOMAIN all = 1..(n + 1) /\ DOMAIN r = 1..n
  <2> HIDE DEF all
  <2> QED BY <1>1, LenProperties
<1> HIDE DEF all
<1>3. \A i \in 1..(n + 1) : i \in 1..n \/ i = n + 1
  BY <1>1
<1>4. \A i \in 1..n : i \in 1..(n + 1) /\ i # n + 1
  BY <1>1
<1>5. n + 1 \in 1..(n + 1)
  BY <1>1
<1> HIDE DEF n
<1>6. class # "success" => Successes(all) = Successes(r)
  <2> SUFFICES ASSUME class # "success" PROVE Successes(all) = Successes(r)
    OBVIOUS
  <2> QED BY <1>1, <1>2, <1>3, <1>4, Zenon DEF Successes
<1>7. class = "success" => Successes(all) = Successes(r) \cup {n + 1}
  <2> SUFFICES ASSUME class = "success" PROVE Successes(all) = Successes(r) \cup {n + 1}
    OBVIOUS
  <2> QED BY <1>1, <1>2, <1>3, <1>4, <1>5, Zenon DEF Successes
<1> QED BY <1>1, <1>6, <1>7 DEF all, n

\* After the answer to RCPT TO, or its error, was recorded (client.rs:200-230): QUIT follows only
\* when nobody was accepted.
LEMMA RecordedUse ==
  ASSUME NEW y \in Links, ~ y.left, y.up => Whole(y), NoBody(y), NoGoAhead(y, 0),
         NEW r \in Seq(Classes), y.up => Settles(y, r),
         NEW s \in {"RcptTo", "Data", "Quit"}, s = "Quit" => Successes(r) = {}
  PROVE  InUse(y, s, FALSE, 0, r)
<1>1. ASSUME Settles(y, r), s # "Quit" PROVE Knows(y, s, FALSE, 0, r)
  BY <1>1, Zenon DEF Settles, Knows, Sound
<1>2. s = "Quit" => Successes(r) \subseteq y.accepted
  BY Zenon
<1> QED BY <1>1, <1>2 DEF InUse

\* A dropped connection: the server keeps what it was sent and what it accepted.
LEMMA AbandonedLink ==
  ASSUME NEW link \in Links
  PROVE  /\ Abandoned(link) \in Links /\ Abandoned(link).accepted = link.accepted
         /\ BodyAlone(link) => BodyAlone(Abandoned(link))
<1>1. /\ Abandoned(link).toServer = link.toServer /\ Abandoned(link).inData = link.inData
      /\ Abandoned(link).accepted = link.accepted
  BY DEF Abandoned, Links
<1>2. BodyAlone(link) => BodyAlone(Abandoned(link))
  BY <1>1 DEF BodyAlone, NoBody
<1> QED BY <1>1, <1>2, LinkTypes, Zenon

\* A step on the connection in use (client.rs:162-273).
LEMMA StaySync ==
  ASSUME Inv, SyncInv, dest # 0, dest' = dest, NEW link \in Links,
         conn' = [conn EXCEPT ![dest] = link],
         ~ waiting' => partial' = 0,
         stage' \notin {"Connect", "Done"} => InUse(link, stage', waiting', partial', results'),
         BodyAlone(link), outcome' = "ok" => Successes(results') \subseteq link.accepted
  PROVE  SyncInv'
<1>1. dest \in 1..MaxDestinations /\ conn \in [1..MaxDestinations -> Links]
  <2>1. /\ [dests |-> dests, rcpts |-> count] \in Jobs /\ dest \in 0..Len(dests)
        /\ conn \in [1..MaxDestinations -> Links]
    BY DEF Inv, ClientTypeOK
  <2>2. Len(dests) \in Nat /\ Len(dests) <= MaxDestinations /\ MaxDestinations \in Nat
    BY <2>1, Selected
  <2> QED BY <2>1, <2>2
<1>2. conn'[dest'] = link /\ \A d \in 1..MaxDestinations : conn'[d] = IF d = dest THEN link ELSE conn[d]
  BY <1>1
<1>3. \A d \in 1..MaxDestinations : BodyAlone(conn'[d])
  BY <1>2 DEF SyncInv
<1>4. outcome' = "ok" => Successes(results') \subseteq conn'[dest'].accepted
  BY <1>2
<1>5. SuccessMeansAccepted'
  BY <1>4, Zenon DEF SuccessMeansAccepted, Successes
<1>6. stage' \notin {"Connect", "Done"} => InUse(conn'[dest'], stage', waiting', partial', results')
  BY <1>2, Zenon
<1>7. (\A d \in 1..MaxDestinations : BodyAlone(conn[d]))'
  BY <1>3 DEF BodyAlone, NoBody
<1>8. (stage \notin {"Connect", "Done"} => InUse(conn[dest], stage, waiting, partial, results))'
  BY <1>6
<1>9. (dest = 0 => outcome # "ok")'
  OBVIOUS
<1> QED BY <1>5, <1>7, <1>8, <1>9, Zenon DEF SyncInv

\* A failed destination (client.rs:134-155): what is left on its connection stays with the server.
LEMMA FailSync ==
  ASSUME Inv, SyncInv, dest # 0, stage # "Done", NEW class \in {"permanent", "transient"},
         NEW link \in Links, BodyAlone(link), Fail(class, link)
  PROVE  SyncInv'
<1>1. /\ waiting' = FALSE /\ partial' = 0 /\ stage' \in {"Connect", "Done"}
      /\ conn' = [conn EXCEPT ![dest] = Abandoned(link)] /\ outcome' \in {outcome, class}
  BY Zenon DEF Fail, Return
<1>2. outcome' # "ok"
  BY <1>1 DEF Inv, Placed
<1>3. dest \in 1..MaxDestinations /\ conn \in [1..MaxDestinations -> Links]
  <2>1. /\ [dests |-> dests, rcpts |-> count] \in Jobs /\ dest \in 0..Len(dests)
        /\ conn \in [1..MaxDestinations -> Links]
    BY DEF Inv, ClientTypeOK
  <2>2. Len(dests) \in Nat /\ Len(dests) <= MaxDestinations /\ MaxDestinations \in Nat
    BY <2>1, Selected
  <2> QED BY <2>1, <2>2
<1>4. \A d \in 1..MaxDestinations : conn'[d] = IF d = dest THEN Abandoned(link) ELSE conn[d]
  BY <1>1, <1>3
<1>5. \A d \in 1..MaxDestinations : BodyAlone(conn'[d])
  BY <1>4, AbandonedLink DEF SyncInv
<1>6. (\A d \in 1..MaxDestinations : BodyAlone(conn[d]))'
  BY <1>5
<1>7. SuccessMeansAccepted'
  BY <1>2, Zenon DEF SuccessMeansAccepted
<1>8. (dest = 0 => outcome # "ok")'
  BY <1>2, Zenon
<1> QED BY <1>1, <1>6, <1>7, <1>8, Zenon DEF SyncInv

\* The result of a recipient (client.rs:200-222): the connection is left as the next command needs
\* it, and a success is that of a recipient the server accepted, or the client is behind.
LEMMA AddRecipientSync ==
  ASSUME Inv, Inv', SyncInv, stage = "RcptTo", NEW class \in Classes, NEW link \in Links,
         AddRecipient(class, link),
         ~ link.left, link.up => Whole(link), NoBody(link), NoGoAhead(link, 0),
         link.up => Settles(link, Append(results, class))
  PROVE  SyncInv'
<1>1. dest # 0 /\ outcome = "none" /\ results \in Seq(Classes)
  BY DEF Inv, Placed, ClientTypeOK
<1>2. /\ results' = Append(results, class) /\ outcome' = outcome /\ dest' = dest
      /\ waiting' = FALSE /\ partial' = 0 /\ conn' = [conn EXCEPT ![dest] = link]
      /\ stage' \in {"RcptTo", "Data", "Quit"}
      /\ stage' = "Quit" => ~ \E i \in DOMAIN results' : results'[i] = "success"
  BY Zenon DEF AddRecipient, Goto
<1>3. stage' = "Quit" => Successes(results') = {}
  BY <1>2, Zenon DEF Successes
<1>4. results' \in Seq(Classes) /\ (link.up => Settles(link, results'))
  BY <1>1, <1>2, OneMoreResult, Zenon
<1>5. InUse(link, stage', FALSE, 0, results')
  BY <1>2, <1>3, <1>4, RecordedUse, Zenon
<1>6. BodyAlone(link)
  BY Zenon DEF BodyAlone
<1>7. outcome' # "ok"
  BY <1>1, <1>2
<1>8. stage' \notin {"Connect", "Done"} => InUse(link, stage', waiting', partial', results')
  BY <1>2, <1>5, Zenon
<1> QED BY <1>1, <1>2, <1>6, <1>7, <1>8, StaySync, Zenon

\* After QUIT, whatever its answer (client.rs:262-266): what was accepted stays so.
LEMMA FinishSync ==
  ASSUME Inv, SyncInv, stage = "Quit", NEW link \in Links, Finish(link),
         BodyAlone(link), Successes(results) \subseteq link.accepted
  PROVE  SyncInv'
<1>1. dest # 0
  BY DEF Inv, Placed
<1>2. /\ results' = results /\ dest' = dest /\ waiting' = FALSE /\ partial' = 0 /\ stage' = "Done"
      /\ conn' = [conn EXCEPT ![dest] = Abandoned(link)]
  BY Zenon DEF Finish, Return
<1>3. /\ Abandoned(link) \in Links /\ BodyAlone(Abandoned(link))
      /\ Successes(results') \subseteq Abandoned(link).accepted
  BY <1>2, AbandonedLink
<1> QED BY <1>1, <1>2, <1>3, StaySync, Zenon

\* An error of sending or reading (client.rs:200-268).
LEMMA ErrorSync ==
  ASSUME Inv, Inv', SyncInv, stage \notin {"Connect", "Done"},
         NEW class \in {"permanent", "transient"}, NEW link \in Links, OnError(class, link),
         BodyAlone(link), stage = "Quit" => Successes(results) \subseteq link.accepted,
         stage = "RcptTo" => /\ ~ link.left /\ NoBody(link) /\ NoGoAhead(link, 0)
                             /\ link.up => Whole(link) /\ Settles(link, results)
  PROVE  SyncInv'
<1>1. dest # 0 /\ stage # "Done" /\ results \in Seq(Classes)
  BY DEF Inv, Placed, ClientTypeOK
<1>2. CASE stage = "RcptTo"
  <2>1. AddRecipient(class, link) /\ class \in Classes /\ class # "success"
    BY <1>2 DEF OnError, Classes
  <2>2. Successes(Append(results, class)) = Successes(results)
    BY <1>1, <2>1, OneMoreResult, Zenon
  <2>3. link.up => Settles(link, Append(results, class))
    BY <1>2, <2>2, Zenon DEF Settles
  <2> QED BY <1>2, <2>1, <2>3, AddRecipientSync, Zenon
<1>3. CASE stage = "Quit"
  <2>1. Finish(link)
    BY <1>3 DEF OnError
  <2> QED BY <1>3, <2>1, FinishSync, Zenon
<1>4. CASE stage \notin {"RcptTo", "Quit"}
  <2>1. Fail(class, link)
    BY <1>4 DEF OnError
  <2> QED BY <1>1, <2>1, FailSync, Zenon
<1> QED BY <1>2, <1>3, <1>4, Zenon

\* The connection after n lines were read is one.
LEMMA ReadLink ==
  ASSUME NEW x \in Links, NEW n \in {1, 2}, Len(x.toClient) >= n,
         NEW y, y = [x EXCEPT !.toClient = SubSeq(x.toClient, n + 1, Len(x.toClient)), !.torn = "no"]
  PROVE  y \in Links /\ Reads(x, y, n) /\ (BodyAlone(x) => BodyAlone(y))
<1> DEFINE left == SubSeq(x.toClient, n + 1, Len(x.toClient))
<1>1. left \in Seq([code : Codes, last : BOOLEAN])
  <2>1. x.toClient \in Seq([code : Codes, last : BOOLEAN]) /\ Len(x.toClient) \in Nat
    BY LinkFields, Zenon
  <2>2. \A i \in (n + 1)..Len(x.toClient) : x.toClient[i] \in [code : Codes, last : BOOLEAN]
    <3>1. \A i \in 1..Len(x.toClient) : x.toClient[i] \in [code : Codes, last : BOOLEAN]
      BY <2>1, ElementOfSeq, Zenon
    <3> QED BY <2>1, <3>1
  <2>3. n + 1 \in Int /\ Len(x.toClient) \in Int
    BY <2>1
  <2> QED BY <2>2, <2>3, SubSeqProperties
<1> HIDE DEF left
<1>2. y = [x EXCEPT !.toClient = left, !.torn = "no"]
  BY Zenon DEF left
<1>3. "no" \in {"no", "mid", "short", "lf"}
  OBVIOUS
<1>4. y \in Links
  BY <1>1, <1>2, <1>3 DEF Links
<1>5. /\ y.toClient = left /\ y.torn = "no"
      /\ y.toServer = x.toServer /\ y.more = x.more /\ y.up = x.up /\ y.left = x.left
      /\ y.inData = x.inData /\ y.rcpts = x.rcpts /\ y.accepted = x.accepted
  BY <1>2 DEF Links
<1>6. Reads(x, y, n)
  BY <1>5, Zenon DEF Reads, left
<1>7. BodyAlone(x) => BodyAlone(y)
  BY <1>5 DEF BodyAlone, NoBody
<1> QED BY <1>4, <1>6, <1>7, Zenon

\* A step that goes on on the same connection (client.rs:165-260).
LEMMA GoneOn ==
  ASSUME Inv, SyncInv, stage \notin {"Connect", "Done"}, NEW next, NEW link \in Links,
         Goto(next, link), BodyAlone(link), InUse(link, next, FALSE, 0, results')
  PROVE  SyncInv'
<1>1. dest # 0 /\ outcome = "none"
  BY DEF Inv, Placed
<1>2. /\ outcome' = outcome /\ dest' = dest /\ stage' = next /\ waiting' = FALSE /\ partial' = 0
      /\ conn' = [conn EXCEPT ![dest] = link]
  BY Zenon DEF Goto
<1>3. outcome' # "ok"
  BY <1>1, <1>2
<1> QED BY <1>1, <1>2, <1>3, StaySync, Zenon

\* A complete reply (client.rs:165-266), of one line or more, or of the rest of a torn one.
LEMMA ReplySync ==
  ASSUME Inv, Inv', SyncInv, waiting, stage \notin {"Connect", "Done"},
         NEW x \in Links, x = conn[dest],
         NEW link \in Links, Reads(x, link, 1), BodyAlone(link),
         NEW code \in Codes, Ends(x, partial, code), OnReply(code, link)
  PROVE  SyncInv'
<1>1. /\ dest # 0 /\ results \in Seq(Classes) /\ stage \in Stages /\ partial \in Codes \cup {0}
      /\ stage \in {"Greeting", "Ehlo", "Helo", "MailFrom"} => results = <<>>
  BY DEF Inv, Placed, ClientTypeOK, Counted
<1>2. waiting = TRUE
  BY DEF Inv, ClientTypeOK
<1>3. InUse(x, stage, TRUE, partial, results)
  BY <1>2, Zenon DEF SyncInv
<1>4. /\ ~ link.left
      /\ link.up => Whole(link)
      /\ stage # "Final" => NoBody(link)
      /\ stage \in {"Greeting", "Ehlo", "Helo", "MailFrom"} =>
           NoGoAhead(link, 0) /\ (link.up => link.torn = "no" /\ ToCome(link) = 0)
      /\ stage = "RcptTo" =>
           /\ NoGoAhead(link, 0)
           /\ link.up => \/ Behind(link, FALSE)
                         \/ /\ Successes(results) \subseteq link.rcpts
                            /\ code = 250 => Len(results) + 1 \in link.rcpts
      /\ stage = "Data" /\ code = 354 =>
           ToCome(link) = 0 /\ (link.up => link.inData /\ Successes(results) \subseteq link.rcpts)
      /\ stage = "Final" /\ code = 250 => Successes(results) \subseteq link.accepted
  <2>1. AfterReply(link, stage, results, code)
    BY <1>1, <1>3, ReplyRead, Zenon
  <2> QED BY <2>1, Zenon DEF AfterReply
<1>5. Rejected(code) \in {"permanent", "transient"} /\ Rejected(code) \in Classes
      /\ Rejected(code) # "success"
  BY DEF Rejected, Classes
<1>6. ASSUME stage \in {"Greeting", "Ehlo", "Helo", "MailFrom"},
             NEW next \in {"Ehlo", "Helo", "MailFrom", "RcptTo"}, Goto(next, link),
             results' = results
      PROVE  SyncInv'
  <2>1. Successes(results') \subseteq link.rcpts
    BY <1>1, <1>6 DEF Successes
  <2>2. link.up => InStep(link, next, FALSE, 0, results')
    BY <1>4, <1>6, Zenon DEF InStep
  <2>3. link.up => Knows(link, next, FALSE, 0, results')
    BY <2>1, <2>2, Zenon DEF Knows, Sound
  <2>4. InUse(link, next, FALSE, 0, results')
    BY <1>4, <1>6, <2>2, <2>3 DEF InUse
  <2> QED BY <1>6, <2>4, GoneOn, Zenon
<1>7. ASSUME NEW class \in {"permanent", "transient"}, Fail(class, link) PROVE SyncInv'
  <2>1. dest # 0 /\ stage # "Done"
    BY <1>1
  <2> QED BY <1>7, <2>1, FailSync, Zenon
<1>8. ASSUME GreetingReply(code, link) PROVE SyncInv'
  <2>1. CASE IsSuccess(code)
    <3>1. stage = "Greeting" /\ Goto("Ehlo", link) /\ results' = results
      BY <1>8, <2>1, Zenon DEF GreetingReply
    <3> QED BY <1>6, <3>1
  <2>2. CASE ~ IsSuccess(code)
    BY <1>5, <1>7, <1>8, <2>2, Zenon DEF GreetingReply
  <2> QED BY <2>1, <2>2
<1>9. ASSUME EhloReply(code, link) PROVE SyncInv'
  <2>1. PICK next \in {"MailFrom", "Helo"} : stage = "Ehlo" /\ Goto(next, link) /\ results' = results
    BY <1>9, Zenon DEF EhloReply
  <2> QED BY <1>6, <2>1
<1>10. ASSUME HeloReply(code, link) PROVE SyncInv'
  <2>1. CASE IsSuccess(code)
    <3>1. stage = "Helo" /\ Goto("MailFrom", link) /\ results' = results
      BY <1>10, <2>1, Zenon DEF HeloReply
    <3> QED BY <1>6, <3>1
  <2>2. CASE ~ IsSuccess(code)
    BY <1>5, <1>7, <1>10, <2>2, Zenon DEF HeloReply
  <2> QED BY <2>1, <2>2
<1>11. ASSUME MailFromReply(code, link) PROVE SyncInv'
  <2>1. CASE IsSuccess(code)
    <3>1. stage = "MailFrom" /\ Goto("RcptTo", link) /\ results' = results
      BY <1>11, <2>1, Zenon DEF MailFromReply
    <3> QED BY <1>6, <3>1
  <2>2. CASE ~ IsSuccess(code)
    BY <1>5, <1>7, <1>11, <2>2, Zenon DEF MailFromReply
  <2> QED BY <2>1, <2>2
<1>12. ASSUME RcptToReply(code, link) PROVE SyncInv'
  <2>1. PICK class \in Classes : /\ AddRecipient(class, link) /\ stage = "RcptTo"
                                 /\ class = "success" => code = 250
    <3>1. /\ stage = "RcptTo"
          /\ AddRecipient(IF IsSuccess(code) THEN "success" ELSE Rejected(code), link)
      BY <1>12, Zenon DEF RcptToReply
    <3>2. CASE IsSuccess(code)
      BY <3>1, <3>2 DEF IsSuccess, Classes
    <3>3. CASE ~ IsSuccess(code)
      BY <1>5, <3>1, <3>3
    <3> QED BY <3>2, <3>3
  <2>2. link.up => Settles(link, Append(results, class))
    <3>1. CASE Behind(link, FALSE)
      BY <3>1, Zenon DEF Settles
    <3>2. CASE /\ Successes(results) \subseteq link.rcpts
               /\ code = 250 => Len(results) + 1 \in link.rcpts
      <4>1. Successes(Append(results, class)) \subseteq link.rcpts
        BY <1>1, <2>1, <3>2, OneMoreResult
      <4> QED BY <3>2, <4>1, Zenon DEF Settles
    <3> QED BY <1>4, <2>1, <3>1, <3>2, Zenon
  <2>3. NoBody(link) /\ NoGoAhead(link, 0)
    BY <1>4, <2>1
  <2> QED BY <1>4, <2>1, <2>2, <2>3, AddRecipientSync, Zenon
<1>13. ASSUME DataReply(code, link) PROVE SyncInv'
  <2>1. CASE code = 354
    <3>1. stage = "Data" /\ Goto("Body", link) /\ results' = results
      BY <1>13, <2>1, Zenon DEF DataReply
    <3>2. InUse(link, "Body", FALSE, 0, results')
      BY <1>4, <2>1, <3>1 DEF InUse
    <3> QED BY <3>1, <3>2, GoneOn
  <2>2. CASE code # 354
    BY <1>5, <1>7, <1>13, <2>2, Zenon DEF DataReply
  <2> QED BY <2>1, <2>2
<1>14. ASSUME FinalReply(code, link) PROVE SyncInv'
  <2>1. stage = "Final" /\ Goto("Quit", link)
    BY <1>14, Zenon DEF FinalReply
  <2>2. NoBody(link)
    <3>1. BodyUnderWay(x, partial, results)
      BY <1>3, <2>1, Zenon DEF InUse
    <3>2. x.toServer = <<>>
      <4>1. x.toClient # <<>>
        BY LinkFields DEF Reads
      <4> QED BY <3>1, <4>1, Zenon DEF BodyUnderWay
    <3>3. DOMAIN link.toServer = {}
      BY <3>2 DEF Reads
    <3> QED BY <3>3, Zenon DEF NoBody
  <2>3. Successes(results') \subseteq link.accepted
    <3>1. CASE IsSuccess(code)
      <4>1. results' = results /\ code = 250
        BY <1>14, <3>1, Zenon DEF FinalReply, IsSuccess
      <4> QED BY <1>4, <2>1, <4>1
    <3>2. CASE ~ IsSuccess(code)
      <4>1. results' = [i \in DOMAIN results |->
                          IF results[i] = "success" THEN Rejected(code) ELSE results[i]]
        BY <1>14, <3>2, Zenon DEF FinalReply
      <4>2. \A i \in DOMAIN results' : results'[i] # "success"
        BY <1>5, <4>1
      <4> QED BY <4>2, Zenon DEF Successes
    <3> QED BY <3>1, <3>2
  <2>4. InUse(link, "Quit", FALSE, 0, results')
    BY <1>4, <2>2, <2>3 DEF InUse
  <2> QED BY <2>1, <2>4, GoneOn
<1>15. ASSUME QuitReply(code, link) PROVE SyncInv'
  <2>1. stage = "Quit" /\ Finish(link)
    BY <1>15, Zenon DEF QuitReply
  <2>2. Successes(results) \subseteq link.accepted
    BY <1>3, <2>1 DEF InUse, Reads
  <2> QED BY <2>1, <2>2, FinishSync, Zenon
<1> QED BY <1>8, <1>9, <1>10, <1>11, <1>12, <1>13, <1>14, <1>15, Zenon DEF OnReply

\* A part of a command is written (client.rs:406-475): that changes nothing else on the connection.
LEMMA CutLink ==
  ASSUME NEW x \in Links, NEW cut \in BOOLEAN, NEW y, y = [x EXCEPT !.cut = cut]
  PROVE  /\ y \in Links /\ y.accepted = x.accepted /\ y.left = x.left /\ y.up = x.up
         /\ BodyAlone(x) => BodyAlone(y)
         /\ NoBody(x) => NoBody(y)
         /\ NoGoAhead(x, 0) => NoGoAhead(y, 0)
         /\ Whole(x) => Whole(y)
         /\ \A r \in Seq(Classes) : Settles(x, r) => Settles(y, r)
<1>1. y \in Links
  BY LinkTypes, Zenon
<1>2. /\ y.toServer = x.toServer /\ y.toClient = x.toClient /\ y.more = x.more /\ y.torn = x.torn
      /\ y.inData = x.inData /\ y.rcpts = x.rcpts /\ y.accepted = x.accepted
      /\ y.left = x.left /\ y.up = x.up
  BY DEF Links
<1>3. NoBody(x) => NoBody(y)
  BY <1>2 DEF NoBody
<1>4. BodyAlone(x) => BodyAlone(y)
  BY <1>2, <1>3 DEF BodyAlone
<1>5. NoGoAhead(x, 0) => NoGoAhead(y, 0)
  BY <1>2 DEF NoGoAhead
<1>6. Whole(x) => Whole(y)
  BY <1>2 DEF Whole
<1>7. More(y) = More(x) /\ ToCome(y) = ToCome(x)
  BY <1>2 DEF More, ToCome
<1>8. StaleRest(x, 0) <=> StaleRest(y, 0)
  BY <1>2, <1>7 DEF StaleRest
<1>9. Behind(x, FALSE) <=> Behind(y, FALSE)
  BY <1>2, <1>7, <1>8 DEF Behind
<1>10. \A r \in Seq(Classes) : Settles(x, r) => Settles(y, r)
  BY <1>2, <1>9, Zenon DEF Settles
<1> QED BY <1>1, <1>2, <1>3, <1>4, <1>5, <1>6, <1>10, Zenon

\* Every step of the client keeps the invariant (client.rs:108-273).
LEMMA ClientSync ==
  ASSUME TailsRefuse, Inv, Inv', SyncInv, Client
  PROVE  SyncInv'
<1>1. /\ dest # 0 => dest \in 1..MaxDestinations
      /\ conn \in [1..MaxDestinations -> Links] /\ results \in Seq(Classes)
      /\ stage \in Stages /\ waiting \in BOOLEAN /\ partial \in Codes \cup {0}
  <2>1. /\ [dests |-> dests, rcpts |-> count] \in Jobs /\ dest \in 0..Len(dests)
        /\ conn \in [1..MaxDestinations -> Links] /\ results \in Seq(Classes)
        /\ stage \in Stages /\ waiting \in BOOLEAN /\ partial \in Codes \cup {0}
    BY DEF Inv, ClientTypeOK
  <2>2. Len(dests) \in Nat /\ Len(dests) <= MaxDestinations /\ MaxDestinations \in Nat
    BY <2>1, Selected
  <2> QED BY <2>1, <2>2
<1>2. /\ dest = 0 => stage \in {"Connect", "Done"}
      /\ stage \in {"Connect", "Done"} => waiting = FALSE
      /\ stage # "Done" => outcome = "none"
  BY DEF Inv, Placed
<1>3. /\ ~ waiting => partial = 0
      /\ stage \notin {"Connect", "Done"} => InUse(conn[dest], stage, waiting, partial, results)
      /\ \A d \in 1..MaxDestinations : BodyAlone(conn[d])
  BY Zenon DEF SyncInv
<1>4. ASSUME stage \notin {"Connect", "Done"}, NEW class \in {"permanent", "transient"},
             NEW link \in Links, OnError(class, link), BodyAlone(link),
             link.accepted = conn[dest].accepted, link.left = conn[dest].left,
             stage = "RcptTo" => /\ NoBody(link) /\ NoGoAhead(link, 0)
                                 /\ link.up => Whole(link) /\ Settles(link, results)
      PROVE  SyncInv'
  <2>1. /\ stage = "Quit" => Successes(results) \subseteq link.accepted
        /\ ~ link.left
    BY <1>3, <1>4, Zenon DEF InUse
  <2> QED BY <1>4, <2>1, ErrorSync, Zenon
<1>5. CASE NoDestination
  <2>1. /\ outcome' = "transient" /\ stage' = "Done" /\ conn' = conn
        /\ waiting' = waiting /\ partial' = partial
    BY <1>5 DEF NoDestination, ConnectionFailed
  <2>2. SuccessMeansAccepted'
    BY <2>1 DEF SuccessMeansAccepted
  <2>3. (\A d \in 1..MaxDestinations : BodyAlone(conn[d]))'
    BY <1>3, <2>1
  <2>4. (dest = 0 => outcome # "ok")'
    BY <2>1
  <2> QED BY <1>3, <2>1, <2>2, <2>3, <2>4, Zenon DEF SyncInv
<1>6. CASE ConnectSucceeds
  <2>1. /\ stage = "Connect" /\ dest # 0 /\ stage' = "Greeting" /\ waiting' = TRUE
        /\ conn' = [conn EXCEPT ![dest] = Opened]
        /\ dest' = dest /\ partial' = partial /\ results' = results /\ outcome' = outcome
    BY <1>6 DEF ConnectSucceeds
  <2>2. partial' = 0 /\ outcome' # "ok"
    BY <1>2, <1>3, <2>1
  <2>3. /\ Opened.toServer = <<Command("CONNECT")>> /\ Opened.toClient = <<>>
        /\ Opened.more = 0 /\ Opened.torn = "no" /\ Opened.left = FALSE
    BY DEF Opened, Closed
  <2>4. /\ Len(Opened.toServer) = 1 /\ Opened.toServer[1].verb = "CONNECT"
        /\ DOMAIN Opened.toServer = {1} /\ DOMAIN Opened.toClient = {}
    BY <2>3 DEF Command
  <2>5. NoBody(Opened) /\ BodyAlone(Opened) /\ NoGoAhead(Opened, 0) /\ Whole(Opened)
    <3>1. NoBody(Opened)
      BY <2>4 DEF NoBody
    <3>2. NoGoAhead(Opened, 0)
      BY <2>3, <2>4 DEF NoGoAhead
    <3>3. Whole(Opened)
      BY <2>3, Zenon DEF Whole
    <3> QED BY <3>1, <3>2, <3>3, Zenon DEF BodyAlone
  <2>6. InStep(Opened, "Greeting", TRUE, 0, results')
    BY <2>3, <2>4, Zenon DEF InStep, Asked
  <2>7. InUse(Opened, "Greeting", TRUE, 0, results')
    BY <2>3, <2>5, <2>6 DEF InUse
  <2>8. Opened \in Links
    BY <1>1, <2>1, LinkTypes, Zenon
  <2> QED BY <2>1, <2>2, <2>5, <2>7, <2>8, StaySync, Zenon
<1>7. CASE ConnectFails
  <2>1. stage = "Connect" /\ dest # 0
    BY <1>7, Zenon DEF ConnectFails
  <2>2. CASE try < Len(dests[dest])
    <3>1. UNCHANGED <<dest, stage, waiting, partial, results, outcome, conn>>
      BY <1>7, <2>2, Zenon DEF ConnectFails
    <3> QED BY <1>2, <1>3, <2>1, <3>1 DEF SyncInv, SuccessMeansAccepted
  <2>3. CASE ~ (try < Len(dests[dest]))
    <3>1. Fail("transient", conn[dest])
      BY <1>7, <2>3, Zenon DEF ConnectFails, ConnectionFailed
    <3>2. conn[dest] \in Links /\ BodyAlone(conn[dest])
      BY <1>1, <1>3, <2>1
    <3>3. stage # "Done" /\ "transient" \in {"permanent", "transient"}
      BY <2>1
    <3> QED BY <2>1, <3>1, <3>2, <3>3, FailSync, Zenon
  <2> QED BY <2>2, <2>3
<1> DEFINE x == conn[dest]
<1>8. ASSUME stage \notin {"Connect", "Done"}
      PROVE  /\ x \in Links /\ BodyAlone(x) /\ dest # 0 /\ outcome = "none"
             /\ InUse(x, stage, waiting, partial, results)
             /\ stage # "Final" => NoBody(x)
             /\ stage = "RcptTo" => NoGoAhead(x, partial) /\ NoGoAhead(x, 0)
  <2>1. dest # 0 /\ outcome = "none"
    BY <1>2, <1>8
  <2>2. x \in Links /\ BodyAlone(x)
    BY <1>1, <1>3, <2>1
  <2>3. InUse(x, stage, waiting, partial, results)
    BY <1>3, <1>8, Zenon
  <2>4. /\ stage # "Final" => NoBody(x)
        /\ stage = "RcptTo" => NoGoAhead(x, partial)
    BY <2>3, Zenon DEF InUse
  <2>5. NoGoAhead(x, partial) => NoGoAhead(x, 0)
    BY DEF NoGoAhead
  <2> QED BY <2>1, <2>2, <2>3, <2>4, <2>5, Zenon
<1>9. ASSUME ToSend
      PROVE  stage \in {"Ehlo", "Helo", "MailFrom", "RcptTo", "Data", "Body", "Quit"} /\ waiting = FALSE
  BY <1>1, <1>9 DEF ToSend
<1>10. ASSUME waiting PROVE stage \notin {"Connect", "Done"} /\ waiting = TRUE
  BY <1>1, <1>2, <1>10
<1> HIDE DEF x
<1>11. CASE Send
  <2>1. /\ stage \in {"Ehlo", "Helo", "MailFrom", "RcptTo", "Data", "Body", "Quit"}
        /\ waiting = FALSE
    BY <1>9, <1>11, Zenon DEF Send
  <2>2. /\ waiting' = TRUE /\ stage' = IF stage = "Body" THEN "Final" ELSE stage
        /\ dest' = dest /\ partial' = partial /\ results' = results /\ outcome' = outcome
    BY <1>11 DEF Send
  <2>3. stage \notin {"Connect", "Done"}
    BY <2>1
  <2>4. /\ x \in Links /\ BodyAlone(x) /\ dest # 0 /\ outcome = "none"
        /\ InUse(x, stage, waiting, partial, results)
    BY <1>8, <2>3, Zenon
  <2>5. partial = 0 /\ InUse(x, stage, FALSE, 0, results)
    BY <1>3, <2>1, <2>4
  <2>6. CommandOf = CommandAt(x, stage, results)
    BY Zenon DEF CommandOf, CommandAt, x
  <2>7. dest \in 1..MaxDestinations
    BY <1>1, <2>4
  <2>8. PICK link \in Links :
          /\ conn' = [conn EXCEPT ![dest] = link]
          /\ Sent(x, link, stage, results)
    <3>1. conn'[dest] \in Links
      BY <2>7 DEF Inv, ClientTypeOK
    <3>2. CASE x.up
      <4> DEFINE command == CommandAt(x, stage, results)
                 link    == [x EXCEPT !.toServer = Append(x.toServer, command), !.cut = FALSE]
      <4>1. conn' = [conn EXCEPT ![dest].toServer = Append(@, command), ![dest].cut = FALSE]
        BY <1>11, <2>6, <3>2, Zenon DEF Send, x
      <4> HIDE DEF command
      <4>2. conn' = [conn EXCEPT ![dest] = link]
        BY <1>1, <2>7, <4>1 DEF x
      <4>3. conn'[dest] = link
        BY <1>1, <2>7, <4>2
      <4>4. Sent(x, link, stage, results)
        BY <3>2, Zenon DEF Sent, command
      <4> QED BY <3>1, <4>2, <4>3, <4>4, Zenon
    <3>3. CASE ~ x.up
      <4>1. conn' = conn
        BY <1>11, <3>3, Zenon DEF Send, x
      <4>2. conn' = [conn EXCEPT ![dest] = x]
        BY <1>1, <2>7, <4>1 DEF x
      <4> QED BY <2>4, <3>3, <4>2, Zenon DEF Sent
    <3> QED BY <3>2, <3>3
  <2>9. /\ InUse(link, IF stage = "Body" THEN "Final" ELSE stage, TRUE, 0, results)
        /\ BodyAlone(x) => BodyAlone(link)
    <3>1. stage \in SendStages
      BY <2>1 DEF SendStages
    <3>2. results \in Seq(Classes)
      BY <1>1, Zenon
    <3>3. x \in Links
      BY <2>4, Zenon
    <3>4. InUse(x, stage, FALSE, 0, results)
      BY <2>5, Zenon
    <3>5. Sent(x, link, stage, results)
      BY <2>8, Zenon
    <3> QED BY <3>1, <3>2, <3>3, <3>4, <3>5, SendKeeps, Zenon
  <2>10. InUse(link, stage', waiting', partial', results')
    BY <2>2, <2>5, <2>9, Zenon
  <2>11. outcome' # "ok"
    BY <2>2, <2>4
  <2> QED BY <2>2, <2>4, <2>8, <2>9, <2>10, <2>11, StaySync, Zenon
<1>12. CASE SendFails
  <2>1. stage \notin {"Connect", "Done"}
    BY <1>9, <1>12 DEF SendFails
  <2>2. ~ x.up /\ OnError("transient", x) /\ "transient" \in {"permanent", "transient"}
    BY <1>12 DEF SendFails, IoError, x
  <2>3. /\ x \in Links /\ BodyAlone(x)
        /\ stage = "RcptTo" => NoBody(x) /\ NoGoAhead(x, 0)
    BY <1>8, <2>1
  <2> QED BY <1>4, <2>1, <2>2, <2>3, Zenon DEF x
<1>13. CASE SendTimesOut
  <2>1. PICK some \in BOOLEAN : OnError("transient", [x EXCEPT !.cut = @ \/ some])
    BY <1>13, Zenon DEF SendTimesOut, TimedOut, x
  <2>2. stage \notin {"Connect", "Done"} /\ waiting = FALSE
    BY <1>9, <1>13 DEF SendTimesOut
  <2>3. /\ x \in Links /\ BodyAlone(x) /\ InUse(x, stage, FALSE, partial, results)
        /\ stage = "RcptTo" => NoBody(x) /\ NoGoAhead(x, 0)
    BY <1>8, <2>2, Zenon
  <2>4. PICK cut \in BOOLEAN : cut = (x.cut \/ some)
    OBVIOUS
  <2>5. PICK link : link = [x EXCEPT !.cut = cut]
    OBVIOUS
  <2>6. OnError("transient", link) /\ "transient" \in {"permanent", "transient"}
    BY <2>1, <2>4, <2>5
  <2>7. /\ link \in Links /\ link.accepted = x.accepted /\ link.left = x.left /\ link.up = x.up
        /\ BodyAlone(x) => BodyAlone(link)
        /\ NoBody(x) => NoBody(link)
        /\ NoGoAhead(x, 0) => NoGoAhead(link, 0)
        /\ Whole(x) => Whole(link)
        /\ \A r \in Seq(Classes) : Settles(x, r) => Settles(link, r)
    BY <2>3, <2>5, CutLink, Zenon
  <2>8. stage = "RcptTo" => (x.up => Whole(x) /\ Settles(x, results))
    BY <2>3, Zenon DEF InUse, Knows, Settles
  <2>9. stage = "RcptTo" => /\ NoBody(link) /\ NoGoAhead(link, 0)
                            /\ link.up => Whole(link) /\ Settles(link, results)
    BY <1>1, <2>3, <2>7, <2>8, Zenon
  <2> QED BY <1>4, <2>2, <2>3, <2>6, <2>7, <2>9, Zenon DEF x
<1>14. Taken \in {1, 2} /\ Taken = IF x.torn = "lf" THEN 2 ELSE 1
  BY Zenon DEF Taken, x
<1>15. ASSUME waiting
       PROVE  /\ x \in Links /\ BodyAlone(x) /\ dest # 0 /\ outcome = "none"
              /\ stage \notin {"Connect", "Done"}
              /\ InUse(x, stage, TRUE, partial, results)
              /\ stage = "RcptTo" => NoBody(x) /\ NoGoAhead(x, partial) /\ NoGoAhead(x, 0)
              /\ x.up => Whole(x) /\ (stage = "RcptTo" => Knows(x, "RcptTo", TRUE, partial, results))
  <2>1. stage \notin {"Connect", "Done"} /\ waiting = TRUE
    BY <1>10, <1>15, Zenon
  <2>2. /\ x \in Links /\ BodyAlone(x) /\ dest # 0 /\ outcome = "none"
        /\ InUse(x, stage, TRUE, partial, results)
        /\ stage = "RcptTo" => NoGoAhead(x, partial) /\ NoGoAhead(x, 0)
        /\ stage # "Final" => NoBody(x)
    BY <1>8, <2>1, Zenon
  <2>3. x.up => Whole(x) /\ (stage = "RcptTo" => Knows(x, "RcptTo", TRUE, partial, results))
    BY <2>2, Zenon DEF InUse
  <2> QED BY <2>1, <2>2, <2>3
<1>16. ASSUME waiting, NEW n \in {1, 2}, Len(x.toClient) >= n
       PROVE  Consumed(n) \in Links /\ Reads(x, Consumed(n), n) /\ BodyAlone(Consumed(n))
  <2>1. Consumed(n) = [x EXCEPT !.toClient = SubSeq(x.toClient, n + 1, Len(x.toClient)), !.torn = "no"]
    BY Zenon DEF Consumed, x
  <2> QED BY <1>15, <1>16, <2>1, ReadLink, Zenon
<1>17. ASSUME waiting, Len(x.toClient) >= 1, NEW q \in Codes \cup {0}, Continues(x, partial, q),
              partial' = q, conn' = [conn EXCEPT ![dest] = Consumed(1)],
              UNCHANGED <<dest, stage, waiting, results, outcome>>
       PROVE  SyncInv'
  <2>1. PICK link \in Links : link = Consumed(1) /\ Reads(x, link, 1) /\ BodyAlone(link)
    BY <1>16, <1>17
  <2>2. /\ x \in Links /\ InUse(x, stage, TRUE, partial, results)
        /\ waiting = TRUE /\ outcome = "none" /\ dest # 0
    BY <1>10, <1>15, <1>17, Zenon
  <2>3. InUse(link, stage, TRUE, q, results)
    BY <1>1, <1>17, <2>1, <2>2, ReadOn, Zenon
  <2>4. /\ dest' = dest /\ stage' = stage /\ waiting' = waiting /\ results' = results
        /\ waiting' = TRUE /\ outcome' # "ok"
    BY <1>17, <2>2
  <2>5. InUse(link, stage', waiting', partial', results')
    BY <1>17, <2>3, <2>4, Zenon
  <2>6. conn' = [conn EXCEPT ![dest] = link]
    BY <1>17, <2>1, Zenon
  <2> QED BY <2>1, <2>2, <2>4, <2>5, <2>6, StaySync, Zenon
<1>18. ASSUME waiting, Len(x.toClient) >= 1, NEW code \in Codes, Ends(x, partial, code),
              OnReply(code, Consumed(1))
       PROVE  SyncInv'
  <2>1. PICK link \in Links : link = Consumed(1) /\ Reads(x, link, 1) /\ BodyAlone(link)
    BY <1>16, <1>18
  <2>2. OnReply(code, link)
    BY <1>18, <2>1, Zenon
  <2>3. x \in Links /\ x = conn[dest] /\ stage \notin {"Connect", "Done"}
    BY <1>15, <1>18, Zenon DEF x
  <2> QED BY <1>18, <2>1, <2>2, <2>3, ReplySync, Zenon
<1>19. ASSUME Readable, x.torn # "lf"
       PROVE  /\ waiting /\ Len(x.toClient) >= 1 /\ Head(x.toClient) = x.toClient[1]
              /\ x.toClient[1] \in [code : Codes, last : BOOLEAN]
  <2>1. waiting /\ Len(x.toClient) >= Taken
    BY <1>19, Zenon DEF Readable, x
  <2>2. Len(x.toClient) >= 1
    BY <1>14, <1>19, <2>1
  <2>3. x.toClient \in Seq([code : Codes, last : BOOLEAN])
    BY <1>15, <2>1, LinkFields, Zenon
  <2>4. Head(x.toClient) = x.toClient[1] /\ 1 \in 1..Len(x.toClient)
    BY <2>2, <2>3, HeadTailProperties, LenProperties
  <2> QED BY <2>1, <2>2, <2>3, <2>4, ElementOfSeq
<1>20. CASE ReadContinuation
  <2> DEFINE q == IF partial = 0 THEN x.toClient[1].code ELSE partial
  <2>1. /\ Readable /\ x.torn = "no" /\ ~ Head(x.toClient).last
        /\ partial' = IF partial = 0 THEN Head(x.toClient).code ELSE partial
        /\ conn' = [conn EXCEPT ![dest] = Consumed(1)]
        /\ UNCHANGED <<dest, stage, waiting, results, outcome>>
    BY <1>20 DEF ReadContinuation, x
  <2>2. x.torn # "lf"
    BY <2>1
  <2>3. /\ waiting /\ Len(x.toClient) >= 1 /\ Head(x.toClient) = x.toClient[1]
        /\ x.toClient[1] \in [code : Codes, last : BOOLEAN]
    BY <1>19, <2>1, <2>2, Zenon
  <2>4. q \in Codes \cup {0}
    BY <1>1, <2>3
  <2>5. partial' = q /\ Continues(x, partial, q)
    BY <2>1, <2>3, Zenon DEF Continues
  <2> HIDE DEF q
  <2> QED BY <1>17, <2>1, <2>3, <2>4, <2>5
<1>21. CASE ReadReply
  <2> DEFINE code == IF partial = 0 THEN x.toClient[1].code ELSE partial
  <2>1. /\ Readable /\ x.torn = "no" /\ Head(x.toClient).last
        /\ OnReply(IF partial = 0 THEN Head(x.toClient).code ELSE partial, Consumed(1))
    BY <1>21, Zenon DEF ReadReply, x
  <2>2. x.torn # "lf"
    BY <2>1
  <2>3. /\ waiting /\ Len(x.toClient) >= 1 /\ Head(x.toClient) = x.toClient[1]
        /\ x.toClient[1] \in [code : Codes, last : BOOLEAN]
    BY <1>19, <2>1, <2>2, Zenon
  <2>4. code \in Codes
    BY <1>1, <2>3
  <2>5. OnReply(code, Consumed(1)) /\ Ends(x, partial, code)
    BY <2>1, <2>3, Zenon DEF Ends
  <2> HIDE DEF code
  <2> QED BY <1>18, <2>3, <2>4, <2>5
<1>22. CASE ReadTail
  <2>1. PICK code \in TailCodes : OnReply(code, Consumed(1))
    BY <1>22, Zenon DEF ReadTail
  <2>2. Readable /\ x.torn = "mid"
    BY <1>22, Zenon DEF ReadTail, x
  <2>3. code \in {450, 550} /\ code \in Codes /\ x.torn # "lf"
    BY <2>1, <2>2 DEF TailsRefuse, Codes
  <2>4. Ends(x, partial, code)
    BY <2>2, <2>3, Zenon DEF Ends
  <2> QED BY <1>18, <1>19, <2>1, <2>2, <2>3, <2>4
<1>23. CASE ReadTailContinuation
  <2>1. /\ Readable /\ x.torn = "mid" /\ partial' \in TailCodes
        /\ conn' = [conn EXCEPT ![dest] = Consumed(1)]
        /\ UNCHANGED <<dest, stage, waiting, results, outcome>>
    BY <1>23 DEF ReadTailContinuation, x
  <2>2. partial' \in {450, 550} /\ partial' \in Codes \cup {0} /\ x.torn # "lf"
    BY <2>1 DEF TailsRefuse, Codes
  <2>3. Continues(x, partial, partial')
    BY <2>1, <2>2, Zenon DEF Continues
  <2> QED BY <1>17, <1>19, <2>1, <2>2, <2>3
<1>27. CASE WaitAgain
  <2>1. UNCHANGED <<dest, stage, waiting, partial, results, outcome, conn>>
    BY <1>27 DEF WaitAgain
  <2> QED BY <2>1, Zenon DEF SyncInv, SuccessMeansAccepted
<1>24. CASE ReadGarbled
  <2>1. /\ waiting /\ x.torn \in {"mid", "lf"} /\ Len(x.toClient) >= Taken
        /\ OnError("permanent", Consumed(Taken))
    BY <1>24 DEF ReadGarbled, Readable, ProtocolError, x
  <2>2. PICK n \in {1, 2} : n = Taken /\ n = IF x.torn = "lf" THEN 2 ELSE 1
    BY <1>14, Zenon
  <2>3. PICK link \in Links : link = Consumed(n) /\ Reads(x, link, n) /\ BodyAlone(link)
    BY <1>16, <2>1, <2>2
  <2>4. /\ link.accepted = x.accepted /\ link.left = x.left /\ link.up = x.up
    BY <2>3, Zenon DEF Reads
  <2>5. stage = "RcptTo" => /\ NoBody(link) /\ NoGoAhead(link, 0)
                            /\ link.up => Whole(link) /\ Settles(link, results)
    <3> SUFFICES ASSUME stage = "RcptTo"
                 PROVE  /\ NoBody(link) /\ NoGoAhead(link, 0)
                        /\ link.up => Whole(link) /\ Settles(link, results)
      OBVIOUS
    <3>1. /\ x \in Links /\ NoBody(x) /\ NoGoAhead(x, partial)
          /\ x.up => Whole(x) /\ Knows(x, "RcptTo", TRUE, partial, results)
      BY <1>15, <2>1, Zenon
    <3>2. /\ Whole(x) => Whole(link)
          /\ NoBody(x) => NoBody(link)
          /\ NoGoAhead(x, partial) => NoGoAhead(link, 0)
      BY <1>1, <2>3, <3>1, ReadKeepsOrder, Zenon
    <3>3. x.torn # "no"
      BY <2>1
    <3>4. link.up => Settles(link, results)
      BY <1>1, <2>2, <2>3, <2>4, <3>1, <3>3, GarbledRead
    <3> QED BY <2>4, <3>1, <3>2, <3>4
  <2>6. OnError("permanent", link) /\ "permanent" \in {"permanent", "transient"}
    BY <2>1, <2>2, <2>3
  <2>7. stage \notin {"Connect", "Done"}
    BY <1>15, <2>1, Zenon
  <2> QED BY <1>4, <2>3, <2>4, <2>5, <2>6, <2>7, Zenon DEF x
<1>25. CASE ReadShort
  <2>1. /\ waiting /\ Len(x.toClient) >= Taken /\ Taken = 1 /\ Return("panicked", Consumed(1))
        /\ UNCHANGED <<dest, results>>
    BY <1>14, <1>25 DEF ReadShort, Readable, x
  <2>2. PICK link \in Links : link = Consumed(1) /\ BodyAlone(link)
    BY <1>16, <2>1
  <2>3. /\ outcome' = "panicked" /\ stage' = "Done" /\ waiting' = FALSE /\ partial' = 0
        /\ conn' = [conn EXCEPT ![dest] = Abandoned(link)]
    BY <2>1, <2>2, Zenon DEF Return
  <2>4. Abandoned(link) \in Links /\ BodyAlone(Abandoned(link)) /\ dest # 0
    BY <1>15, <2>1, <2>2, AbandonedLink
  <2>5. outcome' # "ok"
    BY <2>3
  <2> QED BY <2>1, <2>3, <2>4, <2>5, StaySync, Zenon
<1>26. CASE ReadEnd
  <2>1. waiting /\ ~ x.up /\ OnError("transient", x)
    BY <1>26 DEF ReadEnd, IoError, x
  <2>2. "transient" \in {"permanent", "transient"}
    OBVIOUS
  <2> QED BY <1>4, <1>15, <2>1, <2>2, Zenon DEF x
<1>28. CASE ReadTimesOut
  <2>1. /\ waiting /\ x.up /\ ~ (Len(x.toClient) >= Taken)
    BY <1>28 DEF ReadTimesOut, Readable, x
  <2>2. PICK torn \in Tearings : OnError("transient", [x EXCEPT !.toClient = <<>>, !.torn = torn])
    BY <1>28, Zenon DEF ReadTimesOut, TimedOut, x
  <2>3. x \in Links /\ stage \notin {"Connect", "Done"} /\ BodyAlone(x)
    BY <1>15, <2>1, Zenon
  <2>4. torn \in {"no", "mid", "short", "lf"}
    BY <2>3 DEF Tearings, x
  <2>5. PICK link : link = [x EXCEPT !.toClient = <<>>, !.torn = torn]
    OBVIOUS
  <2>6. link \in Links
    <3>1. \A lines \in Seq([code : Codes, last : BOOLEAN]), part \in {"no", "mid", "short", "lf"} :
            [x EXCEPT !.toClient = lines, !.torn = part] \in Links
      BY <2>3, LinkTypes, Zenon
    <3>2. <<>> \in Seq([code : Codes, last : BOOLEAN])
      OBVIOUS
    <3> QED BY <2>4, <2>5, <3>1, <3>2, Zenon
  <2>7. /\ link.toClient = <<>> /\ link.toServer = x.toServer /\ link.more = x.more
        /\ link.rcpts = x.rcpts /\ link.accepted = x.accepted /\ link.left = x.left
        /\ link.up = x.up /\ link.inData = x.inData
    BY <2>3, <2>5 DEF Links
  <2>8. BodyAlone(link)
    BY <2>3, <2>7 DEF BodyAlone, NoBody
  <2>9. stage = "RcptTo" => /\ NoBody(link) /\ NoGoAhead(link, 0)
                            /\ link.up => Whole(link) /\ Settles(link, results)
    <3> SUFFICES ASSUME stage = "RcptTo"
                 PROVE  /\ NoBody(link) /\ NoGoAhead(link, 0)
                        /\ Whole(link) /\ Settles(link, results)
      OBVIOUS
    <3>1. NoBody(x) /\ NoGoAhead(x, 0) /\ Knows(x, "RcptTo", TRUE, partial, results)
      BY <1>15, <2>1, Zenon
    <3>2. NoBody(link) /\ Whole(link)
      BY <2>7, <3>1, Zenon DEF NoBody, Whole
    <3>3. NoGoAhead(link, 0)
      <4>1. DOMAIN link.toClient = {}
        BY <2>7
      <4>2. /\ x.more # 354 /\ 0 # 354
            /\ \A i \in DOMAIN x.toServer : x.toServer[i].verb # "DATA"
        BY <3>1, Zenon DEF NoGoAhead
      <4>3. /\ link.more # 354
            /\ \A i \in DOMAIN link.toServer : link.toServer[i].verb # "DATA"
        BY <2>7, <4>2
      <4> QED BY <4>1, <4>2, <4>3 DEF NoGoAhead
    <3>4. Len(x.toClient) < IF x.torn = "lf" THEN 2 ELSE 1
      <4>1. Len(x.toClient) \in Nat
        BY <2>3, LinkFields, Zenon
      <4> QED BY <1>14, <2>1, <4>1
    <3>5. Settles(link, results)
      BY <1>1, <2>3, <2>6, <2>7, <3>1, <3>4, TimeoutBehind
    <3> QED BY <3>2, <3>3, <3>5
  <2>10. OnError("transient", link) /\ "transient" \in {"permanent", "transient"}
    BY <2>2, <2>5
  <2> QED BY <1>4, <2>3, <2>6, <2>7, <2>8, <2>9, <2>10, Zenon DEF x
<1> QED BY <1>5, <1>6, <1>7, <1>11, <1>12, <1>13, <1>20, <1>21, <1>24, <1>25, <1>26, <1>28,
           <1>22, <1>23, <1>27, Zenon DEF Client

\* At every await of a delivery the client and the server are in step, or the client refuses or is
\* behind: then it takes old replies for the answers it waits for, but it never reads a 354, so
\* that no recipient it took for accepted is reported delivered (client.rs:108-273, 408-466).
THEOREM Synchrony ==
  ASSUME TailsRefuse
  PROVE  Spec => []SyncInv
<1>1. Init => SyncInv
  <2> SUFFICES ASSUME Init PROVE SyncInv
    OBVIOUS
  <2>1. /\ partial = 0 /\ stage = "Connect" /\ outcome = "none"
        /\ conn = [d \in 1..MaxDestinations |-> Closed]
    BY DEF Init
  <2>2. BodyAlone(Closed)
    <3>1. DOMAIN Closed.toServer = {}
      BY DEF Closed
    <3> QED BY <3>1, Zenon DEF BodyAlone, NoBody
  <2>3. \A d \in 1..MaxDestinations : BodyAlone(conn[d])
    BY <2>1, <2>2
  <2>4. SuccessMeansAccepted
    BY <2>1 DEF SuccessMeansAccepted
  <2> QED BY <2>1, <2>3, <2>4 DEF SyncInv
<1>2. Inv /\ Inv' /\ SyncInv /\ [Next]_vars => SyncInv'
  <2> SUFFICES ASSUME Inv, Inv', SyncInv, [Next]_vars PROVE SyncInv'
    OBVIOUS
  <2>1. CASE Client
    BY <2>1, ClientSync
  <2>2. ASSUME NEW d \in 1..MaxDestinations, Answer(d) \/ AnswerOn(d) \/ ServerCloses(d)
        PROVE  SyncInv'
    <3>1. /\ UNCHANGED <<job, clientVars>>
          /\ \A e \in 1..MaxDestinations : e # d => conn'[e] = conn[e]
          /\ BodyAlone(conn[d]) => BodyAlone(conn'[d])
          /\ conn[d].accepted \subseteq conn'[d].accepted
          /\ \A s \in Stages, w \in BOOLEAN, p \in Codes \cup {0}, r \in Seq(Classes) :
               InUse(conn[d], s, w, p, r) => InUse(conn'[d], s, w, p, r)
      BY <2>2, ServerStep
    <3>2. UNCHANGED <<dest, stage, waiting, partial, results, outcome>>
      BY <3>1 DEF clientVars
    <3>3. /\ stage \in Stages /\ waiting \in BOOLEAN /\ partial \in Codes \cup {0}
          /\ results \in Seq(Classes)
          /\ dest = 0 \/ dest \in 1..MaxDestinations
      <4>1. /\ stage \in Stages /\ waiting \in BOOLEAN /\ partial \in Codes \cup {0}
            /\ results \in Seq(Classes)
            /\ [dests |-> dests, rcpts |-> count] \in Jobs /\ dest \in 0..Len(dests)
        BY DEF Inv, ClientTypeOK
      <4>2. Len(dests) \in Nat /\ Len(dests) <= MaxDestinations /\ MaxDestinations \in Nat
        BY <4>1, Selected
      <4> QED BY <4>1, <4>2
    <3>4. /\ dest = 0 => stage \in {"Connect", "Done"} /\ outcome # "ok"
          /\ ~ waiting => partial = 0
          /\ stage \notin {"Connect", "Done"} => InUse(conn[dest], stage, waiting, partial, results)
          /\ \A e \in 1..MaxDestinations : BodyAlone(conn[e])
          /\ outcome = "ok" => Successes(results) \subseteq conn[dest].accepted
      BY DEF Inv, Placed, SyncInv, SuccessMeansAccepted, Successes
    <3>5. /\ \A e \in 1..MaxDestinations : BodyAlone(conn'[e])
          /\ dest # 0 => /\ conn[dest].accepted \subseteq conn'[dest].accepted
                         /\ InUse(conn[dest], stage, waiting, partial, results) =>
                              InUse(conn'[dest], stage, waiting, partial, results)
      <4>1. \A e \in 1..MaxDestinations : BodyAlone(conn'[e])
        BY <2>2, <3>1, <3>4, Zenon
      <4>2. CASE dest = d
        BY <3>1, <3>3, <4>1, <4>2, Zenon
      <4>3. CASE dest # d
        BY <3>1, <3>3, <4>1, <4>3, Zenon
      <4> QED BY <4>2, <4>3
    <3>6. (stage \notin {"Connect", "Done"} => InUse(conn[dest], stage, waiting, partial, results))'
      BY <3>2, <3>4, <3>5
    <3>7. SuccessMeansAccepted'
      <4>1. outcome = "ok" => Successes(results) \subseteq conn'[dest].accepted
        BY <3>4, <3>5
      <4> QED BY <3>2, <4>1, Zenon DEF SuccessMeansAccepted, Successes
    <3>8. (\A e \in 1..MaxDestinations : BodyAlone(conn[e]))'
      BY <3>5
    <3>9. (~ waiting => partial = 0)' /\ (dest = 0 => outcome # "ok")'
      BY <3>2, <3>4
    <3> QED BY <3>6, <3>7, <3>8, <3>9, Zenon DEF SyncInv
  <2>3. CASE UNCHANGED vars
    <3>1. UNCHANGED <<dest, stage, waiting, partial, results, outcome, conn>>
      BY <2>3 DEF vars, clientVars
    <3> QED BY <3>1, Zenon DEF SyncInv, SuccessMeansAccepted
  <2>4. CASE ByteComes
    <3>1. UNCHANGED <<dest, stage, waiting, partial, results, outcome, conn>>
      BY <2>4 DEF ByteComes
    <3> QED BY <3>1, Zenon DEF SyncInv, SuccessMeansAccepted
  <2> QED BY <2>1, <2>2, <2>3, <2>4, Zenon DEF Next, Server
<1> QED BY <1>1, <1>2, Invariance, PTL DEF Spec

\* A recipient reported as delivered is one for whom the server of the destination in use took
\* this message (client.rs:200-261): late, torn and half-read replies never stand for its answer.
THEOREM SuccessCorrect ==
  ASSUME TailsRefuse
  PROVE  Spec => []SuccessMeansAccepted
<1>1. SyncInv => SuccessMeansAccepted
  BY DEF SyncInv
<1> QED BY <1>1, Synchrony, PTL

\* The message goes only to a server that asked for it with 354 and still waits for it
\* (client.rs:347-361); to any other its lines would be commands.
THEOREM BodyCorrect ==
  ASSUME TailsRefuse
  PROVE  Spec => []BodyOnlyWhenAsked
<1>1. Inv /\ SyncInv => BodyOnlyWhenAsked
  <2> SUFFICES ASSUME Inv, SyncInv, NEW d \in 1..MaxDestinations,
                      Command("BODY") \in Range(conn[d].toServer)
               PROVE  conn[d].inData
    BY DEF BodyOnlyWhenAsked
  <2>1. PICK i \in DOMAIN conn[d].toServer : conn[d].toServer[i] = Command("BODY")
    BY DEF Range
  <2>2. conn[d].toServer[i].verb = "BODY"
    BY <2>1 DEF Command
  <2>3. ~ NoBody(conn[d])
    BY <2>2, Zenon DEF NoBody
  <2> QED BY <2>3, Zenon DEF SyncInv, BodyAlone
<1> QED BY <1>1, Invariance, Synchrony, PTL

=============================================================================
