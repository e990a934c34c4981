----------------------------- MODULE SmtpClient -----------------------------
(***************************************************************************)
(* One call of SmtpClient::deliver (src/delivery/client.rs), with the      *)
(* connector and select_destination: destinations are tried in order, each *)
(* through one connection, until try_deliver_to succeeds.                  *)
(*                                                                         *)
(* Every connection has two ends.  The client sends a command and waits    *)
(* for its reply, but never longer than its timeouts, and a timeout does   *)
(* not always end the connection: after one on RCPT TO the client goes on  *)
(* and the late reply is still to come.  The server at the other end is    *)
(* external: it answers the commands it gets in order, with any code, in   *)
(* as many lines as it likes, as late and as slowly as it likes, and may   *)
(* close at any time.  It goes on with what it has got after the client    *)
(* has left.                                                               *)
(*                                                                         *)
(* Built without the feature "tls", which Cargo.toml does not declare.     *)
(* 250 stands for every 2xx, 550 for every 5xx, 450 for every code that is *)
(* neither of these nor 354: no code of the client tells those apart.      *)
(***************************************************************************)
EXTENDS Naturals, SequencesExt

CONSTANTS
  Addresses,        \* socket addresses
  Jobs,             \* what deliver may be asked: destinations and a number of recipients
  MaxDestinations,  \* bound: destinations of a job
  MaxRecipients,    \* bound: recipients of a job, numbered from 1
  MaxUnderWay,      \* bound: lines under way when a reply goes on for one more than two
  TailCodes         \* codes the rest of a torn line may begin with: 300 for "300 seconds"

ASSUME ClientAssumption ==
  /\ MaxRecipients \in Nat \ {0} /\ MaxDestinations \in Nat /\ MaxUnderWay \in Nat
  /\ TailCodes \subseteq {250, 354, 450, 550}
  /\ Jobs \subseteq [dests : Seq(Seq(Addresses)), rcpts : 1..MaxRecipients]
  /\ \A asked \in Jobs : Len(asked.dests) <= MaxDestinations

VARIABLES
  dests,      \* the destinations, each a sequence of addresses; never changes
  count,      \* the number of recipients; never changes
  attempted,  \* attempted_addrs of deliver
  dest,       \* the destination in use, 0 when there is none
  try,        \* index of the address connect tries
  stage,      \* where try_deliver_to is
  waiting,    \* whether it has sent its command and waits in read_response
  partial,    \* code of read_response after a continuation line, 0 before the first line
  heard,      \* whether a byte of the reply has come since command_timeout last passed
  results,    \* results of the recipients so far, in order
  outcome,    \* what deliver returned: "ok", or the class of the error; "none" before
  conn,       \* the connection to each destination
  acked       \* read by no guard: destinations whose 2xx to the body was read

clientVars == <<attempted, dest, try, stage, waiting, partial, heard, results, outcome, acked>>
job  == <<dests, count>>
vars == <<job, clientVars, conn>>

Recipients == 1..MaxRecipients
Codes      == {250, 354, 450, 550}
Verbs      == {"CONNECT", "EHLO", "HELO", "MAIL", "RCPT", "DATA", "BODY", "QUIT", "JUNK"}
Stages     == {"Connect", "Greeting", "Ehlo", "Helo", "MailFrom", "RcptTo", "Data",
               "Body", "Final", "Quit", "Done"}
Classes    == {"success", "permanent", "transient"}

\* CONNECT stands for the new connection, which the server answers with its greeting, JUNK for
\* a line that begins with a part of one command and goes on with the next.
Command(verb) == [verb |-> verb, rcpt |-> 0]
RcptTo(r)     == [verb |-> "RCPT", rcpt |-> r]
Line(code, last) == [code |-> code, last |-> last]

(***************************************************************************)
(* A connection: commands on their way, whether a part of another one was  *)
(* written after them ("cut"), reply lines on their way, and what          *)
(* the client has lost of the line at their head: nothing, all up to less  *)
(* than three bytes before the end ("short"), all but the LF ("lf"), or    *)
(* less ("mid").  Then the server's side: the code of a reply of which     *)
(* lines are still to come, the transaction, and what it answered to whom. *)
(***************************************************************************)
Closed ==
  [up |-> FALSE, left |-> FALSE, toServer |-> <<>>, cut |-> FALSE, toClient |-> <<>>,
   torn |-> "no", more |-> 0, inData |-> FALSE, rcpts |-> {}, refused |-> {}, accepted |-> {}]
Opened == [Closed EXCEPT !.up = TRUE, !.toServer = <<Command("CONNECT")>>]

IsSuccess(code)   == code = 250
IsPermanent(code) == code = 550

\* The classes of DeliveryError: from_smtp_response goes by the code, a ProtocolError is
\* permanent, every other error is transient.
Rejected(code) == IF IsPermanent(code) THEN "permanent" ELSE "transient"
ProtocolError == "permanent"
IoError       == "transient"
TimedOut      == "transient"
ConnectionFailed == "transient"

\* The first destination with an address that is not in `tried'; 0 when there is none.
SelectDestination(tried) ==
  LET open == {d \in DOMAIN dests : \E i \in DOMAIN dests[d] : dests[d][i] \notin tried}
  IN IF open = {} THEN 0 ELSE CHOOSE d \in open : \A e \in open : d <= e

Init ==
  /\ \E asked \in Jobs : dests = asked.dests /\ count = asked.rcpts
  /\ attempted = {}
  /\ dest = SelectDestination({}) /\ try = 1
  /\ stage = "Connect" /\ waiting = FALSE /\ partial = 0 /\ heard = FALSE
  /\ results = <<>> /\ outcome = "none"
  /\ conn = [d \in 1..MaxDestinations |-> Closed]
  /\ acked = {}

-----------------------------------------------------------------------------
(* Steps every stage shares.  `link' is the connection after the step's own reading. *)

\* The client drops the connection; the server keeps what it was sent.
Abandoned(link) ==
  [link EXCEPT !.left = TRUE, !.cut = FALSE, !.toClient = <<>>, !.torn = "no", !.more = 0]

Goto(next, link) ==
  /\ stage' = next /\ waiting' = FALSE /\ partial' = 0 /\ heard' = FALSE
  /\ conn' = [conn EXCEPT ![dest] = link]
  /\ UNCHANGED <<attempted, dest, try, outcome>>

Return(value, link) ==
  /\ outcome' = value
  /\ stage' = "Done" /\ waiting' = FALSE /\ partial' = 0 /\ heard' = FALSE
  /\ conn' = [conn EXCEPT ![dest] = Abandoned(link)]

\* Variant: only the first address of the destination is marked.
FailMarksOne(class, link) ==
  LET tried == attempted \cup {Head(dests[dest])}
      next  == SelectDestination(tried)
  IN /\ attempted' = tried
     /\ IF next = 0
        THEN Return(class, link) /\ UNCHANGED <<dest, try, results>>
        ELSE /\ dest' = next /\ try' = 1
             /\ stage' = "Connect" /\ waiting' = FALSE /\ partial' = 0 /\ heard' = FALSE
             /\ results' = <<>>
             /\ conn' = [conn EXCEPT ![dest] = Abandoned(link)]
             /\ UNCHANGED outcome
     /\ UNCHANGED acked

\* try_deliver_to returned an error: on to the next destination, or return it.
Fail(class, link) ==
  LET tried == attempted \cup Range(dests[dest])
      next  == SelectDestination(tried)
  IN /\ attempted' = tried
     /\ IF next = 0
        THEN Return(class, link) /\ UNCHANGED <<dest, try, results>>
        ELSE /\ dest' = next /\ try' = 1
             /\ stage' = "Connect" /\ waiting' = FALSE /\ partial' = 0 /\ heard' = FALSE
             /\ results' = <<>>
             /\ conn' = [conn EXCEPT ![dest] = Abandoned(link)]
             /\ UNCHANGED outcome
     /\ UNCHANGED acked

\* Variant: a recipient that fails is left out of the result.
AddRecipientIfAccepted(class, link) ==
  LET all == IF class = "success" THEN Append(results, class) ELSE results
      ok  == \E i \in DOMAIN all : all[i] = "success"
  IN /\ results' = all
     /\ Goto(IF Len(results) + 1 < count THEN "RcptTo" ELSE IF ok THEN "Data" ELSE "Quit", link)
     /\ UNCHANGED acked

\* add_recipient; after the last one, DATA if any was accepted, otherwise QUIT.
AddRecipient(class, link) ==
  LET all == Append(results, class)
      ok  == \E i \in DOMAIN all : all[i] = "success"
  IN /\ results' = all
     /\ Goto(IF Len(all) < count THEN "RcptTo" ELSE IF ok THEN "Data" ELSE "Quit", link)
     /\ UNCHANGED acked

\* quit ignores the answer, and its caller ignores quit's errors: the result stands.
Finish(link) == Return("ok", link) /\ UNCHANGED <<attempted, dest, try, results, acked>>

\* Variant: the caller of quit propagates its errors.
OnErrorOfQuitToo(class, link) ==
  IF stage = "RcptTo" THEN AddRecipient(class, link) ELSE Fail(class, link)

\* What an error of sending or reading does: rcpt_to's is recorded for its recipient.
OnError(class, link) ==
  CASE stage = "RcptTo" -> AddRecipient(class, link)
    [] stage = "Quit"   -> Finish(link)
    [] OTHER            -> Fail(class, link)

-----------------------------------------------------------------------------
(* What each stage does with a complete reply. *)

GreetingReply(code, link) ==
  /\ stage = "Greeting"
  /\ IF IsSuccess(code)
     THEN Goto("Ehlo", link) /\ UNCHANGED <<results, acked>>
     ELSE Fail(Rejected(code), link)

\* A server that does not take EHLO, whatever its reason, gets HELO.
EhloReply(code, link) ==
  /\ stage = "Ehlo"
  /\ Goto(IF IsSuccess(code) THEN "MailFrom" ELSE "Helo", link)
  /\ UNCHANGED <<results, acked>>

HeloReply(code, link) ==
  /\ stage = "Helo"
  /\ IF IsSuccess(code)
     THEN Goto("MailFrom", link) /\ UNCHANGED <<results, acked>>
     ELSE Fail(Rejected(code), link)

MailFromReply(code, link) ==
  /\ stage = "MailFrom"
  /\ IF IsSuccess(code)
     THEN Goto("RcptTo", link) /\ UNCHANGED <<results, acked>>
     ELSE Fail(Rejected(code), link)

RcptToReply(code, link) ==
  /\ stage = "RcptTo"
  /\ AddRecipient(IF IsSuccess(code) THEN "success" ELSE Rejected(code), link)

\* Variant: data() takes any success for a go-ahead.
DataReplyAnySuccess(code, link) ==
  /\ stage = "Data"
  /\ IF code = 354 \/ IsSuccess(code)
     THEN Goto("Body", link) /\ UNCHANGED <<results, acked>>
     ELSE Fail(Rejected(code), link)

DataReply(code, link) ==
  /\ stage = "Data"
  /\ IF code = 354
     THEN Goto("Body", link) /\ UNCHANGED <<results, acked>>
     ELSE Fail(Rejected(code), link)

\* Variant: the results are left as they are when the message is refused.
FinalReplyKept(code, link) ==
  /\ stage = "Final"
  /\ Goto("Quit", link)
  /\ acked' = IF IsSuccess(code) THEN acked \cup {dest} ELSE acked
  /\ UNCHANGED results

\* The answer to the message: without success, every accepted recipient fails with it.
FinalReply(code, link) ==
  /\ stage = "Final"
  /\ Goto("Quit", link)
  /\ IF IsSuccess(code)
     THEN acked' = acked \cup {dest} /\ UNCHANGED results
     ELSE /\ results' = [i \in DOMAIN results |->
                           IF results[i] = "success" THEN Rejected(code) ELSE results[i]]
          /\ UNCHANGED acked

QuitReply(code, link) == stage = "Quit" /\ Finish(link)

OnReply(code, link) ==
  \/ GreetingReply(code, link) \/ EhloReply(code, link) \/ HeloReply(code, link)
  \/ MailFromReply(code, link) \/ RcptToReply(code, link) \/ DataReply(code, link)
  \/ FinalReply(code, link) \/ QuitReply(code, link)

-----------------------------------------------------------------------------
(* The client. *)

\* deliver was given no destination with an address.
NoDestination ==
  /\ dest = 0 /\ outcome = "none"
  /\ outcome' = ConnectionFailed /\ stage' = "Done"
  /\ UNCHANGED <<job, attempted, dest, try, waiting, partial, heard, results, acked, conn>>

ConnectSucceeds ==
  /\ stage = "Connect" /\ dest # 0
  /\ stage' = "Greeting" /\ waiting' = TRUE
  /\ conn' = [conn EXCEPT ![dest] = Opened]
  /\ UNCHANGED <<job, attempted, dest, try, partial, heard, results, outcome, acked>>

\* Refused or timed out: the next address, or ConnectionFailed after the last one.
ConnectFails ==
  /\ stage = "Connect" /\ dest # 0
  /\ IF try < Len(dests[dest])
     THEN /\ try' = try + 1
          /\ UNCHANGED <<attempted, dest, stage, waiting, partial, heard, results, outcome, acked,
                         conn>>
     ELSE Fail(ConnectionFailed, conn[dest])
  /\ UNCHANGED job

CommandOf ==
  IF conn[dest].cut THEN Command("JUNK")
  ELSE CASE stage = "Ehlo"     -> Command("EHLO")
         [] stage = "Helo"     -> Command("HELO")
         [] stage = "MailFrom" -> Command("MAIL")
         [] stage = "RcptTo"   -> RcptTo(Len(results) + 1)
         [] stage = "Data"     -> Command("DATA")
         [] stage = "Body"     -> Command("BODY")
         [] stage = "Quit"     -> Command("QUIT")

ToSend == stage \in {"Ehlo", "Helo", "MailFrom", "RcptTo", "Data", "Body", "Quit"} /\ ~ waiting

\* send_line or send_body.  What is written to a connection that the server has closed is lost.
Send ==
  /\ ToSend
  /\ waiting' = TRUE
  /\ stage' = IF stage = "Body" THEN "Final" ELSE stage
  /\ conn' = IF conn[dest].up
             THEN [conn EXCEPT ![dest].toServer = Append(@, CommandOf), ![dest].cut = FALSE]
             ELSE conn
  /\ UNCHANGED <<job, attempted, dest, try, partial, heard, results, outcome, acked>>

\* Writing fails once the server has closed.
SendFails ==
  /\ ToSend /\ ~ conn[dest].up
  /\ OnError(IoError, conn[dest])
  /\ UNCHANGED job

\* The server does not read, and command_timeout or data_timeout passes; a part of the command
\* may have been written.
SendTimesOut ==
  /\ ToSend /\ conn[dest].up
  /\ \E some \in BOOLEAN : OnError(TimedOut, [conn[dest] EXCEPT !.cut = @ \/ some])
  /\ UNCHANGED job

\* Lines read_response takes: one, or two when only the LF of the first is left.
Taken == IF conn[dest].torn = "lf" THEN 2 ELSE 1
Readable == waiting /\ Len(conn[dest].toClient) >= Taken

\* The connection after n lines were read from it.
Consumed(n) ==
  [conn[dest] EXCEPT !.toClient = SubSeq(@, n + 1, Len(@)), !.torn = "no"]

\* A continuation line: its code counts if it is the first.
ReadContinuation ==
  /\ Readable /\ conn[dest].torn = "no" /\ ~ Head(conn[dest].toClient).last
  /\ partial' = IF partial = 0 THEN Head(conn[dest].toClient).code ELSE partial
  /\ heard' = TRUE
  /\ conn' = [conn EXCEPT ![dest] = Consumed(1)]
  /\ UNCHANGED <<job, attempted, dest, try, stage, waiting, results, outcome, acked>>

ReadReply ==
  /\ Readable /\ conn[dest].torn = "no" /\ Head(conn[dest].toClient).last
  /\ OnReply(IF partial = 0 THEN Head(conn[dest].toClient).code ELSE partial, Consumed(1))
  /\ UNCHANGED job

\* The rest of a line whose beginning was thrown away seldom begins with a code.
ReadGarbled ==
  /\ Readable /\ conn[dest].torn \in {"mid", "lf"}
  /\ OnError(ProtocolError, Consumed(Taken))
  /\ UNCHANGED job

\* But if it does, it is taken for a line of its own, the first of a reply or all of it.
ReadTail ==
  /\ Readable /\ conn[dest].torn = "mid"
  /\ \E code \in TailCodes : OnReply(code, Consumed(1))
  /\ UNCHANGED job

ReadTailContinuation ==
  /\ Readable /\ conn[dest].torn = "mid"
  /\ partial' \in TailCodes /\ heard' = TRUE
  /\ conn' = [conn EXCEPT ![dest] = Consumed(1)]
  /\ UNCHANGED <<job, attempted, dest, try, stage, waiting, results, outcome, acked>>

\* line_str[3..] of a line shorter than three bytes panics; the task is gone.
ReadShort ==
  /\ Readable /\ conn[dest].torn = "short"
  /\ Return("panicked", Consumed(1))
  /\ UNCHANGED <<job, attempted, dest, try, results, acked>>

\* The server has closed, and what it sent is read.
ReadEnd ==
  /\ waiting /\ ~ conn[dest].up /\ ~ Readable
  /\ OnError(IoError, conn[dest])
  /\ UNCHANGED job

\* What is missing of the next line after a timeout: nothing when no reply is on its way;
\* of a line that was torn before, at least what was missing then.
Tearings ==
  LET link == conn[dest] IN
  IF link.toServer = <<>> /\ link.more = 0 THEN {"no"}
  ELSE CASE link.torn = "lf" /\ link.toClient = <<>> -> {"lf"}
    [] link.torn \in {"mid", "short"}             -> {link.torn, "short", "lf"}
    [] OTHER                                      -> {"no", "mid", "short", "lf"}

\* A byte of the next line comes: read_response gives the next one command_timeout again.
ByteComes ==
  /\ waiting /\ conn[dest].up /\ ~ Readable /\ ~ heard
  /\ conn[dest].toServer # <<>> \/ conn[dest].more # 0
  /\ heard' = TRUE
  /\ UNCHANGED <<job, attempted, dest, try, stage, waiting, partial, results, outcome, acked, conn>>

WaitAgain ==
  /\ waiting /\ conn[dest].up /\ ~ Readable /\ heard
  /\ heard' = FALSE
  /\ UNCHANGED <<job, attempted, dest, try, stage, waiting, partial, results, outcome, acked, conn>>

\* command_timeout passes without a byte; what was read of a reply is dropped.
ReadTimesOut ==
  /\ waiting /\ conn[dest].up /\ ~ Readable /\ ~ heard
  /\ \E torn \in Tearings :
       OnError(TimedOut, [conn[dest] EXCEPT !.toClient = <<>>, !.torn = torn])
  /\ UNCHANGED job

Client ==
  \/ NoDestination \/ ConnectSucceeds \/ ConnectFails
  \/ Send \/ SendFails \/ SendTimesOut
  \/ ReadContinuation \/ ReadReply \/ ReadGarbled \/ ReadTail \/ ReadTailContinuation
  \/ ReadShort \/ ReadEnd \/ WaitAgain \/ ReadTimesOut

-----------------------------------------------------------------------------
(* The server of destination d. *)

\* 354 only to a DATA after an accepted recipient; 250 to anything else that is a command.
Answers(link, command) ==
  {450, 550} \cup
  (CASE command.verb = "JUNK" -> {}
     [] command.verb = "DATA" -> IF link.rcpts # {} THEN {354} ELSE {}
     [] OTHER                 -> {250})

\* The recipients a command is about.  Of a line of two halves nobody can tell: it may be all.
Whom(link, command) ==
  CASE command.verb = "BODY" -> link.rcpts
    [] command.verb = "JUNK" -> Recipients
    [] OTHER                 -> {command.rcpt} \ {0}

\* The transaction after `command' was answered with `code'.
Served(link, command, code) ==
  [link EXCEPT
     !.toServer = Tail(@),
     !.inData   = code = 354,
     !.rcpts    = IF command.verb = "RCPT" /\ code = 250 THEN @ \cup Whom(link, command) ELSE @,
     !.accepted = IF command.verb = "BODY" /\ code = 250 THEN @ \cup Whom(link, command) ELSE @,
     !.refused  = IF code = 550 THEN @ \cup Whom(link, command) ELSE @]

Reply(link, code, last) ==
  IF link.left THEN link
  ELSE [link EXCEPT !.toClient = Append(@, Line(code, last)), !.more = IF last THEN 0 ELSE code]

Answer(d) ==
  LET link == conn[d] IN
  /\ link.up /\ link.more = 0 /\ link.toServer # <<>>
  /\ \E code \in Answers(link, Head(link.toServer)), last \in BOOLEAN :
       conn' = [conn EXCEPT ![d] = Reply(Served(link, Head(link.toServer), code), code, last)]
  /\ UNCHANGED <<job, clientVars>>

\* One more line of a reply, the last one or not.
AnswerOn(d) ==
  /\ conn[d].up /\ conn[d].more # 0
  /\ \E last \in BOOLEAN :
       /\ last \/ Len(conn[d].toClient) < MaxUnderWay
       /\ conn' = [conn EXCEPT ![d] = Reply(conn[d], conn[d].more, last)]
  /\ UNCHANGED <<job, clientVars>>

\* The server closes, or crashes; of its last lines some may be lost.
ServerCloses(d) ==
  /\ conn[d].up
  /\ \E n \in 0..Len(conn[d].toClient) :
       conn' = [conn EXCEPT ![d].up = FALSE, ![d].toServer = <<>>, ![d].more = 0,
                            ![d].toClient = SubSeq(@, 1, n)]
  /\ UNCHANGED <<job, clientVars>>

Server ==
  \/ \E d \in 1..MaxDestinations : Answer(d) \/ AnswerOn(d) \/ ServerCloses(d)
  \/ ByteComes

Next == Client \/ Server

\* Fairness of the client only: it takes its next step, and command_timeout passes.  Of the
\* servers nothing is assumed: they may fall silent, or send byte after byte for ever.
Spec == Init /\ [][Next]_vars /\ WF_vars(Client)

-----------------------------------------------------------------------------
(* Properties. *)

Links ==
  [up : BOOLEAN, left : BOOLEAN, toServer : Seq([verb : Verbs, rcpt : Recipients \cup {0}]),
   cut : BOOLEAN, toClient : Seq([code : Codes, last : BOOLEAN]), torn : {"no", "mid", "short", "lf"},
   more : Codes \cup {0}, inData : BOOLEAN, rcpts : SUBSET Recipients,
   refused : SUBSET Recipients, accepted : SUBSET Recipients]

\* The state is well-formed, and once the recipients are through, each of them has exactly one
\* result, in order (client.rs:200-222), whatever happened to its reply.
ClientTypeOK ==
  /\ [dests |-> dests, rcpts |-> count] \in Jobs
  /\ attempted \subseteq Addresses
  /\ dest \in 0..Len(dests) /\ try \in Nat
  /\ stage \in Stages /\ waiting \in BOOLEAN /\ heard \in BOOLEAN
  /\ partial \in Codes \cup {0}
  /\ results \in Seq(Classes) /\ Len(results) <= count
  /\ outcome \in {"none", "ok", "panicked", "permanent", "transient"}
  /\ conn \in [1..MaxDestinations -> Links]
  /\ acked \subseteq 1..MaxDestinations
  /\ stage \in {"Data", "Body", "Final", "Quit"} => Len(results) = count

\* A recipient deliver reports as delivered is one for whom the server of the last destination
\* accepted this message: no late reply and no torn line is ever taken for the answer that says so
\* (client.rs:200-261).
SuccessMeansAccepted ==
  outcome = "ok" =>
    \A r \in DOMAIN results : results[r] = "success" => r \in conn[dest].accepted

\* The body is only ever sent to a server that waits for one (client.rs:347-361): elsewhere its
\* lines would be obeyed as commands.
BodyOnlyWhenAsked ==
  \A d \in 1..MaxDestinations :
    Command("BODY") \in Range(conn[d].toServer) => conn[d].inData

\* Once the client has read that a server took the message, the message goes to no other
\* destination and deliver succeeds, whatever happens to QUIT (client.rs:241-266): a second copy
\* needs an answer that was never read.
AckedIsFinal ==
  \A d \in acked : dest = d /\ outcome \in {"none", "ok"}

\* Deliver comes to an end, unless one reply goes on coming for ever, byte by byte or line by line:
\* command_timeout is that of one byte (client.rs:486-495).  Nothing else keeps it: a silent server
\* does not, and every failure uses up a destination (client.rs:115-157).
DeliverEnds == <>(outcome # "none") \/ (<>[]waiting /\ []<>heard)

\* "Permanent failure - should generate bounce" (result.rs:15): a recipient is failed for good
\* only if a server refused it, or the message, for good.
PermanentMeansRefused ==
  outcome = "ok" =>
    \A r \in DOMAIN results : results[r] = "permanent" => r \in conn[dest].refused

=============================================================================
