-------------------------- MODULE SmtpClientProofs --------------------------
(***************************************************************************)
(* One delivery, for any number of addresses, destinations and recipients: *)
(* every recipient gets one result, and a message that a server took goes  *)
(* to no other one.  The invariant behind it says at which stages the      *)
(* client waits, how many results there are at each of them, and that a    *)
(* client that read the acceptance has only QUIT left, with nothing torn   *)
(* on the connection that could make it panic.                             *)
(***************************************************************************)
EXTENDS SmtpClient, SequenceTheorems, WellFoundedInduction, TLAPS

Placed ==
  /\ dest = 0 => stage \in {"Connect", "Done"}
  /\ stage \in {"Connect", "Done"} => waiting = FALSE
  /\ stage # "Done" => outcome = "none"

Counted ==
  /\ stage \in {"Connect", "Greeting", "Ehlo", "Helo", "MailFrom"} => results = <<>>
  /\ stage = "RcptTo" => Len(results) < count

Settled ==
  acked # {} =>
    /\ acked = {dest} /\ dest # 0
    /\ stage \in {"Quit", "Done"} /\ outcome \in {"none", "ok"}
    /\ stage = "Quit" => conn[dest].torn = "no"

Inv == ClientTypeOK /\ Placed /\ Counted /\ Settled

\* The job is one of Jobs, and select_destination finds one of its destinations or none
\* (mx_resolve.rs:180-193): a set of destinations that is not empty has a first one.
LEMMA Selected ==
  ASSUME [dests |-> dests, rcpts |-> count] \in Jobs, NEW tried
  PROVE  /\ dests \in Seq(Seq(Addresses)) /\ Len(dests) \in Nat /\ Len(dests) <= MaxDestinations
         /\ count \in 1..MaxRecipients /\ MaxDestinations \in Nat /\ MaxRecipients \in Nat
         /\ SelectDestination(tried) \in 0..Len(dests)
<1> DEFINE open == {d \in DOMAIN dests : \E i \in DOMAIN dests[d] : dests[d][i] \notin tried}
<1>1. /\ dests \in Seq(Seq(Addresses)) /\ Len(dests) \in Nat /\ Len(dests) <= MaxDestinations
      /\ count \in 1..MaxRecipients /\ MaxDestinations \in Nat /\ MaxRecipients \in Nat
  <2>1. [dests |-> dests, rcpts |-> count] \in [dests : Seq(Seq(Addresses)), rcpts : 1..MaxRecipients]
    BY ClientAssumption DEF ClientAssumption
  <2>2. dests \in Seq(Seq(Addresses)) /\ count \in 1..MaxRecipients
    BY <2>1
  <2>3. Len([dests |-> dests, rcpts |-> count].dests) <= MaxDestinations
    BY ClientAssumption DEF ClientAssumption
  <2> QED BY <2>2, <2>3, ClientAssumption, LenProperties DEF ClientAssumption
<1>2. open \subseteq 1..Len(dests)
  BY <1>1
<1>3. CASE open = {}
  BY <1>1, <1>3 DEF SelectDestination
<1>4. CASE open # {}
  <2>1. open \subseteq Nat
    BY <1>1, <1>2
  <2>2. PICK d \in open : \A e \in open : ~ (<<e, d>> \in OpToRel(<, Nat))
    BY <1>4, <2>1, NatLessThanWellFounded, WFMin, Zenon
  <2>3. \A e \in open : d <= e
    <3>1. \A e \in open : ~ (e < d)
      BY <2>1, <2>2, Zenon DEF OpToRel
    <3> QED BY <3>1, <2>1
  <2>4. SelectDestination(tried) \in open
    <3>1. SelectDestination(tried) = CHOOSE c \in open : \A e \in open : c <= e
      BY <1>4, Zenon DEF SelectDestination
    <3> QED BY <2>3, <3>1, Zenon
  <2> QED BY <1>1, <1>2, <2>4
<1> QED BY <1>1, <1>3, <1>4

\* What the client does to a connection: dropped it is a connection with nothing torn, and so is
\* one of which lines were read (client.rs:387-478).
LEMMA LinkTypes ==
  ASSUME NEW link \in Links
  PROVE  /\ Abandoned(link) \in Links /\ Abandoned(link).torn = "no"
         /\ \A lines \in Seq([code : Codes, last : BOOLEAN]), torn \in {"no", "mid", "short", "lf"} :
              LET read == [link EXCEPT !.toClient = lines, !.torn = torn]
              IN read \in Links /\ read.torn = torn
         /\ \A cut \in BOOLEAN : [link EXCEPT !.cut = cut] \in Links
                               /\ [link EXCEPT !.cut = cut].torn = link.torn
         /\ Closed \in Links /\ Opened \in Links /\ Opened.torn = "no"
<1> DEFINE Lines == Seq([code : Codes, last : BOOLEAN])
<1>1. \A x \in Links : [x EXCEPT !.left = TRUE] \in Links
  BY DEF Links
<1>2. \A x \in Links, lines \in Lines : [x EXCEPT !.toClient = lines] \in Links
  BY DEF Links
<1>3. \A x \in Links, torn \in {"no", "mid", "short", "lf"} :
        [x EXCEPT !.torn = torn] \in Links /\ [x EXCEPT !.torn = torn].torn = torn
  BY DEF Links
<1>4. \A x \in Links : [x EXCEPT !.more = 0] \in Links /\ [x EXCEPT !.more = 0].torn = x.torn
  BY DEF Links
<1>10. \A x \in Links, cut \in BOOLEAN :
         [x EXCEPT !.cut = cut] \in Links /\ [x EXCEPT !.cut = cut].torn = x.torn
  BY DEF Links
<1>5. <<>> \in Lines /\ "no" \in {"no", "mid", "short", "lf"}
  OBVIOUS
<1>11. FALSE \in BOOLEAN
  OBVIOUS
<1> HIDE DEF Lines
<1>6. Abandoned(link) \in Links /\ Abandoned(link).torn = "no"
  <2> DEFINE gone == [link EXCEPT !.left = TRUE]
             whole0 == [gone EXCEPT !.cut = FALSE]
             read == [whole0 EXCEPT !.toClient = <<>>]
             whole == [read EXCEPT !.torn = "no"]
  <2>1. gone \in Links
    BY <1>1, Zenon
  <2>5. whole0 \in Links
    BY <1>10, <1>11, <2>1, Zenon
  <2>2. read \in Links
    BY <1>2, <1>5, <2>5, Zenon
  <2>3. whole \in Links /\ whole.torn = "no"
    BY <1>3, <1>5, <2>2, Zenon
  <2>4. Abandoned(link) = [whole EXCEPT !.more = 0]
    BY Zenon DEF Abandoned
  <2> HIDE DEF whole
  <2> QED BY <1>4, <2>3, <2>4, Zenon
<1>7. \A lines \in Lines, torn \in {"no", "mid", "short", "lf"} :
        LET read == [link EXCEPT !.toClient = lines, !.torn = torn]
        IN read \in Links /\ read.torn = torn
  BY <1>2, <1>3, Zenon
<1>8. Closed \in Links /\ Closed.torn = "no"
  BY DEF Closed, Links
<1>9. Opened \in Links /\ Opened.torn = "no"
  <2>1. <<Command("CONNECT")>> \in Seq([verb : Verbs, rcpt : Recipients \cup {0}])
    BY DEF Command, Verbs
  <2>2. \A x \in Links : [x EXCEPT !.up = TRUE] \in Links /\ [x EXCEPT !.up = TRUE].torn = x.torn
    BY DEF Links
  <2>3. \A x \in Links : /\ [x EXCEPT !.toServer = <<Command("CONNECT")>>] \in Links
                         /\ [x EXCEPT !.toServer = <<Command("CONNECT")>>].torn = x.torn
    BY <2>1 DEF Links
  <2> QED BY <1>8, <2>2, <2>3, Zenon DEF Opened
<1> QED BY <1>6, <1>7, <1>8, <1>9, <1>10, Zenon DEF Lines

\* A failed destination (client.rs:134-155), before any server took the message: the next one is
\* begun with nothing left of it, or deliver returns its error.
LEMMA FailKeeps ==
  ASSUME Inv, NEW class \in {"permanent", "transient"}, NEW link \in Links,
         dest # 0, acked = {}, stage # "Done", Fail(class, link), UNCHANGED job
  PROVE  Inv'
<1> DEFINE tried == attempted \cup Range(dests[dest])
           next  == SelectDestination(tried)
<1>1. /\ dests \in Seq(Seq(Addresses)) /\ Len(dests) \in Nat /\ Len(dests) <= MaxDestinations
      /\ dest \in 1..Len(dests) /\ next \in 0..Len(dests)
      /\ count \in 1..MaxRecipients /\ MaxDestinations \in Nat /\ MaxRecipients \in Nat
  BY Selected DEF Inv, ClientTypeOK
<1>2. attempted' \subseteq Addresses
  <2>1. dests[dest] \in Seq(Addresses)
    BY <1>1
  <2>2. Range(dests[dest]) \subseteq Addresses
    BY <2>1 DEF Range
  <2> QED BY <2>2, Zenon DEF Inv, ClientTypeOK, Fail
<1>3. conn' = [conn EXCEPT ![dest] = Abandoned(link)] /\ acked' = acked
      /\ stage' \in {"Connect", "Done"} /\ waiting' = FALSE /\ partial' = 0 /\ heard' = FALSE
  BY Zenon DEF Fail, Return
<1>4. conn' \in [1..MaxDestinations -> Links]
  BY <1>1, <1>3, LinkTypes DEF Inv, ClientTypeOK
<1>5. /\ \/ /\ next = 0 /\ outcome' = class /\ stage' = "Done"
            /\ dest' = dest /\ try' = try /\ results' = results
         \/ /\ next # 0 /\ outcome' = outcome /\ stage' = "Connect"
            /\ dest' = next /\ try' = 1 /\ results' = <<>>
  BY Zenon DEF Fail, Return
<1> HIDE DEF next, tried
<1>6. dest' \in 1..Len(dests) /\ try' \in Nat /\ outcome' \in {"none", "permanent", "transient"}
      /\ (stage' # "Done" => outcome' = "none")
  BY <1>1, <1>5 DEF Inv, ClientTypeOK, Placed
<1>7. /\ results' \in Seq(Classes) /\ Len(results') <= count
      /\ stage' = "Connect" => results' = <<>>
  <2>1. results \in Seq(Classes) /\ Len(results) <= count
    BY DEF Inv, ClientTypeOK
  <2>2. <<>> \in Seq(Classes) /\ Len(<<>>) <= count
    BY <1>1
  <2> QED BY <1>5, <2>1, <2>2, Zenon
<1>8. ClientTypeOK'
  <2>1. dests' = dests /\ count' = count
    BY DEF job
  <2>2. acked' \subseteq 1..MaxDestinations
    BY <1>3
  <2>3. [dests |-> dests', rcpts |-> count'] \in Jobs /\ Len(results') <= count'
    BY <1>7, <2>1 DEF Inv, ClientTypeOK
  <2>4. dest' \in 0..Len(dests') /\ stage' \in Stages
    BY <1>1, <1>3, <1>6, <2>1 DEF Stages
  <2>5. waiting' \in BOOLEAN /\ heard' \in BOOLEAN /\ partial' \in Codes \cup {0}
    BY <1>3, Zenon
  <2>6. outcome' \in {"none", "ok", "panicked", "permanent", "transient"}
    BY <1>6
  <2>7. stage' \in {"Data", "Body", "Final", "Quit"} => Len(results') = count'
    BY <1>3
  <2> QED BY <1>2, <1>4, <1>6, <1>7, <2>1, <2>2, <2>3, <2>4, <2>5, <2>6, <2>7, Zenon DEF ClientTypeOK
<1>9. Placed' /\ Counted' /\ Settled'
  BY <1>1, <1>3, <1>6, <1>7 DEF Placed, Counted, Settled
<1> QED BY <1>8, <1>9 DEF Inv

\* A step that stays with its connection, or ends deliver on it (client.rs:162-273): what is left
\* to show of the invariant is what the step does to the results and to the stage.
LEMMA StayKeeps ==
  ASSUME Inv, dest # 0, NEW link \in Links, conn' = [conn EXCEPT ![dest] = link],
         UNCHANGED <<job, attempted, dest, try>>,
         results' \in Seq(Classes), Len(results') <= count,
         stage' \in Stages \ {"Connect"}, waiting' \in BOOLEAN, heard' \in BOOLEAN,
         partial' \in Codes \cup {0},
         outcome' \in {"none", "ok", "panicked", "permanent", "transient"},
         stage' # "Done" => outcome' = "none",
         stage' = "Done" => waiting' = FALSE,
         stage' \in {"Greeting", "Ehlo", "Helo", "MailFrom"} => results' = <<>>,
         stage' = "RcptTo" => Len(results') < count,
         stage' \in {"Data", "Body", "Final", "Quit"} => Len(results') = count,
         acked' = {} \/ /\ acked' = {dest} /\ stage' \in {"Quit", "Done"}
                        /\ outcome' \in {"none", "ok"} /\ link.torn = "no"
  PROVE  Inv'
<1>1. /\ dests' = dests /\ count' = count /\ attempted' = attempted
      /\ dest' = dest /\ try' = try
  BY DEF job
<1>2. /\ [dests |-> dests, rcpts |-> count] \in Jobs /\ attempted \subseteq Addresses
      /\ dest \in 0..Len(dests) /\ try \in Nat
      /\ conn \in [1..MaxDestinations -> Links]
  BY DEF Inv, ClientTypeOK
<1>3. dest \in 1..MaxDestinations
  BY <1>2, Selected
<1>4. conn' \in [1..MaxDestinations -> Links] /\ conn'[dest] = link
  BY <1>2, <1>3
<1>5. acked' \subseteq 1..MaxDestinations
  BY <1>3, Zenon
<1>6. stage' \in Stages
  OBVIOUS
<1>7. ClientTypeOK'
  BY <1>1, <1>2, <1>4, <1>5, <1>6, Zenon DEF ClientTypeOK
<1>8. Placed'
  BY <1>1 DEF Placed
<1>9. Counted'
  BY <1>1 DEF Counted
<1>10. Settled'
  BY <1>1, <1>4, Zenon DEF Settled
<1> QED BY <1>7, <1>8, <1>9, <1>10, Zenon DEF Inv

\* A recipient's result is appended (client.rs:200-222): below the last recipient the next one
\* follows, after it every recipient has a result.
LEMMA AddRecipientKeeps ==
  ASSUME Inv, stage = "RcptTo", NEW class \in Classes, NEW link \in Links,
         AddRecipient(class, link), UNCHANGED job
  PROVE  Inv'
<1> DEFINE all == Append(results, class)
<1>1. /\ results \in Seq(Classes) /\ Len(results) < count /\ count \in 1..MaxRecipients
      /\ MaxRecipients \in Nat /\ dest # 0 /\ acked = {} /\ outcome = "none"
  <2>1. count \in 1..MaxRecipients /\ MaxRecipients \in Nat
    BY Selected DEF Inv, ClientTypeOK
  <2>2. dest # 0 /\ acked = {} /\ outcome = "none"
    BY DEF Inv, Placed, Settled
  <2> QED BY <2>1, <2>2 DEF Inv, ClientTypeOK, Counted
<1>2. /\ results' = all /\ acked' = acked /\ outcome' = outcome
      /\ waiting' = FALSE /\ partial' = 0 /\ heard' = FALSE
      /\ conn' = [conn EXCEPT ![dest] = link]
      /\ stage' \in {"RcptTo", "Data", "Quit"} /\ (stage' = "RcptTo" <=> Len(all) < count)
      /\ UNCHANGED <<attempted, dest, try>>
  BY Zenon DEF AddRecipient, Goto
<1>3. all \in Seq(Classes) /\ Len(all) = Len(results) + 1 /\ Len(results) \in Nat
  BY <1>1
<1> HIDE DEF all
<1>4. /\ Len(results') <= count
      /\ stage' = "RcptTo" => Len(results') < count
      /\ stage' # "RcptTo" => Len(results') = count
  BY <1>1, <1>2, <1>3
<1>5. stage' \in Stages \ {"Connect"} /\ stage' # "Done"
      /\ stage' \notin {"Greeting", "Ehlo", "Helo", "MailFrom"}
  BY <1>2 DEF Stages
<1>6. UNCHANGED <<job, attempted, dest, try>>
  BY <1>2
<1>7. waiting' \in BOOLEAN /\ heard' \in BOOLEAN /\ partial' \in Codes \cup {0}
  BY <1>2, Zenon
<1>8. stage' \in {"Data", "Body", "Final", "Quit"} => Len(results') = count
  BY <1>4, Zenon
<1> QED BY <1>1, <1>2, <1>3, <1>4, <1>5, <1>6, <1>7, <1>8, StayKeeps, Zenon

\* An error of sending or reading (client.rs:200-268): recorded for its recipient, ignored after
\* the message was settled, or the end of the destination.
LEMMA ErrorKeeps ==
  ASSUME Inv, stage \notin {"Connect", "Done"}, NEW class \in {"permanent", "transient"},
         NEW link \in Links, OnError(class, link), UNCHANGED job
  PROVE  Inv'
<1>1. dest # 0
  BY DEF Inv, Placed
<1>2. CASE stage = "RcptTo"
  <2>1. AddRecipient(class, link) /\ class \in Classes
    BY <1>2 DEF OnError, Classes
  <2> QED BY <1>2, <2>1, AddRecipientKeeps
<1>3. CASE stage = "Quit"
  <2>1. Finish(link)
    BY <1>3 DEF OnError
  <2>2. /\ results' = results /\ acked' = acked /\ outcome' = "ok"
        /\ waiting' = FALSE /\ partial' = 0 /\ heard' = FALSE /\ stage' = "Done"
        /\ conn' = [conn EXCEPT ![dest] = Abandoned(link)]
        /\ UNCHANGED <<job, attempted, dest, try>>
    BY <2>1 DEF Finish, Return
  <2>3. Abandoned(link) \in Links /\ Abandoned(link).torn = "no"
    BY LinkTypes
  <2>4. results' \in Seq(Classes) /\ Len(results') <= count
    BY <2>2 DEF Inv, ClientTypeOK
  <2>5. acked' = {} \/ acked' = {dest}
    BY <2>2 DEF Inv, Settled
  <2>6. /\ stage' \in Stages \ {"Connect"} /\ partial' \in Codes \cup {0}
        /\ waiting' \in BOOLEAN /\ heard' \in BOOLEAN
    BY <2>2, Zenon DEF Stages
  <2> QED BY <1>1, <2>2, <2>3, <2>4, <2>5, <2>6, StayKeeps, Zenon
<1>4. CASE stage \notin {"RcptTo", "Quit"}
  <2>1. Fail(class, link)
    BY <1>4 DEF OnError
  <2>2. acked = {}
    BY <1>4 DEF Inv, Settled
  <2> QED BY <1>1, <2>1, <2>2, FailKeeps
<1> QED BY <1>2, <1>3, <1>4

\* A complete reply (client.rs:165-266): only the answer to the body settles the message, and
\* what is left on the connection after it is not torn.
LEMMA ReplyKeeps ==
  ASSUME Inv, NEW code \in Codes, NEW link \in Links, link.torn = "no",
         OnReply(code, link), UNCHANGED job
  PROVE  Inv'
<1>1. /\ stage \in Stages \ {"Connect", "Done"} => dest # 0 /\ outcome = "none"
      /\ stage \notin {"Quit", "Done"} => acked = {}
      /\ results \in Seq(Classes) /\ Len(results) <= count /\ count \in Nat \ {0}
  <2>1. count \in Nat \ {0}
    BY Selected DEF Inv, ClientTypeOK
  <2> QED BY <2>1 DEF Inv, Placed, Settled, ClientTypeOK
<1>2. Rejected(code) \in {"permanent", "transient"} /\ Rejected(code) \in Classes
  BY DEF Rejected, Classes
<1>3. ASSUME NEW next \in {"Ehlo", "Helo", "MailFrom", "RcptTo", "Body"}, Goto(next, link),
             UNCHANGED <<results, acked>>,
             \/ stage \in {"Greeting", "Ehlo", "Helo", "MailFrom"} /\ next # "Body"
             \/ stage = "Data" /\ next = "Body"
      PROVE  Inv'
  <2>1. /\ stage' = next /\ waiting' = FALSE /\ partial' = 0 /\ heard' = FALSE
        /\ outcome' = outcome
        /\ conn' = [conn EXCEPT ![dest] = link] /\ results' = results /\ acked' = acked
        /\ UNCHANGED <<job, attempted, dest, try>>
    BY <1>3 DEF Goto
  <2>2. dest # 0 /\ outcome = "none" /\ acked = {}
    BY <1>1, <1>3 DEF Stages
  <2>3. /\ stage' \in {"Greeting", "Ehlo", "Helo", "MailFrom"} => results' = <<>>
        /\ stage' = "RcptTo" => Len(results') < count
        /\ stage' \in {"Data", "Body", "Final", "Quit"} => Len(results') = count
    BY <1>1, <1>3, <2>1 DEF Inv, Counted, ClientTypeOK
  <2>4. stage' \in Stages \ {"Connect"} /\ stage' # "Done" /\ partial' \in Codes \cup {0}
        /\ waiting' \in BOOLEAN /\ heard' \in BOOLEAN
    BY <1>3, <2>1, Zenon DEF Stages
  <2> QED BY <1>1, <2>1, <2>2, <2>3, <2>4, StayKeeps, Zenon
<1>4. ASSUME NEW class \in {"permanent", "transient"}, Fail(class, link),
             stage \in {"Greeting", "Helo", "MailFrom", "Data"}
      PROVE  Inv'
  <2>1. dest # 0 /\ acked = {} /\ stage # "Done"
    BY <1>1, <1>4 DEF Stages
  <2> QED BY <1>4, <2>1, FailKeeps
<1>5. ASSUME GreetingReply(code, link) PROVE Inv'
  <2>1. CASE IsSuccess(code)
    <3>1. /\ stage = "Greeting" /\ Goto("Ehlo", link)
          /\ UNCHANGED <<results, acked>>
      BY <1>5, <2>1, Zenon DEF GreetingReply
    <3> QED BY <1>3, <3>1
  <2>2. CASE ~ IsSuccess(code)
    <3>1. stage = "Greeting" /\ Fail(Rejected(code), link)
      BY <1>5, <2>2, Zenon DEF GreetingReply
    <3> QED BY <1>2, <1>4, <3>1
  <2> QED BY <2>1, <2>2
<1>6. ASSUME EhloReply(code, link) PROVE Inv'
  <2>1. PICK next \in {"MailFrom", "Helo"} :
          stage = "Ehlo" /\ Goto(next, link) /\ UNCHANGED <<results, acked>>
    BY <1>6, Zenon DEF EhloReply
  <2> QED BY <1>3, <2>1
<1>7. ASSUME HeloReply(code, link) PROVE Inv'
  <2>1. CASE IsSuccess(code)
    <3>1. /\ stage = "Helo" /\ Goto("MailFrom", link)
          /\ UNCHANGED <<results, acked>>
      BY <1>7, <2>1, Zenon DEF HeloReply
    <3> QED BY <1>3, <3>1
  <2>2. CASE ~ IsSuccess(code)
    <3>1. stage = "Helo" /\ Fail(Rejected(code), link)
      BY <1>7, <2>2, Zenon DEF HeloReply
    <3> QED BY <1>2, <1>4, <3>1
  <2> QED BY <2>1, <2>2
<1>8. ASSUME MailFromReply(code, link) PROVE Inv'
  <2>1. CASE IsSuccess(code)
    <3>1. /\ stage = "MailFrom" /\ Goto("RcptTo", link)
          /\ UNCHANGED <<results, acked>>
      BY <1>8, <2>1, Zenon DEF MailFromReply
    <3> QED BY <1>3, <3>1
  <2>2. CASE ~ IsSuccess(code)
    <3>1. stage = "MailFrom" /\ Fail(Rejected(code), link)
      BY <1>8, <2>2, Zenon DEF MailFromReply
    <3> QED BY <1>2, <1>4, <3>1
  <2> QED BY <2>1, <2>2
<1>9. ASSUME RcptToReply(code, link) PROVE Inv'
  <2>1. (IF IsSuccess(code) THEN "success" ELSE Rejected(code)) \in Classes
    BY <1>2 DEF Classes
  <2> QED BY <1>9, <2>1, AddRecipientKeeps DEF RcptToReply
<1>10. ASSUME DataReply(code, link) PROVE Inv'
  <2>1. CASE code = 354
    <3>1. /\ stage = "Data" /\ Goto("Body", link)
          /\ UNCHANGED <<results, acked>>
      BY <1>10, <2>1, Zenon DEF DataReply
    <3> QED BY <1>3, <3>1
  <2>2. CASE code # 354
    <3>1. stage = "Data" /\ Fail(Rejected(code), link)
      BY <1>10, <2>2, Zenon DEF DataReply
    <3> QED BY <1>2, <1>4, <3>1
  <2> QED BY <2>1, <2>2
<1>11. ASSUME FinalReply(code, link) PROVE Inv'
  <2>1. /\ stage = "Final" /\ stage' = "Quit" /\ waiting' = FALSE /\ partial' = 0
        /\ heard' = FALSE
        /\ outcome' = outcome /\ conn' = [conn EXCEPT ![dest] = link]
        /\ UNCHANGED <<job, attempted, dest, try>>
    BY <1>11 DEF FinalReply, Goto
  <2>2. dest # 0 /\ outcome = "none" /\ acked = {} /\ Len(results) = count
    BY <1>1, <2>1 DEF Inv, ClientTypeOK, Stages
  <2>3. results' \in Seq(Classes) /\ Len(results') = count
    <3>1. CASE IsSuccess(code)
      BY <1>1, <1>11, <2>2, <3>1 DEF FinalReply
    <3>2. CASE ~ IsSuccess(code)
      <4>1. results' = [i \in 1..Len(results) |->
                          IF results[i] = "success" THEN Rejected(code) ELSE results[i]]
        BY <1>1, <1>11, <3>2 DEF FinalReply
      <4> QED BY <1>1, <1>2, <2>2, <4>1
    <3> QED BY <3>1, <3>2
  <2>4. acked' = {} \/ acked' = {dest}
    BY <1>11, <2>2 DEF FinalReply
  <2>5. stage' \in Stages \ {"Connect"} /\ stage' # "Done" /\ partial' \in Codes \cup {0}
        /\ waiting' \in BOOLEAN /\ heard' \in BOOLEAN
    BY <2>1, Zenon DEF Stages
  <2>6. Len(results') <= count
    BY <1>1, <2>3
  <2> QED BY <2>1, <2>2, <2>3, <2>4, <2>5, <2>6, StayKeeps, Zenon
<1>12. ASSUME QuitReply(code, link) PROVE Inv'
  <2>1. stage = "Quit" /\ OnError("transient", link) /\ stage \notin {"Connect", "Done"}
    BY <1>12 DEF QuitReply, OnError
  <2> QED BY <2>1, ErrorKeeps
<1> QED BY <1>5, <1>6, <1>7, <1>8, <1>9, <1>10, <1>11, <1>12, Zenon DEF OnReply

\* Every step of the client and of any server keeps the invariant (client.rs:108-273).
THEOREM Invariance == Spec => []Inv
<1>1. Init => Inv
  <2> SUFFICES ASSUME Init PROVE Inv
    OBVIOUS
  <2>1. [dests |-> dests, rcpts |-> count] \in Jobs
    <3>1. PICK asked \in Jobs : dests = asked.dests /\ count = asked.rcpts
      BY DEF Init
    <3>2. asked \in [dests : Seq(Seq(Addresses)), rcpts : 1..MaxRecipients]
      BY ClientAssumption DEF ClientAssumption
    <3>3. asked = [dests |-> dests, rcpts |-> count]
      BY <3>1, <3>2
    <3> QED BY <3>3
  <2>2. dest \in 0..Len(dests) /\ count \in 1..MaxRecipients /\ MaxRecipients \in Nat
    BY <2>1, Selected DEF Init
  <2>3. conn \in [1..MaxDestinations -> Links]
    <3>1. Closed \in Links
      BY DEF Closed, Links
    <3> QED BY <3>1 DEF Init
  <2>4. results \in Seq(Classes) /\ Len(results) <= count
    BY <2>2 DEF Init
  <2>5. stage \in Stages /\ try \in Nat /\ attempted \subseteq Addresses
        /\ acked \subseteq 1..MaxDestinations
    BY DEF Init, Stages
  <2>6. waiting \in BOOLEAN /\ heard \in BOOLEAN /\ partial \in Codes \cup {0}
        /\ outcome \in {"none", "ok", "panicked", "permanent", "transient"}
    BY Zenon DEF Init
  <2>7. stage = "Connect" /\ waiting = FALSE /\ outcome = "none" /\ results = <<>> /\ acked = {}
    BY DEF Init
  <2>8. ClientTypeOK
    BY <2>1, <2>2, <2>3, <2>4, <2>5, <2>6, <2>7 DEF ClientTypeOK
  <2>9. Placed /\ Counted /\ Settled
    BY <2>7 DEF Placed, Counted, Settled
  <2> QED BY <2>8, <2>9 DEF Inv
<1>2. Inv /\ [Next]_vars => Inv'
  <2> SUFFICES ASSUME Inv, [Next]_vars PROVE Inv'
    OBVIOUS
  <2>1. /\ [dests |-> dests, rcpts |-> count] \in Jobs
        /\ dests \in Seq(Seq(Addresses)) /\ Len(dests) <= MaxDestinations /\ Len(dests) \in Nat
        /\ count \in 1..MaxRecipients /\ MaxRecipients \in Nat /\ MaxDestinations \in Nat
        /\ dest \in 0..Len(dests) /\ stage \in Stages /\ partial \in Codes \cup {0}
        /\ results \in Seq(Classes) /\ Len(results) <= count /\ Len(results) \in Nat
        /\ conn \in [1..MaxDestinations -> Links]
    BY Selected DEF Inv, ClientTypeOK
  <2>19. heard \in BOOLEAN /\ (heard' = heard => heard' \in BOOLEAN)
    BY Zenon DEF Inv, ClientTypeOK
  <2>2. ASSUME dest # 0
        PROVE  dest \in 1..MaxDestinations /\ conn[dest] \in Links
               /\ conn = [conn EXCEPT ![dest] = conn[dest]]
    BY <2>1, <2>2
  <2>3. /\ stage \notin {"Connect", "Done"} => dest # 0 /\ outcome = "none"
        /\ waiting => stage \notin {"Connect", "Done"}
        /\ acked # {} => /\ acked = {dest} /\ dest # 0 /\ stage \in {"Quit", "Done"}
                         /\ stage = "Quit" => conn[dest].torn = "no"
    <3>1. stage \notin {"Connect", "Done"} => dest # 0 /\ outcome = "none"
      BY DEF Inv, Placed
    <3>2. waiting => stage \notin {"Connect", "Done"}
      BY Zenon DEF Inv, Placed
    <3>3. acked # {} => /\ acked = {dest} /\ dest # 0 /\ stage \in {"Quit", "Done"}
                        /\ stage = "Quit" => conn[dest].torn = "no"
      BY DEF Inv, Settled
    <3> QED BY <3>1, <3>2, <3>3
  <2>4. ASSUME NoDestination PROVE Inv'
    <3>1. /\ dest = 0 /\ stage' = "Done" /\ outcome' = "transient" /\ waiting = FALSE
          /\ UNCHANGED <<dests, count, attempted, dest, try, waiting, partial, heard, results,
                         acked, conn>>
      BY <2>3, <2>4 DEF NoDestination, ConnectionFailed, job, Inv, Placed
    <3>2. acked = {}
      BY <2>3, <3>1
    <3>3. stage' \in Stages /\ stage' \notin {"Data", "Body", "Final", "Quit"}
          /\ outcome' \in {"none", "ok", "panicked", "permanent", "transient"}
      BY <3>1 DEF Stages
    <3>4. ClientTypeOK'
      BY <3>1, <3>3 DEF Inv, ClientTypeOK
    <3> QED BY <3>1, <3>2, <3>4 DEF Inv, Placed, Counted, Settled
  <2>5. ASSUME ConnectSucceeds PROVE Inv'
    <3>1. /\ dest # 0 /\ stage' = "Greeting" /\ waiting' = TRUE
          /\ conn' = [conn EXCEPT ![dest] = Opened]
          /\ results = <<>> /\ outcome = "none" /\ acked = {}
          /\ UNCHANGED <<job, attempted, dest, try, partial, heard, results, outcome, acked>>
      BY <2>3, <2>5 DEF ConnectSucceeds, Inv, Placed, Counted
    <3>2. Opened \in Links
      BY <2>2, <3>1, LinkTypes
    <3>3. stage' \in Stages \ {"Connect"} /\ stage' \notin {"RcptTo", "Data", "Body", "Final", "Quit", "Done"}
      BY <3>1 DEF Stages
    <3>4. waiting' \in BOOLEAN /\ heard' \in BOOLEAN
      BY <2>19, <3>1, Zenon
    <3> QED BY <2>1, <3>1, <3>2, <3>3, <3>4, StayKeeps, Zenon
  <2>6. ASSUME ConnectFails PROVE Inv'
    <3>1. dest # 0 /\ stage = "Connect" /\ acked = {} /\ UNCHANGED job
      BY <2>3, <2>6 DEF ConnectFails
    <3>2. CASE try < Len(dests[dest])
      <4>1. /\ try' = try + 1 /\ dests' = dests /\ count' = count
            /\ UNCHANGED <<attempted, dest, stage, waiting, partial, heard, results, outcome,
                           acked, conn>>
        BY <2>6, <3>1, <3>2 DEF ConnectFails, job
      <4>2. ClientTypeOK'
        BY <4>1 DEF Inv, ClientTypeOK
      <4> QED BY <4>1, <4>2 DEF Inv, Placed, Counted, Settled
    <3>3. CASE ~ (try < Len(dests[dest]))
      <4>1. Fail("transient", conn[dest]) /\ stage # "Done"
        BY <2>6, <3>1, <3>3 DEF ConnectFails, ConnectionFailed
      <4> QED BY <2>2, <3>1, <4>1, FailKeeps
    <3> QED BY <3>2, <3>3
  <2>7. ASSUME Send PROVE Inv'
    <3>1. /\ stage \in {"Ehlo", "Helo", "MailFrom", "RcptTo", "Data", "Body", "Quit"}
          /\ waiting' = TRUE /\ dest # 0 /\ outcome = "none"
          /\ UNCHANGED <<job, attempted, dest, try, partial, heard, results, outcome, acked>>
      BY <2>3, <2>7 DEF Send, ToSend
    <3>2. /\ stage = "Body" => stage' = "Final"
          /\ stage # "Body" => stage' = stage
      BY <2>7 DEF Send
    <3>3. CommandOf \in [verb : Verbs, rcpt : Recipients \cup {0}]
      <4>1. stage = "RcptTo" => Len(results) + 1 \in Recipients
        BY <2>1 DEF Inv, Counted, Recipients
      <4> QED BY <3>1, <4>1 DEF CommandOf, Command, RcptTo, Verbs
    <3>4. PICK link \in Links : /\ conn' = [conn EXCEPT ![dest] = link]
                               /\ link.torn = conn[dest].torn
      <4>1. CASE conn[dest].up
        <5> DEFINE sent == Append(conn[dest].toServer, CommandOf)
        <5>1. sent \in Seq([verb : Verbs, rcpt : Recipients \cup {0}])
          BY <2>2, <3>1, <3>3 DEF Links
        <5> DEFINE link == [conn[dest] EXCEPT !.toServer = sent, !.cut = FALSE]
        <5>2. conn' = [conn EXCEPT ![dest] = link]
          BY <2>1, <2>7, <4>1 DEF Send
        <5> HIDE DEF sent
        <5>3. link \in Links /\ link.torn = conn[dest].torn
          BY <2>2, <3>1, <5>1 DEF Links
        <5> HIDE DEF link
        <5> QED BY <5>2, <5>3
      <4>2. CASE ~ conn[dest].up
        BY <2>2, <2>7, <3>1, <4>2 DEF Send
      <4> QED BY <4>1, <4>2
    <3>5. /\ stage' \in {"Greeting", "Ehlo", "Helo", "MailFrom"} => results' = <<>>
          /\ stage' = "RcptTo" => Len(results') < count
          /\ stage' \in {"Data", "Body", "Final", "Quit"} => Len(results') = count
      BY <3>1, <3>2 DEF Inv, Counted, ClientTypeOK
    <3>6. stage' \in Stages \ {"Connect"} /\ stage' # "Done"
      BY <3>1, <3>2 DEF Stages
    <3>7. waiting' \in BOOLEAN /\ heard' \in BOOLEAN
      BY <2>19, <3>1, Zenon
    <3>8. \/ acked' = {}
          \/ acked' = {dest} /\ stage' \in {"Quit", "Done"} /\ link.torn = "no"
      BY <2>3, <3>1, <3>2, <3>4
    <3> QED BY <2>1, <3>1, <3>4, <3>5, <3>6, <3>7, <3>8, StayKeeps, Zenon
  <2>8. ASSUME SendFails PROVE Inv'
    <3>1. stage \notin {"Connect", "Done"} /\ OnError("transient", conn[dest]) /\ UNCHANGED job
      BY <2>8 DEF SendFails, ToSend, IoError
    <3> QED BY <2>2, <2>3, <3>1, ErrorKeeps
  <2>9. ASSUME SendTimesOut PROVE Inv'
    <3>1. stage \notin {"Connect", "Done"} /\ conn[dest] \in Links /\ UNCHANGED job
      BY <2>2, <2>3, <2>9 DEF SendTimesOut, ToSend
    <3>2. PICK cut \in BOOLEAN : OnError("transient", [conn[dest] EXCEPT !.cut = cut])
      <4>1. PICK some \in BOOLEAN :
              OnError("transient", [conn[dest] EXCEPT !.cut = conn[dest].cut \/ some])
        BY <2>9, Zenon DEF SendTimesOut, TimedOut
      <4>2. (conn[dest].cut \/ some) \in BOOLEAN
        OBVIOUS
      <4> QED BY <4>1, <4>2, Zenon
    <3>3. [conn[dest] EXCEPT !.cut = cut] \in Links
      BY <3>1, LinkTypes, Zenon
    <3> QED BY <3>1, <3>2, <3>3, ErrorKeeps, Zenon
  <2>10. ASSUME waiting, NEW n \in {1, 2}, Len(conn[dest].toClient) >= n
         PROVE  Consumed(n) \in Links /\ Consumed(n).torn = "no"
    <3> DEFINE lines == conn[dest].toClient
               left  == SubSeq(lines, n + 1, Len(lines))
    <3>1. conn[dest] \in Links
      BY <2>2, <2>3, <2>10
    <3>2. lines \in Seq([code : Codes, last : BOOLEAN])
      BY <3>1 DEF Links
    <3>3. left \in Seq([code : Codes, last : BOOLEAN])
      <4>1. n + 1 \in Int /\ Len(lines) \in Int
            /\ \A i \in (n + 1)..Len(lines) : lines[i] \in [code : Codes, last : BOOLEAN]
        <5> HIDE DEF lines
        <5>1. n \in Int /\ n >= 1 /\ Len(lines) \in Int
          BY <2>10, <3>2
        <5>2. \A i \in 1..Len(lines) : lines[i] \in [code : Codes, last : BOOLEAN]
          BY <3>2, ElementOfSeq
        <5> QED BY <5>1, <5>2
      <4> QED BY <4>1, SubSeqProperties
    <3> DEFINE link == [conn[dest] EXCEPT !.toClient = left, !.torn = "no"]
    <3>4. Consumed(n) = link
      BY Zenon DEF Consumed
    <3>5. link \in Links /\ link.torn = "no"
      <4> HIDE DEF left
      <4>1. \A got \in Seq([code : Codes, last : BOOLEAN]), torn \in {"no", "mid", "short", "lf"} :
              LET read == [conn[dest] EXCEPT !.toClient = got, !.torn = torn]
              IN read \in Links /\ read.torn = torn
        BY <3>1, LinkTypes, Zenon
      <4>2. "no" \in {"no", "mid", "short", "lf"}
        OBVIOUS
      <4> QED BY <3>3, <4>1, <4>2, Zenon
    <3> HIDE DEF link
    <3> QED BY <3>4, <3>5
  <2>11. ASSUME ReadContinuation PROVE Inv'
    <3>1. /\ waiting /\ dest # 0 /\ stage \notin {"Connect", "Done"} /\ outcome = "none"
          /\ Len(conn[dest].toClient) >= 1 /\ conn[dest] \in Links
      BY <2>2, <2>3, <2>11 DEF ReadContinuation, Readable, Taken
    <3>2. /\ partial' = IF partial = 0 THEN Head(conn[dest].toClient).code ELSE partial
          /\ conn' = [conn EXCEPT ![dest] = Consumed(1)]
          /\ UNCHANGED <<job, attempted, dest, try, stage, waiting, results, outcome, acked>>
      BY <2>11, Zenon DEF ReadContinuation
    <3>3. Consumed(1) \in Links /\ Consumed(1).torn = "no"
      BY <2>10, <3>1
    <3>4. Head(conn[dest].toClient).code \in Codes
      <4> DEFINE lines == conn[dest].toClient
      <4>1. lines \in Seq([code : Codes, last : BOOLEAN]) /\ lines # <<>>
        BY <3>1 DEF Links
      <4>2. Head(lines) \in [code : Codes, last : BOOLEAN]
        BY <4>1, HeadTailProperties
      <4> QED BY <4>2
    <3>5. partial' \in Codes \cup {0}
      BY <2>1, <3>2, <3>4, Zenon
    <3>6. /\ stage' \in {"Greeting", "Ehlo", "Helo", "MailFrom"} => results' = <<>>
          /\ stage' = "RcptTo" => Len(results') < count
          /\ stage' \in {"Data", "Body", "Final", "Quit"} => Len(results') = count
      BY <3>2 DEF Inv, Counted, ClientTypeOK
    <3>7. \/ acked' = {}
          \/ acked' = {dest} /\ stage' \in {"Quit", "Done"}
      BY <2>3, <3>2
    <3>8. stage' \in Stages \ {"Connect"} /\ stage' # "Done"
      BY <2>1, <3>1, <3>2
    <3>9. waiting' \in BOOLEAN /\ heard' \in BOOLEAN
      BY <2>11, <3>1, <3>2, Zenon DEF ReadContinuation, Inv, ClientTypeOK
    <3> QED BY <2>1, <3>1, <3>2, <3>3, <3>5, <3>6, <3>7, <3>8, <3>9, StayKeeps, Zenon
  <2>12. ASSUME ReadReply PROVE Inv'
    <3>1. waiting /\ Len(conn[dest].toClient) >= 1 /\ conn[dest] \in Links
      BY <2>2, <2>3, <2>12 DEF ReadReply, Readable, Taken
    <3>2. Consumed(1) \in Links /\ Consumed(1).torn = "no"
      BY <2>10, <3>1
    <3>3. Head(conn[dest].toClient).code \in Codes
      <4> DEFINE lines == conn[dest].toClient
      <4>1. lines \in Seq([code : Codes, last : BOOLEAN]) /\ lines # <<>>
        BY <3>1 DEF Links
      <4>2. Head(lines) \in [code : Codes, last : BOOLEAN]
        BY <4>1, HeadTailProperties
      <4> QED BY <4>2
    <3>4. (IF partial = 0 THEN Head(conn[dest].toClient).code ELSE partial) \in Codes
      BY <2>1, <3>3
    <3>5. OnReply(IF partial = 0 THEN Head(conn[dest].toClient).code ELSE partial, Consumed(1))
          /\ UNCHANGED job
      BY <2>12, Zenon DEF ReadReply
    <3> QED BY <3>2, <3>4, <3>5, ReplyKeeps
  <2>13. ASSUME ReadGarbled PROVE Inv'
    <3>1. waiting /\ Taken \in {1, 2} /\ Len(conn[dest].toClient) >= Taken
      BY <2>13 DEF ReadGarbled, Readable, Taken
    <3>2. Consumed(Taken) \in Links /\ stage \notin {"Connect", "Done"}
      BY <2>3, <2>10, <3>1
    <3>3. OnError("permanent", Consumed(Taken)) /\ UNCHANGED job
      BY <2>13 DEF ReadGarbled, ProtocolError
    <3> QED BY <3>2, <3>3, ErrorKeeps
  <2>20. ASSUME ReadTail PROVE Inv'
    <3>1. waiting /\ Len(conn[dest].toClient) >= 1 /\ UNCHANGED job
      BY <2>20 DEF ReadTail, Readable, Taken
    <3>2. Consumed(1) \in Links /\ Consumed(1).torn = "no"
      BY <2>10, <3>1
    <3>3. PICK code \in TailCodes : OnReply(code, Consumed(1))
      BY <2>20, Zenon DEF ReadTail
    <3>4. code \in Codes
      BY ClientAssumption DEF ClientAssumption, Codes
    <3> QED BY <3>1, <3>2, <3>3, <3>4, ReplyKeeps
  <2>21. ASSUME ReadTailContinuation PROVE Inv'
    <3>1. /\ waiting /\ dest # 0 /\ stage \notin {"Connect", "Done"} /\ outcome = "none"
          /\ Len(conn[dest].toClient) >= 1 /\ conn[dest] \in Links
      BY <2>2, <2>3, <2>21 DEF ReadTailContinuation, Readable, Taken
    <3>2. /\ partial' \in TailCodes /\ heard' = TRUE
          /\ conn' = [conn EXCEPT ![dest] = Consumed(1)]
          /\ UNCHANGED <<job, attempted, dest, try, stage, waiting, results, outcome, acked>>
      BY <2>21, Zenon DEF ReadTailContinuation
    <3>3. Consumed(1) \in Links /\ Consumed(1).torn = "no"
      BY <2>10, <3>1
    <3>4. partial' \in Codes \cup {0}
      BY <3>2, ClientAssumption DEF ClientAssumption, Codes
    <3>5. /\ stage' \in {"Greeting", "Ehlo", "Helo", "MailFrom"} => results' = <<>>
          /\ stage' = "RcptTo" => Len(results') < count
          /\ stage' \in {"Data", "Body", "Final", "Quit"} => Len(results') = count
      BY <3>2 DEF Inv, Counted, ClientTypeOK
    <3>6. \/ acked' = {}
          \/ acked' = {dest} /\ stage' \in {"Quit", "Done"}
      BY <2>3, <3>2
    <3>7. stage' \in Stages \ {"Connect"} /\ stage' # "Done"
      BY <2>1, <3>1, <3>2
    <3>8. waiting' \in BOOLEAN /\ heard' \in BOOLEAN
      BY <3>2, Zenon DEF Inv, ClientTypeOK
    <3> QED BY <2>1, <3>1, <3>2, <3>3, <3>4, <3>5, <3>6, <3>7, <3>8, StayKeeps, Zenon
  <2>22. ASSUME ByteComes \/ WaitAgain PROVE Inv'
    <3>1. /\ UNCHANGED <<dests, count, attempted, dest, try, stage, waiting, partial, results,
                         outcome, acked, conn>>
      BY <2>22, Zenon DEF ByteComes, WaitAgain, job
    <3>2. heard' \in BOOLEAN
      BY <2>22, Zenon DEF ByteComes, WaitAgain
    <3>3. ClientTypeOK'
      BY <3>1, <3>2, Zenon DEF Inv, ClientTypeOK
    <3> QED BY <3>1, <3>3 DEF Inv, Placed, Counted, Settled
  <2>14. ASSUME ReadShort PROVE Inv'
    <3>1. /\ waiting /\ dest # 0 /\ Len(conn[dest].toClient) >= 1 /\ conn[dest].torn = "short"
          /\ Return("panicked", Consumed(1))
          /\ UNCHANGED <<job, attempted, dest, try, results, acked>>
      BY <2>3, <2>14 DEF ReadShort, Readable, Taken
    <3>2. Abandoned(Consumed(1)) \in Links
      BY <2>10, <3>1, LinkTypes
    <3>3. acked = {}
      BY <2>3, <3>1
    <3>4. /\ outcome' = "panicked" /\ stage' = "Done" /\ waiting' = FALSE /\ partial' = 0
          /\ conn' = [conn EXCEPT ![dest] = Abandoned(Consumed(1))] /\ results' = results
      BY <3>1 DEF Return
    <3>5. /\ stage' \in Stages \ {"Connect"} /\ waiting' \in BOOLEAN /\ heard' \in BOOLEAN
          /\ partial' \in Codes \cup {0}
      BY <3>1, <3>4, Zenon DEF Stages, Return
    <3> QED BY <2>1, <3>1, <3>2, <3>3, <3>4, <3>5, StayKeeps, Zenon
  <2>15. ASSUME ReadEnd PROVE Inv'
    <3>1. waiting /\ OnError("transient", conn[dest]) /\ UNCHANGED job
      BY <2>15 DEF ReadEnd, IoError
    <3> QED BY <2>2, <2>3, <3>1, ErrorKeeps
  <2>16. ASSUME ReadTimesOut PROVE Inv'
    <3>1. waiting /\ conn[dest] \in Links
      BY <2>2, <2>3, <2>16 DEF ReadTimesOut
    <3>2. Tearings \subseteq {"no", "mid", "short", "lf"}
      BY <3>1 DEF Tearings, Links
    <3>3. PICK torn \in Tearings :
            OnError("transient", [conn[dest] EXCEPT !.toClient = <<>>, !.torn = torn])
      BY <2>16, Zenon DEF ReadTimesOut, TimedOut
    <3>4. [conn[dest] EXCEPT !.toClient = <<>>, !.torn = torn] \in Links
      <4>1. <<>> \in Seq([code : Codes, last : BOOLEAN]) /\ torn \in {"no", "mid", "short", "lf"}
        BY <3>2
      <4> QED BY <3>1, <4>1, LinkTypes, Zenon
    <3>5. UNCHANGED job
      BY <2>16 DEF ReadTimesOut
    <3> QED BY <2>3, <3>1, <3>3, <3>4, <3>5, ErrorKeeps, Zenon
  <2>17. ASSUME NEW d \in 1..MaxDestinations, Answer(d) \/ AnswerOn(d) \/ ServerCloses(d)
         PROVE  Inv'
    <3> DEFINE Commands == [verb : Verbs, rcpt : Recipients \cup {0}]
               Lines    == [code : Codes, last : BOOLEAN]
    <3>2. conn[d] \in Links /\ conn[d] = [conn[d] EXCEPT !.torn = conn[d].torn]
      BY <2>1 DEF Links
    <3>3. ASSUME NEW x \in Links
          PROVE  /\ x.toServer \in Seq(Commands) /\ x.toClient \in Seq(Lines)
                 /\ x.rcpts \subseteq Recipients /\ x.refused \subseteq Recipients
                 /\ x.accepted \subseteq Recipients
                 /\ \A v \in Seq(Commands) : /\ [x EXCEPT !.toServer = v] \in Links
                                             /\ [x EXCEPT !.toServer = v].torn = x.torn
                 /\ \A v \in Seq(Lines) : /\ [x EXCEPT !.toClient = v] \in Links
                                          /\ [x EXCEPT !.toClient = v].torn = x.torn
                 /\ \A v \in BOOLEAN : /\ [x EXCEPT !.up = v] \in Links
                                       /\ [x EXCEPT !.up = v].torn = x.torn
                                       /\ [x EXCEPT !.inData = v] \in Links
                                       /\ [x EXCEPT !.inData = v].torn = x.torn
                 /\ \A v \in Codes \cup {0} : /\ [x EXCEPT !.more = v] \in Links
                                             /\ [x EXCEPT !.more = v].torn = x.torn
                 /\ \A v \in SUBSET Recipients : /\ [x EXCEPT !.rcpts = v] \in Links
                                                 /\ [x EXCEPT !.rcpts = v].torn = x.torn
                                                 /\ [x EXCEPT !.refused = v] \in Links
                                                 /\ [x EXCEPT !.refused = v].torn = x.torn
                                                 /\ [x EXCEPT !.accepted = v] \in Links
                                                 /\ [x EXCEPT !.accepted = v].torn = x.torn
      BY DEF Links
    <3>4. ASSUME NEW x \in Links, NEW code \in Codes, NEW last \in BOOLEAN
          PROVE  Reply(x, code, last) \in Links /\ Reply(x, code, last).torn = x.torn
      <4> DEFINE more == IF last THEN 0 ELSE code
                 lines == Append(x.toClient, Line(code, last))
      <4>1. lines \in Seq(Lines) /\ more \in Codes \cup {0}
        <5>1. Line(code, last) \in Lines
          BY DEF Line
        <5>2. more \in Codes \cup {0}
          BY Zenon
        <5> HIDE DEF Lines
        <5> QED BY <3>3, <5>1, <5>2
      <4>2. \/ Reply(x, code, last) = x
            \/ Reply(x, code, last) = [x EXCEPT !.toClient = lines, !.more = more]
        BY Zenon DEF Reply
      <4> HIDE DEF lines, more, Lines
      <4>3. /\ [x EXCEPT !.toClient = lines, !.more = more] \in Links
            /\ [x EXCEPT !.toClient = lines, !.more = more].torn = x.torn
        <5> DEFINE y == [x EXCEPT !.toClient = lines]
        <5>1. y \in Links /\ y.torn = x.torn
          BY <3>3, <4>1, Zenon
        <5> HIDE DEF y
        <5>2. [y EXCEPT !.more = more] \in Links /\ [y EXCEPT !.more = more].torn = y.torn
          BY <3>3, <4>1, <5>1, Zenon
        <5> QED BY <5>1, <5>2, Zenon DEF y
      <4> QED BY <4>2, <4>3, Zenon
    <3>5. ASSUME NEW x \in Links, NEW command \in Commands, x.toServer # <<>>, NEW code \in Codes
          PROVE  Served(x, command, code) \in Links /\ Served(x, command, code).torn = x.torn
      <4> DEFINE whom == Whom(x, command)
                 s1 == [x EXCEPT !.toServer = Tail(x.toServer)]
                 s2 == [s1 EXCEPT !.inData = code = 354]
                 rcpts == IF command.verb = "RCPT" /\ code = 250 THEN x.rcpts \cup whom ELSE x.rcpts
                 accepted == IF command.verb = "BODY" /\ code = 250 THEN x.accepted \cup whom
                             ELSE x.accepted
                 refused == IF code = 550 THEN x.refused \cup whom ELSE x.refused
                 s3 == [s2 EXCEPT !.rcpts = rcpts]
                 s4 == [s3 EXCEPT !.accepted = accepted]
                 s5 == [s4 EXCEPT !.refused = refused]
      <4>1. Served(x, command, code) = s5
        BY Zenon DEF Served
      <4>2. whom \subseteq Recipients
        BY <3>3 DEF Whom
      <4>3. s1 \in Links /\ s1.torn = x.torn
        <5>1. Tail(x.toServer) \in Seq(Commands)
          BY <3>3, <3>5, HeadTailProperties
        <5> QED BY <3>3, <5>1, Zenon
      <4> HIDE DEF s1
      <4>4. s2 \in Links /\ s2.torn = s1.torn
        <5>1. PICK asked \in BOOLEAN : asked = (code = 354)
          BY Zenon
        <5>2. s2 = [s1 EXCEPT !.inData = asked]
          BY <5>1, Zenon
        <5>3. [s1 EXCEPT !.inData = asked] \in Links /\ [s1 EXCEPT !.inData = asked].torn = s1.torn
          BY <3>3, <4>3, Zenon
        <5> HIDE DEF s2
        <5> QED BY <5>2, <5>3, Zenon
      <4> HIDE DEF s2
      <4>5. /\ rcpts \in SUBSET Recipients /\ accepted \in SUBSET Recipients
            /\ refused \in SUBSET Recipients
        BY <3>3, <4>2
      <4> HIDE DEF rcpts, accepted, refused
      <4>6. s3 \in Links /\ s3.torn = s2.torn
        BY <3>3, <4>4, <4>5, Zenon
      <4> HIDE DEF s3
      <4>7. s4 \in Links /\ s4.torn = s3.torn
        BY <3>3, <4>5, <4>6, Zenon
      <4> HIDE DEF s4
      <4>8. s5 \in Links /\ s5.torn = s4.torn
        BY <3>3, <4>5, <4>7, Zenon
      <4> HIDE DEF s5
      <4> QED BY <4>1, <4>3, <4>4, <4>6, <4>7, <4>8
    <3>6. PICK link \in Links : /\ conn' = [conn EXCEPT ![d] = link] /\ link.torn = conn[d].torn
                               /\ UNCHANGED <<job, clientVars>>
      <4>1. CASE Answer(d)
        <5> DEFINE command == Head(conn[d].toServer)
        <5>1. conn[d].toServer # <<>> /\ UNCHANGED <<job, clientVars>>
          BY <4>1 DEF Answer
        <5>2. PICK code \in Answers(conn[d], command), last \in BOOLEAN :
                conn' = [conn EXCEPT ![d] = Reply(Served(conn[d], command, code), code, last)]
          BY <4>1, Zenon DEF Answer
        <5>3. code \in Codes /\ command \in Commands
          <6>1. Answers(conn[d], command) \subseteq Codes
            BY DEF Answers, Codes
          <6>2. command \in Commands
            BY <3>2, <3>3, <5>1, HeadTailProperties
          <6> QED BY <6>1, <6>2
        <5> HIDE DEF command
        <5>4. Served(conn[d], command, code) \in Links
              /\ Served(conn[d], command, code).torn = conn[d].torn
          BY <3>2, <3>5, <5>1, <5>3
        <5>5. /\ Reply(Served(conn[d], command, code), code, last) \in Links
              /\ Reply(Served(conn[d], command, code), code, last).torn = conn[d].torn
          BY <3>4, <5>3, <5>4, Zenon
        <5> QED BY <5>1, <5>2, <5>5
      <4>2. CASE AnswerOn(d)
        <5>1. conn[d].more # 0 /\ UNCHANGED <<job, clientVars>>
          BY <4>2 DEF AnswerOn
        <5>4. PICK last \in BOOLEAN : conn' = [conn EXCEPT ![d] = Reply(conn[d], conn[d].more, last)]
          BY <4>2, Zenon DEF AnswerOn
        <5>2. conn[d].more \in Codes
          BY <3>2, <5>1 DEF Links
        <5>3. /\ Reply(conn[d], conn[d].more, last) \in Links
              /\ Reply(conn[d], conn[d].more, last).torn = conn[d].torn
          BY <3>2, <3>4, <5>2, Zenon
        <5> QED BY <5>1, <5>3, <5>4
      <4>3. CASE ServerCloses(d)
        <5>1. PICK n \in 0..Len(conn[d].toClient) :
                /\ conn' = [conn EXCEPT ![d].up = FALSE, ![d].toServer = <<>>, ![d].more = 0,
                                       ![d].toClient = SubSeq(@, 1, n)]
                /\ UNCHANGED <<job, clientVars>>
          BY <4>3, Zenon DEF ServerCloses
        <5> DEFINE lines == SubSeq(conn[d].toClient, 1, n)
                   s1 == [conn[d] EXCEPT !.up = FALSE]
                   s2 == [s1 EXCEPT !.toServer = <<>>]
                   s3 == [s2 EXCEPT !.more = 0]
                   s4 == [s3 EXCEPT !.toClient = lines]
        <5>2. lines \in Seq(Lines) /\ <<>> \in Seq(Commands) /\ 0 \in Codes \cup {0}
              /\ FALSE \in BOOLEAN
          <6> DEFINE all == conn[d].toClient
          <6> HIDE DEF Lines
          <6>1. all \in Seq(Lines)
            BY <3>2, <3>3
          <6>2. \A i \in 1..n : all[i] \in Lines
            BY <6>1, ElementOfSeq
          <6> QED BY <6>2, SubSeqProperties
        <5>3. s1 \in Links /\ s1.torn = conn[d].torn
          BY <3>2, <3>3, <5>2, Zenon
        <5> HIDE DEF s1
        <5>4. s2 \in Links /\ s2.torn = s1.torn
          BY <3>3, <5>2, <5>3, Zenon
        <5> HIDE DEF s2
        <5>5. s3 \in Links /\ s3.torn = s2.torn
          BY <3>3, <5>2, <5>4, Zenon
        <5> HIDE DEF s3, lines
        <5>6. s4 \in Links /\ s4.torn = s3.torn
          BY <3>3, <5>2, <5>5, Zenon
        <5>7. conn' = [conn EXCEPT ![d] = s4]
          BY <2>1, <5>1 DEF s1, s2, s3, lines
        <5> HIDE DEF s4
        <5> QED BY <5>1, <5>3, <5>4, <5>5, <5>6, <5>7
      <4> QED BY <2>17, <4>1, <4>2, <4>3
    <3>7. /\ UNCHANGED <<dests, count, attempted, dest, try, stage, waiting, partial, heard, results,
                         outcome, acked>>
          /\ conn' \in [1..MaxDestinations -> Links]
          /\ dest # 0 => conn'[dest].torn = conn[dest].torn
      BY <2>1, <3>6 DEF job, clientVars
    <3>8. ClientTypeOK'
      BY <3>7 DEF Inv, ClientTypeOK
    <3> QED BY <3>7, <3>8 DEF Inv, Placed, Counted, Settled
  <2>18. ASSUME UNCHANGED vars PROVE Inv'
    BY <2>18 DEF vars, job, clientVars, Inv, ClientTypeOK, Placed, Counted, Settled
  <2> QED
    BY <2>4, <2>5, <2>6, <2>7, <2>8, <2>9, <2>11, <2>12, <2>13, <2>14, <2>15, <2>16, <2>17,
       <2>18, <2>20, <2>21, <2>22, Zenon DEF Next, Client, Server
<1> QED
  BY <1>1, <1>2, PTL DEF Spec

\* The types hold, and once the recipients are through each has exactly one result
\* (client.rs:200-222).
THEOREM TypeCorrect == Spec => []ClientTypeOK
<1>1. Inv => ClientTypeOK
  BY DEF Inv
<1> QED BY <1>1, Invariance, PTL

\* A message that a server took is offered to no other one, and deliver succeeds
\* (client.rs:241-266), whatever happens to QUIT.
THEOREM AckedFinal == Spec => []AckedIsFinal
<1>1. Inv => AckedIsFinal
  BY DEF Inv, Settled, AckedIsFinal
<1> QED BY <1>1, Invariance, PTL

=============================================================================
