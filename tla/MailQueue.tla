----------------------------- MODULE MailQueue -----------------------------
(***************************************************************************)
(* What the queue promises to the deliverers: every message handed to it   *)
(* waits, is delivered by one deliverer at a time, goes back to waiting    *)
(* when that fails, and ends delivered or given up; and no destination     *)
(* ever sees more than Limit deliveries at once.                           *)
(***************************************************************************)
EXTENDS Naturals, FiniteSets

CONSTANTS Ids, DomainOf, Limit

VARIABLE status  \* of each message

Statuses == {"new", "waiting", "delivering", "delivered", "dropped"}

Busy(d) == {i \in Ids : DomainOf[i] = d /\ status[i] = "delivering"}

Move(i, from, to) == status[i] = from /\ status' = [status EXCEPT ![i] = to]

Accept(i) == Move(i, "new", "waiting")

Start(i) ==
  /\ Cardinality(Busy(DomainOf[i])) < Limit
  /\ Move(i, "waiting", "delivering")

Deliver(i) == Move(i, "delivering", "delivered")
Retry(i)   == Move(i, "delivering", "waiting")
GiveUp(i)  == Move(i, "delivering", "dropped")

MailQueueInit == status = [i \in Ids |-> "new"]

MailQueueNext ==
  \E i \in Ids : Accept(i) \/ Start(i) \/ Deliver(i) \/ Retry(i) \/ GiveUp(i)

MailQueueSpec == MailQueueInit /\ [][MailQueueNext]_status

=============================================================================
