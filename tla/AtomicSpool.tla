---------------------------- MODULE AtomicSpool ----------------------------
(***************************************************************************)
(* What the spool promises to the servers that store messages in it and to *)
(* the queue that takes them out: a message is there as a whole or not at  *)
(* all.  A crash of the machine may forget messages that were just put in, *)
(* or bring back ones that were just removed, and does nothing else.       *)
(***************************************************************************)
EXTENDS Naturals

CONSTANTS
  Messages,  \* the messages to be stored
  Ids,       \* queue ids
  IdOf,      \* the queue id of a message
  None       \* no message

VARIABLES
  box,     \* the message under each queue id
  placed,  \* the messages ever put into the box
  acked,   \* the messages whose store was answered Ok
  losses   \* how often the machine crashed

atomicVars == <<box, placed, acked, losses>>

AtomicInit ==
  /\ box = [i \in Ids |-> None]
  /\ placed = {}
  /\ acked = {}
  /\ losses = 0

Place(m) ==
  /\ m \notin placed
  /\ box' = [box EXCEPT ![IdOf[m]] = m]
  /\ placed' = placed \cup {m}
  /\ UNCHANGED <<acked, losses>>

\* Ok is never answered for a message that has not been placed.
Acknowledge(m) ==
  /\ m \in placed
  /\ acked' = acked \cup {m}
  /\ UNCHANGED <<box, placed, losses>>

TakeOut(m) ==
  /\ m \in acked
  /\ box' = [box EXCEPT ![IdOf[m]] = None]
  /\ UNCHANGED <<placed, acked, losses>>

\* A crash leaves under each id the message that was put there once, or nothing.
Lose ==
  /\ losses' = losses + 1
  /\ box' \in [Ids -> {None} \cup placed]
  /\ \A i \in Ids : box'[i] # None => IdOf[box'[i]] = i
  /\ UNCHANGED <<placed, acked>>

AtomicNext ==
  \/ \E m \in Messages : Place(m) \/ Acknowledge(m) \/ TakeOut(m)
  \/ Lose

AtomicSpec == AtomicInit /\ [][AtomicNext]_atomicVars

=============================================================================
