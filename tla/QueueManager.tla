---------------------------- MODULE QueueManager ----------------------------
(***************************************************************************)
(* The outbound queue: QueueManager and DestinationQueue of                *)
(* src/queue/manager.rs with the schedule of src/queue/retry.rs, fed by    *)
(* the tasks that store messages and drained by delivery workers, which    *)
(* call next_for_delivery and then report success or failure, as the tests *)
(* of the module do.                                                       *)
(*                                                                         *)
(* Each action is what one call does under the lock of one destination, so *)
(* a call that awaits outside that lock is several actions.  A destination *)
(* queue that does not exist yet is an empty one.  next_for_delivery tries *)
(* the destinations in the order of a HashMap: any order.                  *)
(***************************************************************************)
EXTENDS Naturals, Sequences, FiniteSets

CONSTANTS
  Ids,           \* queue ids of the messages in the spool
  Domains,       \* destination domains
  DomainOf,      \* the domain of a message's first recipient
  NoDomain,      \* what DomainOf gives for a message without recipients
  PriorityOf,    \* envelope.priority: 0 high, 1 normal, 2 low, and any u8 from HTTP
  Workers,       \* delivery workers
  Limit,         \* concurrency_limit of every destination
  AttemptLimits, \* the values of RetrySchedule.max_attempts
  InitialDelay,  \* RetrySchedule.initial_delay
  MaxDelay,      \* RetrySchedule.max_delay
  MaxFailures,   \* bound: failed deliveries of one message
  MaxTime        \* bound: the clock

ASSUME QueueAssumption ==
  /\ NoDomain \notin Domains
  /\ DomainOf \in [Ids -> Domains \cup {NoDomain}]
  /\ PriorityOf \in [Ids -> 0 .. 255]
  /\ Limit \in Nat /\ AttemptLimits \subseteq Nat
  /\ InitialDelay \in Nat /\ MaxDelay \in Nat
  /\ MaxFailures \in Nat /\ MaxTime \in Nat
  /\ IsFiniteSet(Workers)

VARIABLES
  spool,     \* ids whose file is in the spool
  enqueuer,  \* how far enqueue(id) has come
  pending,   \* DestinationQueue.pending: per domain a sequence of QueuedMessages
  inFlight,  \* DestinationQueue.in_flight
  worker,    \* what each worker does, and for which message
  now,       \* the clock
  maxAttempts,  \* RetrySchedule.max_attempts, the same for ever
  \* Read by no call:
  outcome,   \* whether a message was delivered or given up
  failures,  \* failed deliveries of a message
  arrivals   \* ids in the order they were enqueued

vars == <<spool, enqueuer, pending, inFlight, worker, now, maxAttempts,
          outcome, failures, arrivals>>

Idle == [pc |-> "idle"]

\* QueuedMessage.  next_retry_at is a time; None is a time that has passed.
Queued(i, attempt, next, priority) ==
  [id |-> i, attempt |-> attempt, next |-> next, priority |-> priority]

Init ==
  /\ spool = Ids
  /\ enqueuer = [i \in Ids |-> "stored"]
  /\ pending = [d \in Domains |-> <<>>]
  /\ inFlight = [d \in Domains |-> 0]
  /\ worker = [w \in Workers |-> Idle]
  /\ now = 0
  /\ maxAttempts \in AttemptLimits
  /\ outcome = [i \in Ids |-> "none"]
  /\ failures = [i \in Ids |-> 0]
  /\ arrivals = <<>>

-----------------------------------------------------------------------------
(* RetrySchedule, with the default multiplier of 2. *)

\* The delay before the Nth attempt: none before the first.
DelayForAttempt(n) ==
  IF n <= 1 THEN 0
  ELSE LET delay == InitialDelay * 2 ^ (n - 2)
       IN IF delay < MaxDelay THEN delay ELSE MaxDelay

ShouldGiveUp(attempt) == attempt >= maxAttempts

-----------------------------------------------------------------------------
(* enqueue, called once for each stored message. *)

\* read_envelope succeeds.
ReadEnvelope(i) ==
  /\ enqueuer[i] = "stored"
  /\ i \in spool
  /\ enqueuer' = [enqueuer EXCEPT ![i] = "read"]
  /\ UNCHANGED <<spool, pending, inFlight, worker, now, outcome, failures, arrivals, maxAttempts>>

\* It fails and enqueue returns the error, or the envelope has no recipients and
\* enqueue returns Ok: the message stays in the spool and in no queue.
NotEnqueued(i) ==
  /\ \/ enqueuer[i] = "stored"
     \/ enqueuer[i] = "read" /\ DomainOf[i] = NoDomain
  /\ enqueuer' = [enqueuer EXCEPT ![i] = "skipped"]
  /\ UNCHANGED <<spool, pending, inFlight, worker, now, outcome, failures, arrivals, maxAttempts>>

\* enqueue_to_domain, under the write lock of the map.
EnqueueToDomain(i) ==
  /\ enqueuer[i] = "read"
  /\ DomainOf[i] # NoDomain
  /\ enqueuer' = [enqueuer EXCEPT ![i] = "enqueued"]
  /\ pending' = [pending EXCEPT ![DomainOf[i]] =
                   Append(@, Queued(i, 0, 0, PriorityOf[i]))]
  /\ arrivals' = Append(arrivals, i)
  /\ UNCHANGED <<spool, inFlight, worker, now, outcome, failures, maxAttempts>>

-----------------------------------------------------------------------------
(* next_for_delivery. *)

\* Variant: the limit itself still has a slot.
CanSendNowOneMore(d) == inFlight[d] <= Limit

CanSendNow(d) == inFlight[d] < Limit

Ready(d) == {k \in DOMAIN pending[d] : pending[d][k].next <= now}

\* Variant: among equals the last one, as max_by_key on a reversed key finds it.
IsBestLast(d, k) ==
  /\ k \in Ready(d)
  /\ \A j \in Ready(d) :
       \/ pending[d][k].priority < pending[d][j].priority
       \/ pending[d][k].priority = pending[d][j].priority /\ k >= j

\* min_by_key: the first of the ready messages whose priority value is lowest.
IsBest(d, k) ==
  /\ k \in Ready(d)
  /\ \A j \in Ready(d) :
       \/ pending[d][k].priority < pending[d][j].priority
       \/ pending[d][k].priority = pending[d][j].priority /\ k <= j

\* Vec::remove.
Without(q, k) == [j \in 1 .. Len(q) - 1 |-> IF j < k THEN q[j] ELSE q[j + 1]]

\* Variant: the message stays in the list while it is delivered.
StartDeliveryKeeping(w, d) ==
  /\ worker[w] = Idle
  /\ CanSendNow(d)
  /\ \E k \in DOMAIN pending[d] :
       /\ IsBest(d, k)
       /\ worker' = [worker EXCEPT ![w] =
                       [pc |-> "delivering", id |-> pending[d][k].id, domain |-> d]]
  /\ inFlight' = [inFlight EXCEPT ![d] = @ + 1]
  /\ UNCHANGED <<spool, enqueuer, pending, now, outcome, failures, arrivals, maxAttempts>>

\* start_delivery, for a destination with a slot and a ready message.
StartDelivery(w, d) ==
  /\ worker[w] = Idle
  /\ CanSendNow(d)
  /\ \E k \in DOMAIN pending[d] :
       /\ IsBest(d, k)
       /\ pending' = [pending EXCEPT ![d] = Without(@, k)]
       /\ worker' = [worker EXCEPT ![w] =
                       [pc |-> "delivering", id |-> pending[d][k].id, domain |-> d]]
  /\ inFlight' = [inFlight EXCEPT ![d] = @ + 1]
  /\ UNCHANGED <<spool, enqueuer, now, outcome, failures, arrivals, maxAttempts>>

-----------------------------------------------------------------------------
(* on_delivery_success. *)

\* The delivery succeeded.  DiskSpool::remove comes first; when the file cannot be
\* removed, that goes unnoticed.
RemoveFromSpool(w) ==
  /\ worker[w].pc = "delivering"
  /\ spool' \in {spool, spool \ {worker[w].id}}
  /\ worker' = [worker EXCEPT ![w].pc = "releasing"]
  /\ outcome' = [outcome EXCEPT ![worker[w].id] = "delivered"]
  /\ UNCHANGED <<enqueuer, pending, inFlight, now, failures, arrivals, maxAttempts>>

ReleaseSlot(d) ==
  inFlight' = [inFlight EXCEPT ![d] = IF @ > 0 THEN @ - 1 ELSE @]

\* Variant: the slot is not given back.
OnSuccessLeak(w) ==
  /\ worker[w].pc = "releasing"
  /\ worker' = [worker EXCEPT ![w] = Idle]
  /\ UNCHANGED <<spool, enqueuer, pending, inFlight, now, outcome, failures, arrivals, maxAttempts>>

\* on_success, after the await.
OnSuccess(w) ==
  /\ worker[w].pc = "releasing"
  /\ ReleaseSlot(worker[w].domain)
  /\ worker' = [worker EXCEPT ![w] = Idle]
  /\ UNCHANGED <<spool, enqueuer, pending, now, outcome, failures, arrivals, maxAttempts>>

-----------------------------------------------------------------------------
(* on_delivery_failure. *)

\* Variant: the spool file is removed as on success.
OnFailureRemoving(w) ==
  LET i == worker[w].id
      d == worker[w].domain
  IN /\ worker[w].pc = "delivering"
     /\ failures[i] < MaxFailures
     /\ failures' = [failures EXCEPT ![i] = @ + 1]
     /\ ReleaseSlot(d)
     /\ worker' = [worker EXCEPT ![w] = Idle]
     /\ spool' = spool \ {i}
     /\ pending' = [pending EXCEPT ![d] = Append(@, Queued(i, 1, now, 1))]
     /\ UNCHANGED <<enqueuer, now, outcome, arrivals, maxAttempts>>

\* The QueuedMessage is made anew, with attempt 0 and priority 1, and on_failure
\* counts the attempt: it is given up or goes to the end of the list.
OnFailure(w) ==
  LET i == worker[w].id
      d == worker[w].domain
      attempt == 0 + 1
  IN /\ worker[w].pc = "delivering"
     /\ failures[i] < MaxFailures
     /\ failures' = [failures EXCEPT ![i] = @ + 1]
     /\ ReleaseSlot(d)
     /\ worker' = [worker EXCEPT ![w] = Idle]
     /\ IF ShouldGiveUp(attempt)
        THEN /\ outcome' = [outcome EXCEPT ![i] = "dropped"]
             /\ UNCHANGED pending
        ELSE /\ pending' = [pending EXCEPT ![d] =
                  Append(@, Queued(i, attempt, now + DelayForAttempt(attempt), 1))]
             /\ UNCHANGED outcome
     /\ UNCHANGED <<spool, enqueuer, now, arrivals, maxAttempts>>

Tick ==
  /\ now < MaxTime
  /\ now' = now + 1
  /\ UNCHANGED <<spool, enqueuer, pending, inFlight, worker, outcome, failures, arrivals, maxAttempts>>

-----------------------------------------------------------------------------

Enqueue(i) == ReadEnvelope(i) \/ NotEnqueued(i) \/ EnqueueToDomain(i)

Work(w) ==
  \/ \E d \in Domains : StartDelivery(w, d)
  \/ RemoveFromSpool(w) \/ OnSuccess(w) \/ OnFailure(w)

Next ==
  \/ \E i \in Ids : Enqueue(i)
  \/ \E w \in Workers : Work(w)
  \/ Tick

Spec == Init /\ [][Next]_vars

\* Every worker keeps polling, and every delivery ends and is reported.
FairSpec == Spec /\ \A w \in Workers : WF_vars(Work(w))

-----------------------------------------------------------------------------
(* Properties. *)

QueuedMessages == [id : Ids, attempt : 0 .. 1, next : 0 .. MaxTime, priority : 0 .. 255]
Busy == [pc : {"delivering", "releasing"}, id : Ids, domain : Domains]

TypeOK ==
  /\ spool \in SUBSET Ids
  /\ enqueuer \in [Ids -> {"stored", "read", "enqueued", "skipped"}]
  /\ pending \in [Domains -> Seq(QueuedMessages)]
  /\ inFlight \in [Domains -> 0 .. Limit]
  /\ worker \in [Workers -> {Idle} \cup Busy]
  /\ now \in 0 .. MaxTime
  /\ maxAttempts \in AttemptLimits
  /\ outcome \in [Ids -> {"none", "delivered", "dropped"}]
  /\ failures \in [Ids -> 0 .. MaxFailures]
  /\ arrivals \in Seq(Ids)

\* The workers that hold a slot of a destination, and the one that delivers a message.
Slots(d) == {w \in Workers : worker[w] # Idle /\ worker[w].domain = d}
Delivers(w, i) == worker[w].pc = "delivering" /\ worker[w].id = i

\* in_flight is the number of deliveries that have begun and not been reported, the
\* ones that are waiting for the spool included; so the limit bounds deliveries and
\* not a counter that drifted (manager.rs:73-124, 217-228).
SlotsMatchDeliveries ==
  \A d \in Domains :
    inFlight[d] = Cardinality(Slots(d)) /\ Cardinality(Slots(d)) <= Limit

\* No message is lost or doubled between the list of its destination and the workers:
\* until it is delivered or given up it is in exactly one place, and then in none.
InOnePlace(i) ==
  LET here(d, k) == k \in DOMAIN pending[d] /\ pending[d][k].id = i
      live == enqueuer[i] = "enqueued" /\ outcome[i] = "none"
  IN /\ live <=> \/ \E d \in Domains : \E k \in DOMAIN pending[d] : here(d, k)
                 \/ \E w \in Workers : Delivers(w, i)
     /\ \A d, e \in Domains : \A k \in DOMAIN pending[d], l \in DOMAIN pending[e] :
          here(d, k) /\ here(e, l) => d = e /\ k = l
     /\ \A v, w \in Workers : Delivers(v, i) /\ Delivers(w, i) => v = w
     /\ \A d \in Domains : \A k \in DOMAIN pending[d] :
          here(d, k) => d = DomainOf[i] /\ \A w \in Workers : ~ Delivers(w, i)

ExactlyOnePlace == \A i \in Ids : InOnePlace(i)

\* The file of a message is there as long as someone may still have to read it for a
\* delivery (manager.rs:217-220 removes it, on success only).
SpoolKept ==
  /\ \A d \in Domains : \A k \in DOMAIN pending[d] : pending[d][k].id \in spool
  /\ \A w \in Workers : worker[w].pc = "delivering" => worker[w].id \in spool

Before(i, j) ==
  \E k, l \in DOMAIN arrivals : k < l /\ arrivals[k] = i /\ arrivals[l] = j

\* A message that waits for its first attempt is passed only by more urgent ones, or by
\* ones that came before it: retries and their changed priority do not let a later
\* message past an earlier one (manager.rs:73-89, 231-248).
FirstAttemptsInOrder ==
  [][\A w \in Workers : worker[w] = Idle /\ worker'[w] # Idle =>
       LET taken == worker'[w].id
           d == worker'[w].domain
       IN \A k \in DOMAIN pending[d] :
            LET m == pending[d][k]
            IN m.attempt = 0 /\ m.next <= now /\ Before(m.id, taken) =>
                 PriorityOf[taken] < PriorityOf[m.id]]_vars

\* When deliveries do not fail for ever, every message that was enqueued is delivered or
\* given up: no slot is leaked and no message is left behind.
EveryMessageSettles ==
  \A i \in Ids : enqueuer[i] = "enqueued" ~> outcome[i] # "none"

\* The state of a message, for one who only sees deliveries.
Status(i) ==
  CASE outcome[i] # "none"                   -> outcome[i]
    [] enqueuer[i] # "enqueued"              -> "new"
    [] \E w \in Workers : Delivers(w, i)    -> "delivering"
    [] OTHER                                 -> "waiting"

Abstract == INSTANCE MailQueue WITH status <- [i \in Ids |-> Status(i)]

\* The locks, lists and counters add up to the promised queue.
ImplementsMailQueue == Abstract!MailQueueSpec

\* src/README.md:426 and src/src/queue/retry.rs:18: a message is tried max_attempts
\* times at most.  The code does not have this property: on_delivery_failure starts
\* counting anew each time.
AttemptsBounded == \A i \in Ids : failures[i] <= maxAttempts

=============================================================================
