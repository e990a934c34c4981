------------------------- MODULE QueueManagerProofs -------------------------
(***************************************************************************)
(* The outbound queue for any number of messages, destinations and         *)
(* workers: its types, which bound every counter, and the concurrency      *)
(* limit of each destination; that every message is in exactly one place,  *)
(* from which the file in the spool, the order of first attempts and the   *)
(* refinement of MailQueue follow.                                         *)
(***************************************************************************)
EXTENDS QueueManager, FiniteSetTheorems, TLAPS

\* Removing an element of a list leaves a list.
LEMMA WithoutType ==
  ASSUME NEW S, NEW q \in Seq(S), NEW k \in DOMAIN q
  PROVE  Without(q, k) \in Seq(S)
<1>1. Len(q) \in Nat /\ DOMAIN q = 1 .. Len(q) /\ Len(q) - 1 \in Nat
  OBVIOUS
<1>2. Without(q, k) \in [1 .. Len(q) - 1 -> S]
  BY <1>1 DEF Without
<1> QED
  BY <1>1, <1>2

\* The first retry is immediate: its delay is that of the first attempt.
LEMMA NoDelay == DelayForAttempt(1) = 0
  BY DEF DelayForAttempt

\* The types hold: no counter drifts out of its range, and no message waits for a time
\* that the clock does not reach.
THEOREM TypeCorrect == Spec => []TypeOK
<1> USE QueueAssumption
<1>1. Init => TypeOK
  BY DEF Init, TypeOK
<1>2. TypeOK /\ [Next]_vars => TypeOK'
  <2> SUFFICES ASSUME TypeOK, [Next]_vars PROVE TypeOK'
    OBVIOUS
  <2>1. ASSUME NEW i \in Ids, ReadEnvelope(i) PROVE TypeOK'
    BY <2>1 DEF TypeOK, ReadEnvelope
  <2>2. ASSUME NEW i \in Ids, NotEnqueued(i) PROVE TypeOK'
    BY <2>2 DEF TypeOK, NotEnqueued
  <2>3. ASSUME NEW i \in Ids, EnqueueToDomain(i) PROVE TypeOK'
    <3> DEFINE d == DomainOf[i]
               new == Queued(i, 0, 0, PriorityOf[i])
    <3>1. d \in Domains /\ new \in QueuedMessages
      BY <2>3 DEF EnqueueToDomain, TypeOK, QueuedMessages, Queued
    <3>2. Append(pending[d], new) \in Seq(QueuedMessages) /\ Append(arrivals, i) \in Seq(Ids)
      BY <3>1 DEF TypeOK
    <3>3. /\ pending' = [pending EXCEPT ![d] = Append(pending[d], new)]
          /\ arrivals' = Append(arrivals, i)
          /\ enqueuer' = [enqueuer EXCEPT ![i] = "enqueued"]
          /\ UNCHANGED <<spool, inFlight, worker, now, outcome, failures, maxAttempts>>
      BY <2>3 DEF EnqueueToDomain, TypeOK
    <3> HIDE DEF d, new
    <3> QED
      BY <3>1, <3>2, <3>3 DEF TypeOK
  <2>4. ASSUME NEW w \in Workers, NEW d \in Domains, StartDelivery(w, d) PROVE TypeOK'
    <3>1. PICK k \in DOMAIN pending[d] :
            /\ pending' = [pending EXCEPT ![d] = Without(@, k)]
            /\ worker' = [worker EXCEPT ![w] =
                            [pc |-> "delivering", id |-> pending[d][k].id, domain |-> d]]
      BY <2>4 DEF StartDelivery
    <3>2. pending[d] \in Seq(QueuedMessages) /\ pending[d][k] \in QueuedMessages
      BY <3>1 DEF TypeOK
    <3>3. pending' \in [Domains -> Seq(QueuedMessages)]
      <4>1. Without(pending[d], k) \in Seq(QueuedMessages)
        BY <3>2, WithoutType
      <4> QED
        BY <3>1, <4>1 DEF TypeOK
    <3>4. worker' \in [Workers -> {Idle} \cup Busy]
      <4>1. [pc |-> "delivering", id |-> pending[d][k].id, domain |-> d] \in Busy
        BY <3>2 DEF Busy, QueuedMessages
      <4> QED
        BY <3>1, <4>1 DEF TypeOK
    <3>5. inFlight' \in [Domains -> 0 .. Limit]
      BY <2>4 DEF StartDelivery, CanSendNow, TypeOK
    <3> QED
      BY <2>4, <3>3, <3>4, <3>5 DEF StartDelivery, TypeOK
  <2>5. ASSUME NEW w \in Workers, worker[w].pc \in {"delivering", "releasing"}
        PROVE  worker[w] \in Busy /\ worker[w].id \in Ids /\ worker[w].domain \in Domains
    BY <2>5 DEF TypeOK, Idle, Busy
  <2>6. ASSUME NEW w \in Workers, RemoveFromSpool(w) PROVE TypeOK'
    <3>1. worker[w] \in Busy /\ worker[w].id \in Ids
      BY <2>5, <2>6 DEF RemoveFromSpool
    <3>2. worker' \in [Workers -> {Idle} \cup Busy]
      <4>1. [worker[w] EXCEPT !.pc = "releasing"] \in Busy
        BY <3>1 DEF Busy
      <4>2. worker' = [worker EXCEPT ![w] = [worker[w] EXCEPT !.pc = "releasing"]]
        BY <2>6 DEF RemoveFromSpool, TypeOK
      <4> QED
        BY <4>1, <4>2 DEF TypeOK
    <3> QED
      BY <2>6, <3>1, <3>2 DEF RemoveFromSpool, TypeOK
  <2>7. ASSUME NEW d \in Domains, ReleaseSlot(d) PROVE inFlight' \in [Domains -> 0 .. Limit]
    BY <2>7 DEF ReleaseSlot, TypeOK
  <2>8. ASSUME NEW w \in Workers, OnSuccess(w) PROVE TypeOK'
    <3>1. inFlight' \in [Domains -> 0 .. Limit]
      BY <2>5, <2>7, <2>8 DEF OnSuccess
    <3> QED
      BY <2>8, <3>1 DEF OnSuccess, TypeOK
  <2>9. ASSUME NEW w \in Workers, OnFailure(w) PROVE TypeOK'
    <3> DEFINE i == worker[w].id
               d == worker[w].domain
               new == Queued(i, 1, now, 1)
    <3>1. i \in Ids /\ d \in Domains
      BY <2>5, <2>9 DEF OnFailure
    <3>2. inFlight' \in [Domains -> 0 .. Limit]
      BY <2>7, <2>9, <3>1 DEF OnFailure
    <3>3. failures' \in [Ids -> 0 .. MaxFailures]
      BY <2>9, <3>1 DEF OnFailure, TypeOK
    <3>4. worker' \in [Workers -> {Idle} \cup Busy]
      BY <2>9 DEF OnFailure, TypeOK
    <3>5. /\ outcome' = outcome \/ outcome' = [outcome EXCEPT ![i] = "dropped"]
          /\ \/ pending' = pending
             \/ pending' = [pending EXCEPT ![d] = Append(@, new)]
      <4>1. 0 + 1 = 1 /\ now + DelayForAttempt(1) = now
        BY NoDelay DEF TypeOK
      <4> QED
        BY <2>9, <4>1 DEF OnFailure
    <3>6. pending' \in [Domains -> Seq(QueuedMessages)]
      <4>1. new \in QueuedMessages
        BY <3>1 DEF Queued, QueuedMessages, TypeOK
      <4>2. Append(pending[d], new) \in Seq(QueuedMessages)
        BY <3>1, <4>1 DEF TypeOK
      <4>3. pending \in [Domains -> Seq(QueuedMessages)]
        BY DEF TypeOK
      <4> HIDE DEF new
      <4>4. CASE pending' = [pending EXCEPT ![d] = Append(@, new)]
        BY <3>1, <4>2, <4>3, <4>4
      <4> QED
        BY <3>5, <4>3, <4>4
    <3>7. UNCHANGED <<spool, enqueuer, now, arrivals, maxAttempts>>
      BY <2>9 DEF OnFailure
    <3> HIDE DEF i, d, new
    <3> QED
      BY <3>1, <3>2, <3>3, <3>4, <3>5, <3>6, <3>7 DEF TypeOK
  <2>10. CASE Tick
    BY <2>10 DEF Tick, TypeOK
  <2>11. CASE UNCHANGED vars
    BY <2>11 DEF vars, TypeOK
  <2> QED
    BY <2>1, <2>2, <2>3, <2>4, <2>6, <2>8, <2>9, <2>10, <2>11 DEF Next, Enqueue, Work
<1> QED
  BY <1>1, <1>2, PTL DEF Spec

-----------------------------------------------------------------------------
(* The concurrency limit. *)

\* The workers of a destination are finitely many.
LEMMA SlotsFinite ==
  ASSUME NEW d \in Domains
  PROVE  IsFiniteSet(Slots(d)) /\ Cardinality(Slots(d)) \in Nat
<1>1. Slots(d) \subseteq Workers
  BY DEF Slots
<1> QED
  BY <1>1, QueueAssumption, FS_Subset, FS_CardinalityType

\* A worker that takes a message takes one slot of that destination.
LEMMA TakeSlot ==
  ASSUME TypeOK, SlotsMatchDeliveries,
         NEW w \in Workers, NEW d \in Domains, StartDelivery(w, d)
  PROVE  SlotsMatchDeliveries'
<1> USE QueueAssumption
<1>1. PICK k \in DOMAIN pending[d] :
        worker' = [worker EXCEPT ![w] =
                     [pc |-> "delivering", id |-> pending[d][k].id, domain |-> d]]
  BY DEF StartDelivery
<1>2. worker[w] = Idle /\ inFlight' = [inFlight EXCEPT ![d] = @ + 1] /\ inFlight[d] < Limit
  BY DEF StartDelivery, CanSendNow
<1>3. worker'[w] # Idle /\ worker'[w].domain = d
  BY <1>1 DEF TypeOK, Idle
<1>4. \A v \in Workers : v # w => worker'[v] = worker[v]
  BY <1>1 DEF TypeOK
<1>5. Slots(d)' = Slots(d) \cup {w} /\ w \notin Slots(d)
  BY <1>2, <1>3, <1>4 DEF Slots
<1>6. \A e \in Domains : e # d => Slots(e)' = Slots(e)
  BY <1>2, <1>3, <1>4 DEF Slots
<1>7. Cardinality(Slots(d)') = Cardinality(Slots(d)) + 1
  BY <1>5, SlotsFinite, FS_AddElement
<1>8. ASSUME NEW e \in Domains
      PROVE  inFlight'[e] = Cardinality(Slots(e)') /\ Cardinality(Slots(e)') <= Limit
  <2>1. inFlight[e] = Cardinality(Slots(e)) /\ Cardinality(Slots(e)) <= Limit
    BY DEF SlotsMatchDeliveries
  <2>2. inFlight[e] \in Nat
    BY DEF TypeOK
  <2>3. inFlight'[e] = IF e = d THEN inFlight[e] + 1 ELSE inFlight[e]
    BY <1>2 DEF TypeOK
  <2> QED
    BY <1>2, <1>6, <1>7, <2>1, <2>2, <2>3
<1> QED
  BY <1>8 DEF SlotsMatchDeliveries

\* A worker that reports its delivery gives its slot back, and only its own.
LEMMA GiveSlotBack ==
  ASSUME TypeOK, SlotsMatchDeliveries,
         NEW w \in Workers, NEW d \in Domains, worker[w] \in Busy, worker[w].domain = d,
         ReleaseSlot(d), worker' = [worker EXCEPT ![w] = Idle]
  PROVE  SlotsMatchDeliveries'
<1>1. worker[w] # Idle
  BY DEF Idle, Busy
<1>2. worker'[w] = Idle /\ \A v \in Workers : v # w => worker'[v] = worker[v]
  BY DEF TypeOK
<1>3. Slots(d)' = Slots(d) \ {w} /\ w \in Slots(d)
  BY <1>1, <1>2 DEF Slots
<1>4. \A e \in Domains : e # d => Slots(e)' = Slots(e)
  BY <1>1, <1>2 DEF Slots
<1>5. inFlight' = [inFlight EXCEPT ![d] = IF @ > 0 THEN @ - 1 ELSE @]
  BY DEF ReleaseSlot
<1>6. /\ Cardinality(Slots(d)') = Cardinality(Slots(d)) - 1
      /\ Cardinality(Slots(d)') \in Nat
  <2>1. IsFiniteSet(Slots(d))
    BY <1>1, SlotsFinite
  <2>2. /\ IsFiniteSet(Slots(d) \ {w})
        /\ Cardinality(Slots(d) \ {w}) = Cardinality(Slots(d)) - 1
    BY <1>3, <2>1, FS_RemoveElement
  <2> QED
    BY <1>3, <2>2, FS_CardinalityType
<1>7. ASSUME NEW e \in Domains
      PROVE  inFlight'[e] = Cardinality(Slots(e)') /\ Cardinality(Slots(e)') <= Limit
  <2>1. inFlight[e] = Cardinality(Slots(e)) /\ Cardinality(Slots(e)) <= Limit
    BY DEF SlotsMatchDeliveries
  <2>2. inFlight[e] \in Nat /\ Limit \in Nat
    BY QueueAssumption DEF TypeOK
  <2>3. CASE e = d
    <3>1. inFlight'[d] = IF inFlight[d] > 0 THEN inFlight[d] - 1 ELSE inFlight[d]
      BY <1>1, <1>5 DEF TypeOK
    <3> QED
      BY <1>6, <2>1, <2>2, <2>3, <3>1
  <2>4. CASE e # d
    <3>1. inFlight'[e] = inFlight[e]
      BY <1>1, <1>5, <2>4 DEF TypeOK
    <3> QED
      BY <1>4, <2>1, <2>4, <3>1
  <2> QED
    BY <2>3, <2>4
<1> QED
  BY <1>7 DEF SlotsMatchDeliveries

\* However many workers poll, in_flight of a destination is the number of its deliveries
\* under way, which never exceeds the concurrency limit.
THEOREM SlotsCorrect == Spec => []SlotsMatchDeliveries
<1>1. Init => SlotsMatchDeliveries
  <2> SUFFICES ASSUME Init PROVE SlotsMatchDeliveries
    OBVIOUS
  <2>1. \A d \in Domains : Slots(d) = {}
    BY DEF Init, Slots
  <2>2. Cardinality({}) = 0
    BY FS_EmptySet
  <2> QED
    <3>1. ASSUME NEW d \in Domains
          PROVE  inFlight[d] = Cardinality(Slots(d)) /\ Cardinality(Slots(d)) <= Limit
      <4>1. inFlight[d] = 0 /\ Cardinality(Slots(d)) = 0
        BY <2>1, <2>2 DEF Init
      <4> QED
        BY <4>1, QueueAssumption
    <3> QED
      BY <3>1 DEF SlotsMatchDeliveries
<1>2. TypeOK /\ SlotsMatchDeliveries /\ [Next]_vars => SlotsMatchDeliveries'
  <2> SUFFICES ASSUME TypeOK, SlotsMatchDeliveries, [Next]_vars PROVE SlotsMatchDeliveries'
    OBVIOUS
  <2>1. ASSUME UNCHANGED inFlight, \A d \in Domains : Slots(d)' = Slots(d)
        PROVE  SlotsMatchDeliveries'
    BY <2>1 DEF SlotsMatchDeliveries
  <2>2. ASSUME UNCHANGED <<inFlight, worker>> PROVE SlotsMatchDeliveries'
    BY <2>1, <2>2 DEF Slots
  <2>3. ASSUME NEW w \in Workers, NEW d \in Domains, StartDelivery(w, d)
        PROVE  SlotsMatchDeliveries'
    BY <2>3, TakeSlot
  <2>4. ASSUME NEW w \in Workers, RemoveFromSpool(w) PROVE SlotsMatchDeliveries'
    <3>1. worker[w] \in Busy
      BY <2>4 DEF RemoveFromSpool, TypeOK, Idle, Busy
    <3>2. /\ worker[w] # Idle /\ worker'[w] # Idle
          /\ worker'[w].domain = worker[w].domain
          /\ \A v \in Workers : v # w => worker'[v] = worker[v]
      BY <2>4, <3>1 DEF RemoveFromSpool, TypeOK, Idle, Busy
    <3>3. \A d \in Domains : Slots(d)' = Slots(d)
      BY <3>2 DEF Slots
    <3> QED
      BY <2>1, <2>4, <3>3 DEF RemoveFromSpool
  <2>5. ASSUME NEW w \in Workers, OnSuccess(w) \/ OnFailure(w)
        PROVE  SlotsMatchDeliveries'
    <3>1. worker[w] \in Busy
      BY <2>5 DEF OnSuccess, OnFailure, TypeOK, Idle
    <3>2. PICK d \in Domains : worker[w].domain = d
      BY <3>1 DEF Busy
    <3>3. ReleaseSlot(d) /\ worker' = [worker EXCEPT ![w] = Idle]
      BY <2>5, <3>2 DEF OnSuccess, OnFailure
    <3> QED
      BY <3>1, <3>2, <3>3, GiveSlotBack
  <2> QED
    BY <2>2, <2>3, <2>4, <2>5
    DEF Next, Enqueue, ReadEnvelope, NotEnqueued, EnqueueToDomain, Work, Tick, vars
<1> QED
  BY <1>1, <1>2, TypeCorrect, PTL DEF Spec

-----------------------------------------------------------------------------
(* Every message in one place.  ExactlyOnePlace is not inductive: that a   *)
(* failed delivery goes back to the list it came from, and that a message  *)
(* that nobody holds is not taken twice, needs to know whose the workers'  *)
(* messages are.  OnePlaceInv says it part by part.                        *)

\* A list of messages holds message i; it holds no message twice.
Holds(q, i) == \E k \in DOMAIN q : q[k].id = i
Once(q) == \A k, l \in DOMAIN q : q[k].id = q[l].id => k = l

Live(i) == enqueuer[i] = "enqueued" /\ outcome[i] = "none"

ListsDistinct == \A d \in Domains : Once(pending[d])

\* What waits was enqueued for this destination, is not settled, and nobody delivers it.
ListedAreLive ==
  \A d \in Domains, i \in Ids : Holds(pending[d], i) =>
    Live(i) /\ DomainOf[i] = d /\ \A w \in Workers : ~ Delivers(w, i)

\* What a worker delivers was enqueued, for the destination whose slot it holds.
TakenAreLive ==
  \A w \in Workers, i \in Ids : Delivers(w, i) =>
    Live(i) /\ DomainOf[i] = worker[w].domain

OneDeliverer ==
  \A v, w \in Workers, i \in Ids : Delivers(v, i) /\ Delivers(w, i) => v = w

LiveAreSomewhere ==
  \A i \in Ids : Live(i) =>
    \/ \E d \in Domains : Holds(pending[d], i)
    \/ \E w \in Workers : Delivers(w, i)

\* A message is settled by a delivery, so after it was enqueued.
SettledWereEnqueued == \A i \in Ids : outcome[i] # "none" => enqueuer[i] = "enqueued"

OnePlaceInv ==
  /\ ListsDistinct
  /\ ListedAreLive
  /\ TakenAreLive
  /\ OneDeliverer
  /\ LiveAreSomewhere
  /\ SettledWereEnqueued

\* Appending a message that the list does not hold adds it, and nothing else.
LEMMA HoldsAppend ==
  ASSUME NEW q \in Seq(QueuedMessages), NEW m \in QueuedMessages
  PROVE  /\ \A i : Holds(Append(q, m), i) <=> Holds(q, i) \/ i = m.id
         /\ Once(q) /\ ~ Holds(q, m.id) => Once(Append(q, m))
<1> DEFINE more == Append(q, m)
<1>1. /\ Len(q) \in Nat /\ DOMAIN q = 1 .. Len(q) /\ DOMAIN more = 1 .. Len(q) + 1
      /\ more[Len(q) + 1] = m /\ \A k \in 1 .. Len(q) : more[k] = q[k]
  OBVIOUS
<1> HIDE DEF more
<1>2. ASSUME NEW i PROVE Holds(more, i) <=> Holds(q, i) \/ i = m.id
  <2>1. ASSUME Holds(q, i) \/ i = m.id PROVE Holds(more, i)
    <3>1. CASE Holds(q, i)
      BY <1>1, <3>1 DEF Holds
    <3>2. CASE i = m.id
      BY <1>1, <3>2 DEF Holds
    <3> QED
      BY <2>1, <3>1, <3>2
  <2>2. ASSUME Holds(more, i), i # m.id PROVE Holds(q, i)
    BY <1>1, <2>2 DEF Holds
  <2> QED
    BY <2>1, <2>2
<1>3. ASSUME Once(q), ~ Holds(q, m.id) PROVE Once(more)
  BY <1>1, <1>3 DEF Once, Holds
<1> QED
  BY <1>2, <1>3 DEF more

\* Removing a message from a list that holds it once takes it out, and nothing else.
LEMMA HoldsWithout ==
  ASSUME NEW q \in Seq(QueuedMessages), NEW k \in DOMAIN q, Once(q)
  PROVE  /\ \A i : Holds(Without(q, k), i) <=> Holds(q, i) /\ i # q[k].id
         /\ Once(Without(q, k))
<1> DEFINE rest == Without(q, k)
           Old(j) == IF j < k THEN j ELSE j + 1
<1>1. /\ Len(q) \in Nat /\ DOMAIN q = 1 .. Len(q) /\ k \in 1 .. Len(q)
      /\ DOMAIN rest = 1 .. Len(q) - 1
  BY DEF Without
<1>2. \A j \in DOMAIN rest : rest[j] = q[Old(j)] /\ Old(j) \in DOMAIN q /\ Old(j) # k
  BY <1>1 DEF Without
<1>3. \A j, l \in DOMAIN rest : Old(j) = Old(l) => j = l
  BY <1>1
<1>4. \A l \in DOMAIN q : l # k => \E j \in DOMAIN rest : l = Old(j)
  <2> TAKE l \in DOMAIN q
  <2>1. CASE l < k
    <3>1. l \in DOMAIN rest /\ Old(l) = l
      BY <1>1, <2>1
    <3> QED
      BY <3>1
  <2>2. CASE l > k
    <3>1. l - 1 \in DOMAIN rest /\ Old(l - 1) = l
      BY <1>1, <2>2
    <3> QED
      BY <3>1
  <2> QED
    BY <1>1, <2>1, <2>2
<1> HIDE DEF rest, Old
<1>5. ASSUME NEW i PROVE Holds(rest, i) <=> Holds(q, i) /\ i # q[k].id
  <2>1. ASSUME Holds(rest, i) PROVE Holds(q, i) /\ i # q[k].id
    <3>1. PICK j \in DOMAIN rest : rest[j].id = i
      BY <2>1 DEF Holds
    <3>2. q[Old(j)].id = i /\ Old(j) \in DOMAIN q /\ Old(j) # k
      BY <1>2, <3>1
    <3> QED
      BY <3>2 DEF Holds, Once
  <2>2. ASSUME Holds(q, i), i # q[k].id PROVE Holds(rest, i)
    <3>1. PICK l \in DOMAIN q : q[l].id = i
      BY <2>2 DEF Holds
    <3>2. PICK j \in DOMAIN rest : l = Old(j)
      BY <1>4, <2>2, <3>1
    <3> QED
      BY <1>2, <3>1, <3>2 DEF Holds
  <2> QED
    BY <2>1, <2>2
<1>6. Once(rest)
  BY <1>2, <1>3 DEF Once
<1> QED
  BY <1>5, <1>6 DEF rest

\* Types of what a busy worker holds.
LEMMA BusyType ==
  ASSUME TypeOK, NEW w \in Workers, worker[w].pc \in {"delivering", "releasing"}
  PROVE  /\ worker[w] \in Busy /\ worker[w] # Idle
         /\ worker[w].id \in Ids /\ worker[w].domain \in Domains
  BY DEF TypeOK, Idle, Busy

\* enqueue_to_domain puts a new message at the end of one list.
LEMMA EnqueueKeepsPlace ==
  ASSUME TypeOK, OnePlaceInv, NEW i \in Ids, EnqueueToDomain(i)
  PROVE  OnePlaceInv'
<1> USE QueueAssumption
<1> DEFINE d == DomainOf[i]
           new == Queued(i, 0, 0, PriorityOf[i])
<1>1. /\ d \in Domains /\ new \in QueuedMessages /\ new.id = i
      /\ pending[d] \in Seq(QueuedMessages)
  <2>1. d \in Domains
    BY DEF EnqueueToDomain
  <2>2. new \in QueuedMessages
    BY DEF QueuedMessages, Queued
  <2>3. pending[d] \in Seq(QueuedMessages)
    BY <2>1 DEF TypeOK
  <2> QED
    BY <2>1, <2>2, <2>3 DEF Queued
<1>2. /\ enqueuer[i] = "read"
      /\ enqueuer' = [enqueuer EXCEPT ![i] = "enqueued"]
      /\ pending' = [pending EXCEPT ![d] = Append(@, new)]
      /\ UNCHANGED <<worker, outcome>>
  BY DEF EnqueueToDomain
<1> HIDE DEF new
<1>3. ~ Holds(pending[d], i)
  BY <1>1, <1>2 DEF OnePlaceInv, ListedAreLive, Live
<1>4. /\ pending'[d] = Append(pending[d], new)
      /\ \A e \in Domains : e # d => pending'[e] = pending[e]
  BY <1>1, <1>2 DEF TypeOK
<1>5. \A j : Holds(pending'[d], j) <=> Holds(pending[d], j) \/ j = i
  BY <1>1, <1>4, HoldsAppend
<1>6. Once(pending'[d])
  BY <1>1, <1>3, <1>4, HoldsAppend DEF OnePlaceInv, ListsDistinct
<1>7. \A w \in Workers, j \in Ids : Delivers(w, j)' <=> Delivers(w, j)
  BY <1>2 DEF Delivers
<1>8. outcome[i] = "none" /\ \A w \in Workers : ~ Delivers(w, i)
  BY <1>1, <1>2 DEF OnePlaceInv, SettledWereEnqueued, TakenAreLive, Live
<1>9. \A j \in Ids : Live(j)' <=> Live(j) \/ j = i
  BY <1>2, <1>8 DEF Live, TypeOK
<1> HIDE DEF d
<1>10. ListsDistinct'
  BY <1>4, <1>6 DEF OnePlaceInv, ListsDistinct
<1>11. ListedAreLive'
  <2> SUFFICES ASSUME NEW e \in Domains, NEW j \in Ids, Holds(pending'[e], j)
               PROVE  Live(j)' /\ DomainOf[j] = e /\ \A w \in Workers : ~ Delivers(w, j)'
    BY DEF ListedAreLive
  <2>1. CASE Holds(pending[e], j)
    BY <1>7, <1>9, <2>1 DEF OnePlaceInv, ListedAreLive
  <2>2. CASE e = d /\ j = i
    BY <1>7, <1>8, <1>9, <2>2 DEF d
  <2> QED
    BY <1>4, <1>5, <2>1, <2>2
<1>12. TakenAreLive'
  BY <1>2, <1>7, <1>9 DEF OnePlaceInv, TakenAreLive
<1>13. OneDeliverer'
  BY <1>7 DEF OnePlaceInv, OneDeliverer
<1>14. LiveAreSomewhere'
  <2> SUFFICES ASSUME NEW j \in Ids, Live(j)'
               PROVE  \/ \E e \in Domains : Holds(pending'[e], j)
                      \/ \E w \in Workers : Delivers(w, j)'
    BY DEF LiveAreSomewhere
  <2>1. CASE j = i
    BY <1>1, <1>5, <2>1
  <2>2. CASE \E e \in Domains : Holds(pending[e], j)
    BY <1>4, <1>5, <2>2
  <2>3. CASE \E w \in Workers : Delivers(w, j)
    BY <1>7, <2>3
  <2> QED
    BY <1>9, <2>1, <2>2, <2>3 DEF OnePlaceInv, LiveAreSomewhere
<1>15. SettledWereEnqueued'
  BY <1>2 DEF OnePlaceInv, SettledWereEnqueued, TypeOK
<1> QED
  BY <1>10, <1>11, <1>12, <1>13, <1>14, <1>15 DEF OnePlaceInv

\* next_for_delivery moves a message from its list to a worker.
LEMMA StartKeepsPlace ==
  ASSUME TypeOK, OnePlaceInv, NEW w \in Workers, NEW d \in Domains, StartDelivery(w, d)
  PROVE  OnePlaceInv'
<1>1. PICK k \in DOMAIN pending[d] :
        /\ pending' = [pending EXCEPT ![d] = Without(@, k)]
        /\ worker' = [worker EXCEPT ![w] =
                        [pc |-> "delivering", id |-> pending[d][k].id, domain |-> d]]
  BY DEF StartDelivery
<1>2. worker[w] = Idle /\ UNCHANGED <<enqueuer, outcome>>
  BY DEF StartDelivery
<1> DEFINE i == pending[d][k].id
<1>3. pending[d] \in Seq(QueuedMessages) /\ i \in Ids /\ Holds(pending[d], i)
  <2>1. pending[d] \in Seq(QueuedMessages) /\ pending[d][k] \in QueuedMessages
    BY <1>1 DEF TypeOK
  <2> QED
    BY <1>1, <2>1 DEF QueuedMessages, Holds
<1>4. /\ pending'[d] = Without(pending[d], k)
      /\ \A e \in Domains : e # d => pending'[e] = pending[e]
  BY <1>1 DEF TypeOK
<1>5. /\ \A j : Holds(pending'[d], j) <=> Holds(pending[d], j) /\ j # i
      /\ Once(pending'[d])
  BY <1>1, <1>3, <1>4, HoldsWithout DEF OnePlaceInv, ListsDistinct
<1>6. \A v \in Workers : v # w => worker'[v] = worker[v]
  BY <1>1 DEF TypeOK
<1>7. worker'[w].pc = "delivering" /\ worker'[w].id = i /\ worker'[w].domain = d
  BY <1>1 DEF TypeOK
<1> HIDE DEF i
<1>8. /\ \A j : ~ Delivers(w, j)
      /\ \A j : Delivers(w, j)' <=> j = i
      /\ \A v \in Workers : \A j : v # w => (Delivers(v, j)' <=> Delivers(v, j))
  BY <1>2, <1>6, <1>7 DEF Delivers, Idle
<1>9. \A j : Live(j)' <=> Live(j)
  BY <1>2 DEF Live
<1>10. Live(i) /\ DomainOf[i] = d /\ \A v \in Workers : ~ Delivers(v, i)
  BY <1>3 DEF OnePlaceInv, ListedAreLive
<1>11. ListsDistinct'
  BY <1>4, <1>5 DEF OnePlaceInv, ListsDistinct
<1>12. ListedAreLive'
  <2> SUFFICES ASSUME NEW e \in Domains, NEW j \in Ids, Holds(pending'[e], j)
               PROVE  Live(j)' /\ DomainOf[j] = e /\ \A v \in Workers : ~ Delivers(v, j)'
    BY DEF ListedAreLive
  <2>1. Holds(pending[e], j)
    BY <1>4, <1>5
  <2>2. Live(j) /\ DomainOf[j] = e /\ \A v \in Workers : ~ Delivers(v, j)
    BY <2>1 DEF OnePlaceInv, ListedAreLive
  <2>3. j # i
    BY <1>5, <1>10, <2>2
  <2> QED
    BY <1>8, <1>9, <2>2, <2>3
<1>13. TakenAreLive'
  <2> SUFFICES ASSUME NEW v \in Workers, NEW j \in Ids, Delivers(v, j)'
               PROVE  Live(j)' /\ DomainOf[j] = worker'[v].domain
    BY DEF TakenAreLive
  <2>1. CASE v = w
    BY <1>7, <1>8, <1>9, <1>10, <2>1
  <2>2. CASE v # w
    BY <1>6, <1>8, <1>9, <2>2 DEF OnePlaceInv, TakenAreLive
  <2> QED
    BY <2>1, <2>2
<1>14. OneDeliverer'
  <2> SUFFICES ASSUME NEW u \in Workers, NEW v \in Workers, NEW j \in Ids,
                      Delivers(u, j)', Delivers(v, j)'
               PROVE  u = v
    BY DEF OneDeliverer
  <2>1. CASE j = i
    BY <1>8, <1>10, <2>1
  <2>2. CASE j # i
    BY <1>8, <2>2 DEF OnePlaceInv, OneDeliverer
  <2> QED
    BY <2>1, <2>2
<1>15. LiveAreSomewhere'
  <2> SUFFICES ASSUME NEW j \in Ids, Live(j)'
               PROVE  \/ \E e \in Domains : Holds(pending'[e], j)
                      \/ \E v \in Workers : Delivers(v, j)'
    BY DEF LiveAreSomewhere
  <2>1. CASE j = i
    BY <1>8, <2>1
  <2>2. CASE j # i /\ \E e \in Domains : Holds(pending[e], j)
    BY <1>4, <1>5, <2>2
  <2>3. CASE \E v \in Workers : Delivers(v, j)
    BY <1>8, <2>3
  <2> QED
    BY <1>9, <2>1, <2>2, <2>3 DEF OnePlaceInv, LiveAreSomewhere
<1>16. SettledWereEnqueued'
  BY <1>2 DEF OnePlaceInv, SettledWereEnqueued
<1> QED
  BY <1>11, <1>12, <1>13, <1>14, <1>15, <1>16 DEF OnePlaceInv

\* A delivery that settles its message, either way, leaves it in no place.
LEMMA SettleKeepsPlace ==
  ASSUME TypeOK, OnePlaceInv,
         NEW w \in Workers, NEW i \in Ids, NEW result \in {"delivered", "dropped"},
         Delivers(w, i),
         outcome' = [outcome EXCEPT ![i] = result],
         \A j : ~ Delivers(w, j)',
         \A v \in Workers : v # w => worker'[v] = worker[v],
         UNCHANGED <<pending, enqueuer>>
  PROVE  OnePlaceInv'
<1>1. \A v \in Workers : \A j : Delivers(v, j)' <=> v # w /\ Delivers(v, j)
  BY DEF Delivers
<1>2. Live(i) /\ \A v \in Workers : Delivers(v, i) => v = w
  BY DEF OnePlaceInv, TakenAreLive, OneDeliverer
<1>3. \A j \in Ids : Live(j)' <=> Live(j) /\ j # i
  BY DEF Live, TypeOK
<1>4. \A e \in Domains : ~ Holds(pending[e], i)
  BY DEF OnePlaceInv, ListedAreLive
<1>5. ListsDistinct'
  BY DEF OnePlaceInv, ListsDistinct
<1>6. ListedAreLive'
  BY <1>1, <1>3, <1>4 DEF OnePlaceInv, ListedAreLive
<1>7. TakenAreLive'
  <2> SUFFICES ASSUME NEW v \in Workers, NEW j \in Ids, Delivers(v, j)'
               PROVE  Live(j)' /\ DomainOf[j] = worker'[v].domain
    BY DEF TakenAreLive
  <2>1. v # w /\ Delivers(v, j) /\ worker'[v] = worker[v]
    BY <1>1
  <2>2. j # i
    BY <1>2, <2>1
  <2> QED
    BY <1>3, <2>1, <2>2 DEF OnePlaceInv, TakenAreLive
<1>8. OneDeliverer'
  BY <1>1 DEF OnePlaceInv, OneDeliverer
<1>9. LiveAreSomewhere'
  <2> SUFFICES ASSUME NEW j \in Ids, Live(j)'
               PROVE  \/ \E e \in Domains : Holds(pending'[e], j)
                      \/ \E v \in Workers : Delivers(v, j)'
    BY DEF LiveAreSomewhere
  <2>1. Live(j) /\ j # i
    BY <1>3
  <2>2. CASE \E e \in Domains : Holds(pending[e], j)
    BY <2>2
  <2>3. CASE \E v \in Workers : Delivers(v, j)
    <3>1. PICK v \in Workers : Delivers(v, j)
      BY <2>3
    <3>2. v # w
      BY <2>1, <3>1 DEF Delivers
    <3> QED
      BY <1>1, <3>1, <3>2
  <2> QED
    BY <2>1, <2>2, <2>3 DEF OnePlaceInv, LiveAreSomewhere
<1>10. SettledWereEnqueued'
  BY <1>2 DEF OnePlaceInv, SettledWereEnqueued, Live, TypeOK
<1> QED
  BY <1>5, <1>6, <1>7, <1>8, <1>9, <1>10 DEF OnePlaceInv

\* A failed delivery that is retried puts its message back into the list it came from.
LEMMA RetryKeepsPlace ==
  ASSUME TypeOK, OnePlaceInv,
         NEW w \in Workers, NEW i \in Ids, NEW d \in Domains, NEW new \in QueuedMessages,
         Delivers(w, i), worker[w].domain = d, new.id = i,
         pending' = [pending EXCEPT ![d] = Append(@, new)],
         worker' = [worker EXCEPT ![w] = Idle],
         UNCHANGED <<outcome, enqueuer>>
  PROVE  OnePlaceInv'
<1>1. \A v \in Workers : v # w => worker'[v] = worker[v]
  BY DEF TypeOK
<1>2. \A j : ~ Delivers(w, j)'
  BY DEF TypeOK, Delivers, Idle
<1>3. \A v \in Workers : \A j : Delivers(v, j)' <=> v # w /\ Delivers(v, j)
  BY <1>1, <1>2 DEF Delivers
<1>4. Live(i) /\ DomainOf[i] = d /\ \A v \in Workers : Delivers(v, i) => v = w
  BY DEF OnePlaceInv, TakenAreLive, OneDeliverer
<1>5. \A j : Live(j)' <=> Live(j)
  BY DEF Live
<1>6. \A e \in Domains : ~ Holds(pending[e], i)
  BY DEF OnePlaceInv, ListedAreLive
<1>7. /\ pending[d] \in Seq(QueuedMessages) /\ pending'[d] = Append(pending[d], new)
      /\ \A e \in Domains : e # d => pending'[e] = pending[e]
  BY DEF TypeOK
<1>8. /\ \A j : Holds(pending'[d], j) <=> Holds(pending[d], j) \/ j = i
      /\ Once(pending'[d])
  BY <1>6, <1>7, HoldsAppend DEF OnePlaceInv, ListsDistinct
<1>9. ListsDistinct'
  BY <1>7, <1>8 DEF OnePlaceInv, ListsDistinct
<1>10. ListedAreLive'
  <2> SUFFICES ASSUME NEW e \in Domains, NEW j \in Ids, Holds(pending'[e], j)
               PROVE  Live(j)' /\ DomainOf[j] = e /\ \A v \in Workers : ~ Delivers(v, j)'
    BY DEF ListedAreLive
  <2>1. CASE j = i
    <3>1. e = d
      BY <1>6, <1>7, <2>1
    <3> QED
      BY <1>3, <1>4, <1>5, <2>1, <3>1
  <2>2. CASE j # i
    BY <1>3, <1>5, <1>7, <1>8, <2>2 DEF OnePlaceInv, ListedAreLive
  <2> QED
    BY <2>1, <2>2
<1>11. TakenAreLive'
  <2> SUFFICES ASSUME NEW v \in Workers, NEW j \in Ids, Delivers(v, j)'
               PROVE  Live(j)' /\ DomainOf[j] = worker'[v].domain
    BY DEF TakenAreLive
  <2>1. v # w /\ Delivers(v, j) /\ worker'[v] = worker[v]
    BY <1>1, <1>3
  <2> QED
    BY <1>5, <2>1 DEF OnePlaceInv, TakenAreLive
<1>12. OneDeliverer'
  BY <1>3 DEF OnePlaceInv, OneDeliverer
<1>13. LiveAreSomewhere'
  <2> SUFFICES ASSUME NEW j \in Ids, Live(j)'
               PROVE  \/ \E e \in Domains : Holds(pending'[e], j)
                      \/ \E v \in Workers : Delivers(v, j)'
    BY DEF LiveAreSomewhere
  <2>1. CASE j = i
    BY <1>8, <2>1
  <2>2. CASE \E e \in Domains : Holds(pending[e], j)
    BY <1>7, <1>8, <2>2
  <2>3. CASE j # i /\ \E v \in Workers : Delivers(v, j)
    <3>1. PICK v \in Workers : Delivers(v, j)
      BY <2>3
    <3>2. v # w
      BY <2>3, <3>1 DEF Delivers
    <3> QED
      BY <1>3, <3>1, <3>2
  <2> QED
    BY <1>5, <2>1, <2>2, <2>3 DEF OnePlaceInv, LiveAreSomewhere
<1>14. SettledWereEnqueued'
  BY DEF OnePlaceInv, SettledWereEnqueued
<1> QED
  BY <1>9, <1>10, <1>11, <1>12, <1>13, <1>14 DEF OnePlaceInv

\* What on_delivery_failure does to the lists: the message is given up or goes back.
LEMMA FailureEffect ==
  ASSUME TypeOK, NEW w \in Workers, OnFailure(w)
  PROVE  LET i == worker[w].id
             d == worker[w].domain
             new == Queued(i, 1, now, 1)
         IN /\ worker[w] \in Busy /\ i \in Ids /\ d \in Domains
            /\ Delivers(w, i) /\ new \in QueuedMessages
            /\ worker' = [worker EXCEPT ![w] = Idle]
            /\ UNCHANGED <<spool, enqueuer, now, arrivals>>
            /\ \/ outcome' = [outcome EXCEPT ![i] = "dropped"] /\ pending' = pending
               \/ outcome' = outcome /\ pending' = [pending EXCEPT ![d] = Append(@, new)]
<1> DEFINE i == worker[w].id
           d == worker[w].domain
           new == Queued(i, 1, now, 1)
<1>1. worker[w] \in Busy /\ i \in Ids /\ d \in Domains
  BY BusyType DEF OnFailure
<1>2. new \in QueuedMessages
  BY <1>1, QueueAssumption DEF Queued, QueuedMessages, TypeOK
<1>3. 0 + 1 = 1 /\ now + DelayForAttempt(1) = now
  BY NoDelay, QueueAssumption DEF TypeOK
<1>4. /\ Delivers(w, i)
      /\ worker' = [worker EXCEPT ![w] = Idle]
      /\ UNCHANGED <<spool, enqueuer, now, arrivals>>
      /\ \/ outcome' = [outcome EXCEPT ![i] = "dropped"] /\ pending' = pending
         \/ outcome' = outcome /\ pending' = [pending EXCEPT ![d] = Append(@, new)]
  BY <1>3 DEF OnFailure, Delivers
<1> QED
  BY <1>1, <1>2, <1>4

\* No call loses a message or doubles it.
LEMMA OnePlaceStep == TypeOK /\ OnePlaceInv /\ [Next]_vars => OnePlaceInv'
<1> SUFFICES ASSUME TypeOK, OnePlaceInv, [Next]_vars PROVE OnePlaceInv'
  OBVIOUS
<1>1. ASSUME UNCHANGED <<pending, outcome, enqueuer>>,
             \A w \in Workers : \A j : Delivers(w, j)' <=> Delivers(w, j),
             \A w \in Workers : \A j : Delivers(w, j)' => worker'[w] = worker[w]
      PROVE  OnePlaceInv'
  <2>1. \A j : Live(j)' <=> Live(j)
    BY <1>1 DEF Live
  <2>2. ListsDistinct' /\ ListedAreLive' /\ OneDeliverer' /\ LiveAreSomewhere'
    BY <1>1, <2>1
    DEF OnePlaceInv, ListsDistinct, ListedAreLive, OneDeliverer, LiveAreSomewhere
  <2>3. TakenAreLive'
    BY <1>1, <2>1 DEF OnePlaceInv, TakenAreLive
  <2>4. SettledWereEnqueued'
    BY <1>1 DEF OnePlaceInv, SettledWereEnqueued
  <2> QED
    BY <2>2, <2>3, <2>4 DEF OnePlaceInv
<1>2. ASSUME NEW i \in Ids, ReadEnvelope(i) \/ NotEnqueued(i) PROVE OnePlaceInv'
  <2>1. enqueuer[i] # "enqueued" /\ enqueuer'[i] # "enqueued"
    BY <1>2 DEF ReadEnvelope, NotEnqueued, TypeOK
  <2>2. /\ UNCHANGED <<pending, outcome, worker>>
        /\ \A j \in Ids : j # i => enqueuer'[j] = enqueuer[j]
    BY <1>2 DEF ReadEnvelope, NotEnqueued, TypeOK
  <2>3. \A j \in Ids : Live(j)' <=> Live(j)
    BY <2>1, <2>2 DEF Live
  <2>4. \A w \in Workers : \A j : Delivers(w, j)' <=> Delivers(w, j)
    BY <2>2 DEF Delivers
  <2>5. ListsDistinct' /\ ListedAreLive' /\ OneDeliverer' /\ LiveAreSomewhere'
    BY <2>2, <2>3, <2>4
    DEF OnePlaceInv, ListsDistinct, ListedAreLive, OneDeliverer, LiveAreSomewhere
  <2>6. TakenAreLive'
    BY <2>2, <2>3, <2>4 DEF OnePlaceInv, TakenAreLive
  <2>7. SettledWereEnqueued'
    BY <2>1, <2>2 DEF OnePlaceInv, SettledWereEnqueued
  <2> QED
    BY <2>5, <2>6, <2>7 DEF OnePlaceInv
<1>3. ASSUME NEW i \in Ids, EnqueueToDomain(i) PROVE OnePlaceInv'
  BY <1>3, EnqueueKeepsPlace
<1>4. ASSUME NEW w \in Workers, NEW d \in Domains, StartDelivery(w, d) PROVE OnePlaceInv'
  BY <1>4, StartKeepsPlace
<1>5. ASSUME NEW w \in Workers, RemoveFromSpool(w) PROVE OnePlaceInv'
  <2>1. worker[w] \in Busy /\ worker[w].id \in Ids /\ Delivers(w, worker[w].id)
    BY <1>5, BusyType DEF RemoveFromSpool, Delivers
  <2>2. /\ outcome' = [outcome EXCEPT ![worker[w].id] = "delivered"]
        /\ UNCHANGED <<pending, enqueuer>>
    BY <1>5 DEF RemoveFromSpool
  <2>3. worker' = [worker EXCEPT ![w] = [worker[w] EXCEPT !.pc = "releasing"]]
    BY <1>5 DEF RemoveFromSpool, TypeOK
  <2>4. worker'[w].pc = "releasing" /\ \A v \in Workers : v # w => worker'[v] = worker[v]
    BY <2>1, <2>3 DEF TypeOK, Busy
  <2>5. \A j : ~ Delivers(w, j)'
    BY <2>4 DEF Delivers
  <2> QED
    BY <2>1, <2>2, <2>4, <2>5, SettleKeepsPlace
<1>6. ASSUME NEW w \in Workers, OnSuccess(w) PROVE OnePlaceInv'
  <2>1. /\ worker[w].pc = "releasing" /\ worker' = [worker EXCEPT ![w] = Idle]
        /\ UNCHANGED <<pending, outcome, enqueuer>>
    BY <1>6 DEF OnSuccess
  <2>2. worker'[w] = Idle /\ \A v \in Workers : v # w => worker'[v] = worker[v]
    BY <2>1 DEF TypeOK
  <2>3. \A j : ~ Delivers(w, j)' /\ ~ Delivers(w, j)
    BY <2>1, <2>2 DEF Delivers, Idle
  <2>4. \A v \in Workers : \A j :
          (Delivers(v, j)' <=> Delivers(v, j)) /\ (Delivers(v, j)' => worker'[v] = worker[v])
    BY <2>2, <2>3 DEF Delivers
  <2> QED
    BY <1>1, <2>1, <2>4
<1>7. ASSUME NEW w \in Workers, OnFailure(w) PROVE OnePlaceInv'
  <2> DEFINE i == worker[w].id
             d == worker[w].domain
             new == Queued(i, 1, now, 1)
  <2>1. /\ worker[w] \in Busy /\ i \in Ids /\ d \in Domains
        /\ Delivers(w, i) /\ new \in QueuedMessages
        /\ worker' = [worker EXCEPT ![w] = Idle] /\ UNCHANGED enqueuer
        /\ \/ outcome' = [outcome EXCEPT ![i] = "dropped"] /\ pending' = pending
           \/ outcome' = outcome /\ pending' = [pending EXCEPT ![d] = Append(@, new)]
    BY <1>7, FailureEffect
  <2>2. new.id = i
    BY DEF Queued
  <2>3. worker'[w] = Idle /\ \A v \in Workers : v # w => worker'[v] = worker[v]
    BY <2>1 DEF TypeOK
  <2>4. \A j : ~ Delivers(w, j)'
    BY <2>3 DEF Delivers, Idle
  <2> HIDE DEF new
  <2> QED
    BY <2>1, <2>2, <2>3, <2>4, SettleKeepsPlace, RetryKeepsPlace
<1>8. CASE Tick
  BY <1>1, <1>8 DEF Tick, Delivers
<1>9. CASE UNCHANGED vars
  BY <1>1, <1>9 DEF vars, Delivers
<1> QED
  BY <1>2, <1>3, <1>4, <1>5, <1>6, <1>7, <1>8, <1>9 DEF Next, Enqueue, Work

\* The parts of OnePlaceInv hold in every state.
LEMMA OnePlaceInvariant == Spec => []OnePlaceInv
<1>1. Init => OnePlaceInv
  <2> SUFFICES ASSUME Init PROVE OnePlaceInv
    OBVIOUS
  <2>1. /\ \A d \in Domains : pending[d] = <<>>
        /\ \A w \in Workers : \A i : ~ Delivers(w, i)
        /\ \A i \in Ids : enqueuer[i] = "stored" /\ outcome[i] = "none"
    BY DEF Init, Delivers, Idle
  <2>2. \A d \in Domains : \A i : ~ Holds(pending[d], i)
    BY <2>1 DEF Holds
  <2>3. ListsDistinct
    BY <2>1 DEF ListsDistinct, Once
  <2> QED
    BY <2>1, <2>2, <2>3
    DEF OnePlaceInv, ListedAreLive, TakenAreLive, OneDeliverer, LiveAreSomewhere,
        SettledWereEnqueued, Live
<1> QED
  BY <1>1, OnePlaceStep, TypeCorrect, PTL DEF Spec

\* However the calls interleave, no message is lost or doubled on its way between the
\* list of its destination and the workers (enqueue, next_for_delivery,
\* on_delivery_success, on_delivery_failure).
THEOREM PlaceCorrect == Spec => []ExactlyOnePlace
<1>1. TypeOK /\ OnePlaceInv => ExactlyOnePlace
  <2> SUFFICES ASSUME TypeOK, OnePlaceInv, NEW i \in Ids PROVE InOnePlace(i)
    BY DEF ExactlyOnePlace
  <2> DEFINE here(d, k) == k \in DOMAIN pending[d] /\ pending[d][k].id = i
  <2>1. \A d \in Domains : (\E k \in DOMAIN pending[d] : here(d, k)) <=> Holds(pending[d], i)
    BY DEF Holds
  <2>2. Live(i) <=> \/ \E d \in Domains : Holds(pending[d], i)
                    \/ \E w \in Workers : Delivers(w, i)
    BY DEF OnePlaceInv, ListedAreLive, TakenAreLive, LiveAreSomewhere
  <2>3. ASSUME NEW d \in Domains, NEW e \in Domains,
               NEW k \in DOMAIN pending[d], NEW l \in DOMAIN pending[e], here(d, k), here(e, l)
        PROVE  d = e /\ k = l
    <3>1. Holds(pending[d], i) /\ Holds(pending[e], i)
      BY <2>3 DEF Holds
    <3>2. d = e
      BY <3>1 DEF OnePlaceInv, ListedAreLive
    <3> QED
      BY <2>3, <3>2 DEF OnePlaceInv, ListsDistinct, Once
  <2>4. ASSUME NEW d \in Domains, NEW k \in DOMAIN pending[d], here(d, k)
        PROVE  d = DomainOf[i] /\ \A w \in Workers : ~ Delivers(w, i)
    <3>1. Holds(pending[d], i)
      BY <2>4 DEF Holds
    <3> QED
      BY <3>1 DEF OnePlaceInv, ListedAreLive
  <2>5. \A v, w \in Workers : Delivers(v, i) /\ Delivers(w, i) => v = w
    BY DEF OnePlaceInv, OneDeliverer
  <2> QED
    BY <2>1, <2>2, <2>3, <2>4, <2>5, Zenon DEF InOnePlace, Live
<1> QED
  BY <1>1, TypeCorrect, OnePlaceInvariant, PTL

-----------------------------------------------------------------------------
(* The files of messages that are still to be delivered. *)

UndeliveredAreSpooled == \A i \in Ids : outcome[i] # "delivered" => i \in spool

\* Only a delivered message loses its file, and nothing undoes a delivery.
LEMMA SpooledInvariant == Spec => []UndeliveredAreSpooled
<1>1. Init => UndeliveredAreSpooled
  BY DEF Init, UndeliveredAreSpooled
<1>2. TypeOK /\ OnePlaceInv /\ UndeliveredAreSpooled /\ [Next]_vars => UndeliveredAreSpooled'
  <2> SUFFICES ASSUME TypeOK, OnePlaceInv, UndeliveredAreSpooled, [Next]_vars
               PROVE  UndeliveredAreSpooled'
    OBVIOUS
  <2>1. ASSUME UNCHANGED <<spool, outcome>> PROVE UndeliveredAreSpooled'
    BY <2>1 DEF UndeliveredAreSpooled
  <2>2. ASSUME NEW w \in Workers, RemoveFromSpool(w) PROVE UndeliveredAreSpooled'
    <3>1. /\ worker[w].id \in Ids
          /\ spool' \in {spool, spool \ {worker[w].id}}
          /\ outcome' = [outcome EXCEPT ![worker[w].id] = "delivered"]
      BY <2>2, BusyType DEF RemoveFromSpool
    <3>2. ASSUME NEW i \in Ids, outcome'[i] # "delivered" PROVE i \in spool'
      <4>1. i # worker[w].id /\ outcome[i] # "delivered"
        BY <3>1, <3>2 DEF TypeOK
      <4> QED
        BY <3>1, <4>1 DEF UndeliveredAreSpooled
    <3> QED
      BY <3>2 DEF UndeliveredAreSpooled
  <2>3. ASSUME NEW w \in Workers, OnFailure(w) PROVE UndeliveredAreSpooled'
    <3> DEFINE i == worker[w].id
    <3>1. /\ spool' = spool /\ i \in Ids /\ Delivers(w, i)
          /\ outcome' = [outcome EXCEPT ![i] = "dropped"] \/ outcome' = outcome
      BY <2>3, FailureEffect
    <3>2. outcome[i] = "none"
      BY <3>1 DEF OnePlaceInv, TakenAreLive, Live
    <3> HIDE DEF i
    <3> QED
      BY <3>1, <3>2 DEF UndeliveredAreSpooled, TypeOK
  <2> QED
    BY <2>1, <2>2, <2>3
    DEF Next, Enqueue, ReadEnvelope, NotEnqueued, EnqueueToDomain, Work, StartDelivery,
        OnSuccess, Tick, vars
<1> QED
  BY <1>1, <1>2, TypeCorrect, OnePlaceInvariant, PTL DEF Spec

\* Whoever still has to read a message for its delivery finds its file
\* (on_delivery_success removes it, on_delivery_failure does not).
THEOREM SpoolCorrect == Spec => []SpoolKept
<1>1. TypeOK /\ OnePlaceInv /\ UndeliveredAreSpooled => SpoolKept
  <2> SUFFICES ASSUME TypeOK, OnePlaceInv, UndeliveredAreSpooled PROVE SpoolKept
    OBVIOUS
  <2>1. ASSUME NEW d \in Domains, NEW k \in DOMAIN pending[d] PROVE pending[d][k].id \in spool
    <3>1. pending[d][k] \in QueuedMessages
      BY DEF TypeOK
    <3>2. pending[d][k].id \in Ids /\ Holds(pending[d], pending[d][k].id)
      BY <3>1 DEF QueuedMessages, Holds
    <3> QED
      BY <3>2 DEF OnePlaceInv, ListedAreLive, Live, UndeliveredAreSpooled
  <2>2. ASSUME NEW w \in Workers, worker[w].pc = "delivering" PROVE worker[w].id \in spool
    <3>1. worker[w].id \in Ids /\ Delivers(w, worker[w].id)
      BY <2>2, BusyType DEF Delivers
    <3> QED
      BY <3>1 DEF OnePlaceInv, TakenAreLive, Live, UndeliveredAreSpooled
  <2> QED
    BY <2>1, <2>2 DEF SpoolKept
<1> QED
  BY <1>1, TypeCorrect, OnePlaceInvariant, SpooledInvariant, PTL

-----------------------------------------------------------------------------
(* First attempts in order. *)

\* Only what was enqueued has arrived.
ArrivedWereEnqueued == \A k \in DOMAIN arrivals : enqueuer[arrivals[k]] = "enqueued"

\* A message that waits for its first attempt is as it was enqueued.
FirstAttemptsAsEnqueued ==
  \A d \in Domains : \A k \in DOMAIN pending[d] :
    pending[d][k].attempt = 0 =>
      pending[d][k].next = 0 /\ pending[d][k].priority = PriorityOf[pending[d][k].id]

WaitsBehind(d, k, i) ==
  \E l \in DOMAIN pending[d] : l > k /\ pending[d][l].id = i /\ pending[d][l].attempt = 0

\* What arrived after a message that waits for its first attempt still waits behind it,
\* unless it is more urgent.
PassedByUrgentOnly ==
  \A d \in Domains : \A k \in DOMAIN pending[d] : \A i \in Ids :
    LET m == pending[d][k]
    IN m.attempt = 0 /\ DomainOf[i] = d /\ Before(m.id, i) =>
         PriorityOf[i] < PriorityOf[m.id] \/ WaitsBehind(d, k, i)

OrderInv == ArrivedWereEnqueued /\ FirstAttemptsAsEnqueued /\ PassedByUrgentOnly

\* Arrivals only grow, at their end: what came before what, still did.
LEMMA BeforeAppend ==
  ASSUME TypeOK, NEW i \in Ids, arrivals' = Append(arrivals, i)
  PROVE  /\ \A j, l : Before(j, l) => Before(j, l)'
         /\ \A j, l : Before(j, l)' => Before(j, l) \/ l = i
<1>1. /\ Len(arrivals) \in Nat /\ DOMAIN arrivals = 1 .. Len(arrivals)
      /\ DOMAIN arrivals' = 1 .. Len(arrivals) + 1
      /\ arrivals'[Len(arrivals) + 1] = i
      /\ \A k \in 1 .. Len(arrivals) : arrivals'[k] = arrivals[k]
  BY DEF TypeOK
<1> QED
  BY <1>1 DEF Before

\* What came before what depends on the arrivals alone.
LEMMA BeforeSame ==
  ASSUME arrivals' = arrivals
  PROVE  \A i, j : Before(i, j)' <=> Before(i, j)
  BY DEF Before

\* Among messages that wait for their first attempt, the one that next_for_delivery takes
\* is more urgent than those ahead of it.
LEMMA BestPassesUrgentOnly ==
  ASSUME TypeOK, FirstAttemptsAsEnqueued, NEW d \in Domains,
         NEW k \in DOMAIN pending[d], IsBest(d, k), pending[d][k].attempt = 0,
         NEW o \in DOMAIN pending[d], k > o, pending[d][o].attempt = 0
  PROVE  PriorityOf[pending[d][k].id] < PriorityOf[pending[d][o].id]
<1>1. pending[d] \in Seq(QueuedMessages) /\ k \in Nat /\ o \in Nat /\ now \in Nat
  BY QueueAssumption DEF TypeOK
<1>2. /\ pending[d][k].priority = PriorityOf[pending[d][k].id]
      /\ pending[d][o].next = 0 /\ pending[d][o].priority = PriorityOf[pending[d][o].id]
  BY DEF FirstAttemptsAsEnqueued
<1>3. o \in Ready(d)
  BY <1>1, <1>2 DEF Ready
<1> QED
  BY <1>1, <1>2, <1>3 DEF IsBest

\* Every call keeps the order of the messages that wait for their first attempt.
LEMMA OrderStep ==
  TypeOK /\ OnePlaceInv /\ OrderInv /\ [Next]_vars => OrderInv'
<1> SUFFICES ASSUME TypeOK, OnePlaceInv, OrderInv, [Next]_vars PROVE OrderInv'
  OBVIOUS
<1> USE QueueAssumption
<1>1. ASSUME UNCHANGED <<pending, arrivals>>,
             \A i \in Ids : enqueuer[i] = "enqueued" => enqueuer'[i] = "enqueued"
      PROVE  OrderInv'
  <2>1. ArrivedWereEnqueued'
    BY <1>1 DEF OrderInv, ArrivedWereEnqueued, TypeOK
  <2>2. FirstAttemptsAsEnqueued' /\ PassedByUrgentOnly'
    BY <1>1 DEF OrderInv, FirstAttemptsAsEnqueued, PassedByUrgentOnly, WaitsBehind, Before
  <2> QED
    BY <2>1, <2>2 DEF OrderInv
<1>2. ASSUME NEW i \in Ids, EnqueueToDomain(i) PROVE OrderInv'
  <2> DEFINE d == DomainOf[i]
             new == Queued(i, 0, 0, PriorityOf[i])
             n == Len(pending[d]) + 1
  <2>1. /\ d \in Domains /\ enqueuer[i] = "read" /\ arrivals' = Append(arrivals, i)
        /\ enqueuer' = [enqueuer EXCEPT ![i] = "enqueued"]
        /\ pending' = [pending EXCEPT ![d] = Append(@, new)]
    BY <1>2 DEF EnqueueToDomain
  <2>2. /\ new.id = i /\ new.attempt = 0 /\ new.next = 0 /\ new.priority = PriorityOf[i]
    BY DEF Queued
  <2>3. pending[d] \in Seq(QueuedMessages) /\ n \in Nat /\ n - 1 \in Nat
    BY <2>1 DEF TypeOK
  <2> HIDE DEF new
  <2>4. /\ \A e \in Domains : e # d => pending'[e] = pending[e]
        /\ DOMAIN pending[d] = 1 .. n - 1 /\ DOMAIN pending'[d] = 1 .. n
        /\ pending'[d][n] = new /\ \A k \in 1 .. n - 1 : pending'[d][k] = pending[d][k]
    BY <2>1, <2>3 DEF TypeOK
  <2>5. ArrivedWereEnqueued'
    BY <2>1 DEF OrderInv, ArrivedWereEnqueued, TypeOK
  <2>6. /\ \A j, l : Before(j, l)' => Before(j, l) \/ l = i
        /\ \A j : ~ Before(i, j)
    <3>1. \A j : ~ Before(i, j)
      BY <2>1 DEF Before, OrderInv, ArrivedWereEnqueued
    <3> QED
      BY <2>1, <3>1, BeforeAppend
  <2> HIDE DEF d, n
  <2>7. FirstAttemptsAsEnqueued'
    <3> SUFFICES ASSUME NEW e \in Domains, NEW k \in DOMAIN pending'[e],
                        pending'[e][k].attempt = 0
                 PROVE  /\ pending'[e][k].next = 0
                        /\ pending'[e][k].priority = PriorityOf[pending'[e][k].id]
      BY DEF FirstAttemptsAsEnqueued
    <3>1. CASE e # d \/ k # n
      <4>1. k \in DOMAIN pending[e] /\ pending'[e][k] = pending[e][k]
        BY <2>3, <2>4, <3>1
      <4> QED
        BY <4>1 DEF OrderInv, FirstAttemptsAsEnqueued
    <3>2. CASE e = d /\ k = n
      BY <2>2, <2>4, <3>2
    <3> QED
      BY <3>1, <3>2
  <2>8. PassedByUrgentOnly'
    <3> SUFFICES ASSUME NEW e \in Domains, NEW k \in DOMAIN pending'[e], NEW j \in Ids,
                        pending'[e][k].attempt = 0, DomainOf[j] = e,
                        NEW m, m = pending'[e][k].id, Before(m, j)'
                 PROVE  PriorityOf[j] < PriorityOf[m] \/ WaitsBehind(e, k, j)'
      BY DEF PassedByUrgentOnly, Before
    <3>1. CASE e = d /\ k = n
      <4>1. m = i
        BY <2>2, <2>4, <3>1
      <4>2. j = i /\ Before(i, i)'
        BY <2>6, <4>1
      <4>3. FALSE
        <5>1. PICK x, y \in DOMAIN arrivals' : x < y /\ arrivals'[x] = i /\ arrivals'[y] = i
          BY <4>2 DEF Before
        <5>2. /\ Len(arrivals) \in Nat /\ DOMAIN arrivals = 1 .. Len(arrivals)
              /\ DOMAIN arrivals' = 1 .. Len(arrivals) + 1
              /\ \A z \in 1 .. Len(arrivals) : arrivals'[z] = arrivals[z]
          BY <2>1 DEF TypeOK
        <5>3. x \in DOMAIN arrivals /\ arrivals[x] = i
          BY <5>1, <5>2
        <5> QED
          BY <2>1, <5>3 DEF OrderInv, ArrivedWereEnqueued
      <4> QED
        BY <4>3
    <3>2. CASE e # d \/ k # n
      <4>1. k \in DOMAIN pending[e] /\ pending'[e][k] = pending[e][k]
        BY <2>3, <2>4, <3>2
      <4>2. CASE j = i
        <5>1. e = d /\ n \in DOMAIN pending'[e] /\ n > k
          BY <2>1, <2>3, <2>4, <3>2, <4>1, <4>2 DEF d
        <5> QED
          BY <2>2, <2>4, <4>2, <5>1 DEF WaitsBehind
      <4>3. CASE j # i
        <5>1. \/ PriorityOf[j] < PriorityOf[pending[e][k].id]
              \/ WaitsBehind(e, k, j)
          BY <2>6, <4>1, <4>3 DEF OrderInv, PassedByUrgentOnly
        <5>2. \A l \in DOMAIN pending[e] :
                l \in DOMAIN pending'[e] /\ pending'[e][l] = pending[e][l]
          <6>1. CASE e = d
            BY <2>3, <2>4, <6>1
          <6>2. CASE e # d
            BY <2>4, <6>2, Zenon
          <6> QED
            BY <6>1, <6>2
        <5>3. WaitsBehind(e, k, j) => WaitsBehind(e, k, j)'
          BY <5>2 DEF WaitsBehind
        <5> QED
          BY <4>1, <5>1, <5>3
      <4> QED
        BY <4>2, <4>3
    <3> QED
      BY <3>1, <3>2
  <2> QED
    BY <2>5, <2>7, <2>8 DEF OrderInv
<1>3. ASSUME NEW w \in Workers, NEW d \in Domains, StartDelivery(w, d) PROVE OrderInv'
  <2>1. PICK k0 \in DOMAIN pending[d] :
          IsBest(d, k0) /\ pending' = [pending EXCEPT ![d] = Without(@, k0)]
    BY <1>3 DEF StartDelivery
  <2>2. UNCHANGED <<arrivals, enqueuer>>
    BY <1>3 DEF StartDelivery
  <2> DEFINE q == pending[d]
             Old(e, k) == IF e = d /\ ~(k < k0) THEN k + 1 ELSE k
  <2>3. q \in Seq(QueuedMessages) /\ Len(q) \in Nat /\ k0 \in 1 .. Len(q) /\ DOMAIN q = 1 .. Len(q)
    BY <2>1 DEF TypeOK
  <2>4. pending'[d] = Without(q, k0) /\ \A e \in Domains : e # d => pending'[e] = pending[e]
    BY <2>1 DEF TypeOK
  <2>5. /\ DOMAIN pending'[d] = 1 .. Len(q) - 1
        /\ \A k \in 1 .. Len(q) - 1 : pending'[d][k] = IF k < k0 THEN q[k] ELSE q[k + 1]
    BY <2>3, <2>4 DEF Without
  <2>6. ASSUME NEW e \in Domains, NEW k \in DOMAIN pending'[e]
        PROVE  /\ Old(e, k) \in DOMAIN pending[e] /\ pending'[e][k] = pending[e][Old(e, k)]
               /\ e = d => Old(e, k) # k0
    <3>1. CASE e = d
      BY <2>3, <2>5, <2>6, <3>1
    <3>2. CASE e # d
      BY <2>4, <3>2
    <3> QED
      BY <3>1, <3>2
  <2>7. ASSUME NEW e \in Domains, NEW k \in DOMAIN pending'[e], NEW l \in DOMAIN pending[e],
               l > Old(e, k), ~(e = d /\ l = k0)
        PROVE  \E m \in DOMAIN pending'[e] : m > k /\ Old(e, m) = l
    <3>1. CASE e = d /\ l > k0
      <4>1. l - 1 \in DOMAIN pending'[e] /\ Old(e, l - 1) = l /\ l - 1 > k
        BY <2>3, <2>5, <2>7, <3>1
      <4> QED
        BY <4>1
    <3>2. CASE e = d /\ ~(l > k0)
      <4>1. l \in DOMAIN pending'[e] /\ Old(e, l) = l /\ l > k
        BY <2>3, <2>5, <2>7, <3>2
      <4> QED
        BY <4>1
    <3>3. CASE e # d
      BY <2>4, <2>7, <3>3
    <3> QED
      BY <3>1, <3>2, <3>3
  <2> HIDE DEF q, Old
  <2>8. ArrivedWereEnqueued'
    BY <2>2 DEF OrderInv, ArrivedWereEnqueued
  <2>9. FirstAttemptsAsEnqueued'
    BY <2>6 DEF OrderInv, FirstAttemptsAsEnqueued
  <2>10. PassedByUrgentOnly'
    <3> SUFFICES ASSUME NEW e \in Domains, NEW k \in DOMAIN pending'[e], NEW j \in Ids,
                        pending'[e][k].attempt = 0, DomainOf[j] = e,
                        NEW m, m = pending'[e][k].id, Before(m, j)'
                 PROVE  PriorityOf[j] < PriorityOf[m] \/ WaitsBehind(e, k, j)'
      BY DEF PassedByUrgentOnly, Before
    <3> DEFINE o == Old(e, k)
    <3>1. o \in DOMAIN pending[e] /\ pending'[e][k] = pending[e][o]
      BY <2>6
    <3>2. Before(pending[e][o].id, j)
      BY <2>2, <3>1, BeforeSame
    <3>3. CASE PriorityOf[j] < PriorityOf[pending[e][o].id]
      BY <3>1, <3>3
    <3>4. CASE WaitsBehind(e, o, j)
      <4>1. PICK l \in DOMAIN pending[e] :
              l > o /\ pending[e][l].id = j /\ pending[e][l].attempt = 0
        BY <3>4 DEF WaitsBehind
      <4>2. CASE e = d /\ l = k0
        <5>1. PriorityOf[j] < PriorityOf[pending[e][o].id]
          BY <2>1, <3>1, <4>1, <4>2, BestPassesUrgentOnly DEF OrderInv
        <5> QED
          BY <3>1, <5>1
      <4>3. CASE ~(e = d /\ l = k0)
        <5>1. PICK n \in DOMAIN pending'[e] : n > k /\ Old(e, n) = l
          BY <2>7, <4>1, <4>3
        <5>2. pending'[e][n] = pending[e][l]
          BY <2>6, <5>1
        <5> QED
          BY <4>1, <5>1, <5>2 DEF WaitsBehind
      <4> QED
        BY <4>2, <4>3
    <3> QED
      BY <3>1, <3>2, <3>3, <3>4 DEF OrderInv, PassedByUrgentOnly
  <2> QED
    BY <2>8, <2>9, <2>10 DEF OrderInv
<1>4. ASSUME NEW w \in Workers, OnFailure(w) PROVE OrderInv'
  <2> DEFINE d == worker[w].domain
             new == Queued(worker[w].id, 1, now, 1)
  <2>1. /\ d \in Domains /\ new \in QueuedMessages /\ UNCHANGED <<enqueuer, arrivals>>
        /\ pending' = pending \/ pending' = [pending EXCEPT ![d] = Append(@, new)]
    BY <1>4, FailureEffect
  <2>2. CASE pending' = pending
    BY <1>1, <2>1, <2>2
  <2>3. CASE pending' = [pending EXCEPT ![d] = Append(@, new)]
    <3>1. new.attempt = 1
      BY DEF Queued
    <3> HIDE DEF new, d
    <3>2. /\ pending[d] \in Seq(QueuedMessages) /\ Len(pending[d]) \in Nat
          /\ pending'[d] = Append(pending[d], new)
          /\ \A e \in Domains : e # d => pending'[e] = pending[e]
      BY <2>1, <2>3 DEF TypeOK
    <3>3. /\ \A k \in DOMAIN pending[d] : k \in DOMAIN pending'[d] /\ pending'[d][k] = pending[d][k]
          /\ \A k \in DOMAIN pending'[d] : k \notin DOMAIN pending[d] => pending'[d][k] = new
      BY <2>1, <3>2
    <3>4. ASSUME NEW e \in Domains, NEW k \in DOMAIN pending'[e], pending'[e][k].attempt = 0
          PROVE  k \in DOMAIN pending[e] /\ pending'[e][k] = pending[e][k]
      <4>1. CASE e = d
        BY <3>1, <3>3, <3>4, <4>1
      <4>2. CASE e # d
        BY <3>2, <4>2
      <4> QED
        BY <4>1, <4>2
    <3>5. ASSUME NEW e \in Domains, NEW k \in DOMAIN pending[e]
          PROVE  k \in DOMAIN pending'[e] /\ pending'[e][k] = pending[e][k]
      BY <3>2, <3>3
    <3>6. ArrivedWereEnqueued'
      BY <2>1 DEF OrderInv, ArrivedWereEnqueued
    <3>7. FirstAttemptsAsEnqueued'
      BY <3>4 DEF OrderInv, FirstAttemptsAsEnqueued
    <3>8. PassedByUrgentOnly'
      <4> SUFFICES ASSUME NEW e \in Domains, NEW k \in DOMAIN pending'[e], NEW j \in Ids,
                          pending'[e][k].attempt = 0, DomainOf[j] = e,
                          NEW m, m = pending'[e][k].id, Before(m, j)'
                   PROVE  PriorityOf[j] < PriorityOf[m] \/ WaitsBehind(e, k, j)'
        BY DEF PassedByUrgentOnly, Before
      <4>1. k \in DOMAIN pending[e] /\ pending'[e][k] = pending[e][k]
        BY <3>4
      <4>2. Before(pending[e][k].id, j)
        BY <2>1, <4>1, BeforeSame
      <4>3. \/ PriorityOf[j] < PriorityOf[pending[e][k].id]
            \/ WaitsBehind(e, k, j)
        BY <4>1, <4>2 DEF OrderInv, PassedByUrgentOnly
      <4>4. WaitsBehind(e, k, j) => WaitsBehind(e, k, j)'
        BY <3>5 DEF WaitsBehind
      <4> QED
        BY <4>1, <4>3, <4>4
    <3> QED
      BY <3>6, <3>7, <3>8 DEF OrderInv
  <2> QED
    BY <2>1, <2>2, <2>3
<1>5. ASSUME NEW i \in Ids, ReadEnvelope(i) \/ NotEnqueued(i) PROVE OrderInv'
  <2>1. /\ enqueuer[i] # "enqueued" /\ UNCHANGED <<pending, arrivals>>
        /\ \A j \in Ids : j # i => enqueuer'[j] = enqueuer[j]
    BY <1>5 DEF ReadEnvelope, NotEnqueued, TypeOK
  <2> QED
    BY <1>1, <2>1
<1> QED
  BY <1>1, <1>2, <1>3, <1>4, <1>5
  DEF Next, Enqueue, Work, RemoveFromSpool, OnSuccess, Tick, vars

\* The arrivals and the list stay in step in every state.
LEMMA OrderInvariant == Spec => []OrderInv
<1>1. Init => OrderInv
  BY DEF Init, OrderInv, ArrivedWereEnqueued, FirstAttemptsAsEnqueued, PassedByUrgentOnly
<1> QED
  BY <1>1, OrderStep, TypeCorrect, OnePlaceInvariant, PTL DEF Spec

\* Only next_for_delivery makes an idle worker busy.
LEMMA TakenByStart ==
  ASSUME TypeOK, [Next]_vars,
         NEW w \in Workers, worker[w] = Idle, worker'[w] # Idle
  PROVE  \E d \in Domains : StartDelivery(w, d)
<1>1. ASSUME NEW v \in Workers, \E value : worker' = [worker EXCEPT ![v] = value]
      PROVE  v = w
  BY <1>1 DEF TypeOK
<1>2. worker' # worker
  OBVIOUS
<1>3. PICK v \in Workers : Work(v)
  BY <1>2 DEF Next, Enqueue, ReadEnvelope, NotEnqueued, EnqueueToDomain, Tick, vars
<1>4. ASSUME RemoveFromSpool(v) \/ OnSuccess(v) \/ OnFailure(v) PROVE FALSE
  <2>1. v = w
    BY <1>1, <1>4 DEF RemoveFromSpool, OnSuccess, OnFailure
  <2> QED
    BY <1>4, <2>1 DEF RemoveFromSpool, OnSuccess, OnFailure, Idle
<1>5. PICK d \in Domains : StartDelivery(v, d)
  BY <1>3, <1>4 DEF Work
<1>6. v = w
  BY <1>1, <1>5 DEF StartDelivery
<1> QED
  BY <1>5, <1>6

\* In every behaviour a message that waits for its first attempt is passed by none that
\* came later, but for more urgent ones: neither retries nor their changed priority let
\* one past (next_for_delivery, on_delivery_failure).
THEOREM OrderCorrect == Spec => FirstAttemptsInOrder
<1> DEFINE Taking ==
      \A w \in Workers : worker[w] = Idle /\ worker'[w] # Idle =>
         LET taken == worker'[w].id
             d == worker'[w].domain
         IN \A k \in DOMAIN pending[d] :
              LET m == pending[d][k]
              IN m.attempt = 0 /\ m.next <= now /\ Before(m.id, taken) =>
                   PriorityOf[taken] < PriorityOf[m.id]
<1>1. TypeOK /\ OnePlaceInv /\ OrderInv /\ [Next]_vars => [Taking]_vars
  <2> SUFFICES ASSUME TypeOK, OnePlaceInv, OrderInv, [Next]_vars,
                      NEW w \in Workers, worker[w] = Idle, worker'[w] # Idle,
                      NEW k \in DOMAIN pending[worker'[w].domain],
                      pending[worker'[w].domain][k].attempt = 0,
                      Before(pending[worker'[w].domain][k].id, worker'[w].id)
               PROVE  PriorityOf[worker'[w].id]
                        < PriorityOf[pending[worker'[w].domain][k].id]
    BY DEF Taking
  <2>1. PICK d \in Domains : StartDelivery(w, d)
    BY TakenByStart
  <2>2. PICK b \in DOMAIN pending[d] :
          /\ IsBest(d, b)
          /\ worker' = [worker EXCEPT ![w] =
                          [pc |-> "delivering", id |-> pending[d][b].id, domain |-> d]]
    BY <2>1 DEF StartDelivery
  <2>3. worker'[w].id = pending[d][b].id /\ worker'[w].domain = d
    BY <2>2 DEF TypeOK
  <2> DEFINE i == pending[d][b].id
  <2>4. i \in Ids /\ Holds(pending[d], i)
    <3>1. pending[d] \in Seq(QueuedMessages) /\ pending[d][b] \in QueuedMessages
      BY <2>2 DEF TypeOK
    <3> QED
      BY <2>2, <3>1 DEF QueuedMessages, Holds
  <2>5. DomainOf[i] = d
    BY <2>4 DEF OnePlaceInv, ListedAreLive
  <2>6. k \in DOMAIN pending[d] /\ pending[d][k].attempt = 0 /\ Before(pending[d][k].id, i)
    BY <2>3
  <2>7. CASE PriorityOf[i] < PriorityOf[pending[d][k].id]
    BY <2>3, <2>7
  <2>8. CASE WaitsBehind(d, k, i)
    <3>1. PICK l \in DOMAIN pending[d] :
            l > k /\ pending[d][l].id = i /\ pending[d][l].attempt = 0
      BY <2>8 DEF WaitsBehind
    <3>2. l = b
      BY <2>2, <3>1 DEF OnePlaceInv, ListsDistinct, Once
    <3>3. PriorityOf[i] < PriorityOf[pending[d][k].id]
      BY <2>2, <2>6, <3>1, <3>2, BestPassesUrgentOnly DEF OrderInv
    <3> QED
      BY <2>3, <3>3
  <2> QED
    BY <2>4, <2>5, <2>6, <2>7, <2>8 DEF OrderInv, PassedByUrgentOnly
<1> QED
  BY <1>1, TypeCorrect, OnePlaceInvariant, OrderInvariant, PTL
  DEF Spec, FirstAttemptsInOrder, Taking

-----------------------------------------------------------------------------
(* The queue that is promised. *)

Statuses == [i \in Ids |-> Status(i)]

\* A message whose own state does not change does not change its status.
LEMMA SameStatus ==
  ASSUME NEW i, outcome'[i] = outcome[i],
         enqueuer'[i] = "enqueued" <=> enqueuer[i] = "enqueued",
         (\E w \in Workers : Delivers(w, i)') <=> (\E w \in Workers : Delivers(w, i))
  PROVE  Status(i)' = Status(i)
<1>1. CASE outcome[i] # "none"
  BY <1>1 DEF Status
<1>2. CASE outcome[i] = "none" /\ enqueuer[i] # "enqueued"
  BY <1>2 DEF Status
<1>3. CASE outcome[i] = "none" /\ enqueuer[i] = "enqueued" /\ \E w \in Workers : Delivers(w, i)
  BY <1>3 DEF Status
<1>4. CASE outcome[i] = "none" /\ enqueuer[i] = "enqueued" /\ ~ \E w \in Workers : Delivers(w, i)
  BY <1>4 DEF Status
<1> QED
  BY <1>1, <1>2, <1>3, <1>4

\* MailQueue counts as this module does.
LEMMA SameCardinality == \A S : Abstract!Cardinality(S) = Cardinality(S)
  BY DEF Abstract!Cardinality, Cardinality

\* When one message changes its status and the others keep theirs, the queue sees it move.
LEMMA StatusMove ==
  ASSUME NEW i \in Ids, NEW from, NEW to, Status(i) = from, Status(i)' = to,
         \A j \in Ids : j # i => Status(j)' = Status(j)
  PROVE  Abstract!Move(i, from, to)
<1>1. Statuses[i] = from
  BY DEF Statuses
<1>2. Statuses' = [Statuses EXCEPT ![i] = to]
  BY DEF Statuses
<1> QED
  BY <1>1, <1>2 DEF Abstract!Move, Statuses

\* A message that is being delivered occupies a worker that holds a slot, and no two the
\* same one: while a slot is free, fewer than Limit are under way.
LEMMA FreeSlot ==
  ASSUME TypeOK, OnePlaceInv, SlotsMatchDeliveries,
         NEW d \in Domains, inFlight[d] < Limit
  PROVE  Cardinality(Abstract!Busy(d)) < Limit
<1> DEFINE B == Abstract!Busy(d)
           f == [i \in B |-> CHOOSE w \in Workers : Delivers(w, i)]
<1>1. ASSUME NEW i \in B PROVE i \in Ids /\ f[i] \in Workers /\ Delivers(f[i], i)
  <2>1. i \in Ids /\ Status(i) = "delivering"
    BY DEF Abstract!Busy
  <2>2. outcome[i] \in {"none", "delivered", "dropped"}
    BY <2>1 DEF TypeOK
  <2>3. \E w \in Workers : Delivers(w, i)
    BY <2>1, <2>2 DEF Status
  <2> QED
    BY <2>1, <2>3
<1>2. ASSUME NEW i \in B PROVE f[i] \in Slots(d)
  <2>1. DomainOf[i] = d
    BY DEF Abstract!Busy
  <2> HIDE DEF f
  <2>2. worker[f[i]].domain = d
    BY <1>1, <2>1 DEF OnePlaceInv, TakenAreLive
  <2>3. worker[f[i]] # Idle
    BY <1>1 DEF Delivers, Idle
  <2> QED
    BY <1>1, <2>2, <2>3 DEF Slots
<1>3. f \in Injection(B, Slots(d))
  <2>1. f \in [B -> Slots(d)]
    BY <1>2
  <2>2. ASSUME NEW i \in B, NEW j \in B, f[i] = f[j] PROVE i = j
    <3> HIDE DEF f
    <3> QED
      BY <1>1, <2>2 DEF Delivers
  <2>3. DOMAIN f = B
    OBVIOUS
  <2> HIDE DEF f, B
  <2> QED
    BY <2>1, <2>2, <2>3 DEF Injection, IsInjective
<1> HIDE DEF f, B
<1>4. IsFiniteSet(B) /\ Cardinality(B) <= Cardinality(Slots(d))
  BY <1>3, SlotsFinite, FS_Injection
<1>5. Cardinality(B) \in Nat /\ Cardinality(Slots(d)) \in Nat
  BY <1>4, SlotsFinite, FS_CardinalityType
<1>6. Cardinality(Slots(d)) < Limit
  BY DEF SlotsMatchDeliveries
<1>7. Cardinality(B) < Limit
  BY <1>4, <1>5, <1>6, QueueAssumption
<1> QED
  BY <1>7 DEF B

\* Enqueueing accepts a message, next_for_delivery starts it while a slot is free, and the
\* reports settle it or send it back; the rest of every call is invisible.
LEMMA MailQueueStep ==
  ASSUME TypeOK, OnePlaceInv, SlotsMatchDeliveries, [Next]_vars
  PROVE  Abstract!MailQueueNext \/ Statuses' = Statuses
<1>1. ASSUME \A i \in Ids : Status(i)' = Status(i) PROVE Statuses' = Statuses
  BY <1>1 DEF Statuses
<1>2. ASSUME UNCHANGED <<outcome, enqueuer>>,
             \A w \in Workers : \A i : Delivers(w, i)' <=> Delivers(w, i)
      PROVE  Statuses' = Statuses
  BY <1>1, <1>2, SameStatus
<1>3. ASSUME NEW i \in Ids, ReadEnvelope(i) \/ NotEnqueued(i) PROVE Statuses' = Statuses
  <2>1. /\ UNCHANGED <<outcome, worker>>
        /\ \A j \in Ids : enqueuer'[j] = "enqueued" <=> enqueuer[j] = "enqueued"
    BY <1>3 DEF ReadEnvelope, NotEnqueued, TypeOK
  <2>2. \A w \in Workers : \A j : Delivers(w, j)' <=> Delivers(w, j)
    BY <2>1 DEF Delivers
  <2> QED
    BY <1>1, <2>1, <2>2, SameStatus
<1>4. ASSUME NEW i \in Ids, EnqueueToDomain(i) PROVE Abstract!MailQueueNext
  <2>1. /\ enqueuer[i] = "read" /\ enqueuer' = [enqueuer EXCEPT ![i] = "enqueued"]
        /\ UNCHANGED <<outcome, worker>>
    BY <1>4 DEF EnqueueToDomain
  <2>2. \A w \in Workers : \A j : Delivers(w, j)' <=> Delivers(w, j)
    BY <2>1 DEF Delivers
  <2>3. outcome[i] = "none" /\ \A w \in Workers : ~ Delivers(w, i)
    BY <2>1 DEF OnePlaceInv, SettledWereEnqueued, TakenAreLive, Live
  <2>4. Status(i) = "new"
    BY <2>1, <2>3 DEF Status
  <2>5. Status(i)' = "waiting"
    BY <2>1, <2>2, <2>3 DEF Status, TypeOK
  <2>6. \A j \in Ids : j # i => Status(j)' = Status(j)
    BY <2>1, <2>2, SameStatus DEF TypeOK
  <2>7. Abstract!Accept(i)
    BY <2>4, <2>5, <2>6, StatusMove DEF Abstract!Accept
  <2> QED
    BY <2>7 DEF Abstract!MailQueueNext
<1>5. ASSUME NEW w \in Workers, NEW d \in Domains, StartDelivery(w, d)
      PROVE  Abstract!MailQueueNext
  <2>1. PICK k \in DOMAIN pending[d] :
          worker' = [worker EXCEPT ![w] =
                       [pc |-> "delivering", id |-> pending[d][k].id, domain |-> d]]
    BY <1>5 DEF StartDelivery
  <2>2. /\ worker[w] = Idle /\ inFlight[d] < Limit /\ UNCHANGED <<enqueuer, outcome>>
    BY <1>5 DEF StartDelivery, CanSendNow
  <2>3. PICK i \in Ids : i = pending[d][k].id /\ Holds(pending[d], i)
    <3>1. pending[d] \in Seq(QueuedMessages) /\ pending[d][k] \in QueuedMessages
      BY <2>1 DEF TypeOK
    <3> QED
      BY <2>1, <3>1 DEF QueuedMessages, Holds
  <2>4. /\ \A v \in Workers : v # w => worker'[v] = worker[v]
        /\ worker'[w].pc = "delivering" /\ worker'[w].id = i
    BY <2>1, <2>3 DEF TypeOK
  <2>5. Live(i) /\ DomainOf[i] = d /\ \A v \in Workers : ~ Delivers(v, i)
    BY <2>3 DEF OnePlaceInv, ListedAreLive
  <2>6. /\ Delivers(w, i)'
        /\ \A v \in Workers : \A j : j # i => (Delivers(v, j)' <=> Delivers(v, j))
    BY <2>2, <2>4 DEF Delivers, Idle
  <2>7. Status(i) = "waiting"
    BY <2>5 DEF Status, Live
  <2>8. Status(i)' = "delivering"
    BY <2>2, <2>5, <2>6 DEF Status, Live
  <2>9. \A j \in Ids : j # i => Status(j)' = Status(j)
    BY <2>2, <2>6, SameStatus
  <2>10. Abstract!Start(i)
    <3>1. d = DomainOf[i] /\ Cardinality(Abstract!Busy(d)) < Limit
      BY <2>2, <2>5, FreeSlot
    <3>2. Cardinality(Abstract!Busy(DomainOf[i])) < Limit
      BY <3>1
    <3>3. Abstract!Move(i, "waiting", "delivering")
      BY <2>3, <2>7, <2>8, <2>9, StatusMove
    <3> QED
      BY <3>2, <3>3, SameCardinality DEF Abstract!Start
  <2> QED
    BY <2>3, <2>10 DEF Abstract!MailQueueNext
<1>6. ASSUME NEW w \in Workers, NEW i \in Ids, Delivers(w, i),
             \A v \in Workers : v # w => worker'[v] = worker[v],
             \A j : ~ Delivers(w, j)', UNCHANGED enqueuer
      PROVE  /\ Status(i) = "delivering" /\ Live(i)
             /\ \A v \in Workers : ~ Delivers(v, i)'
             /\ (\A j \in Ids : j # i => outcome'[j] = outcome[j])
                => \A j \in Ids : j # i => Status(j)' = Status(j)
  <2>1. Live(i) /\ \A v \in Workers : Delivers(v, i) => v = w
    BY <1>6 DEF OnePlaceInv, TakenAreLive, OneDeliverer
  <2>2. Status(i) = "delivering"
    BY <1>6, <2>1 DEF Status, Live
  <2>3. \A v \in Workers : \A j : j # i => (Delivers(v, j)' <=> Delivers(v, j))
    BY <1>6 DEF Delivers
  <2>4. \A v \in Workers : ~ Delivers(v, i)'
    BY <1>6, <2>1 DEF Delivers
  <2> QED
    BY <1>6, <2>1, <2>2, <2>3, <2>4, SameStatus
<1>7. ASSUME NEW w \in Workers, RemoveFromSpool(w) PROVE Abstract!MailQueueNext
  <2>1. PICK i \in Ids :
          /\ worker[w] \in Busy /\ Delivers(w, i)
          /\ outcome' = [outcome EXCEPT ![i] = "delivered"] /\ UNCHANGED enqueuer
    BY <1>7, BusyType DEF RemoveFromSpool, Delivers
  <2>2. worker' = [worker EXCEPT ![w] = [worker[w] EXCEPT !.pc = "releasing"]]
    BY <1>7 DEF RemoveFromSpool, TypeOK
  <2>3. worker'[w].pc = "releasing" /\ \A v \in Workers : v # w => worker'[v] = worker[v]
    BY <2>1, <2>2 DEF TypeOK, Busy
  <2>4. \A j : ~ Delivers(w, j)'
    BY <2>3 DEF Delivers
  <2>5. outcome'[i] = "delivered" /\ \A j \in Ids : j # i => outcome'[j] = outcome[j]
    BY <2>1 DEF TypeOK
  <2>6. /\ Status(i) = "delivering" /\ Live(i) /\ \A v \in Workers : ~ Delivers(v, i)'
        /\ \A j \in Ids : j # i => Status(j)' = Status(j)
    BY <1>6, <2>1, <2>3, <2>4, <2>5
  <2>7. Status(i)' = "delivered"
    BY <2>1, <2>5, <2>6 DEF Status, Live
  <2>8. Abstract!Deliver(i)
    BY <2>1, <2>6, <2>7, StatusMove DEF Abstract!Deliver
  <2> QED
    BY <2>1, <2>8 DEF Abstract!MailQueueNext
<1>8. ASSUME NEW w \in Workers, OnFailure(w) PROVE Abstract!MailQueueNext
  <2>1. PICK i \in Ids :
          /\ Delivers(w, i) /\ worker' = [worker EXCEPT ![w] = Idle] /\ UNCHANGED enqueuer
          /\ outcome' = [outcome EXCEPT ![i] = "dropped"] \/ outcome' = outcome
    BY <1>8, FailureEffect
  <2>2. worker'[w] = Idle /\ \A v \in Workers : v # w => worker'[v] = worker[v]
    BY <2>1 DEF TypeOK
  <2>3. \A j : ~ Delivers(w, j)'
    BY <2>2 DEF Delivers, Idle
  <2>4. /\ outcome'[i] \in {"dropped", outcome[i]}
        /\ \A j \in Ids : j # i => outcome'[j] = outcome[j]
    BY <2>1 DEF TypeOK
  <2>5. /\ Status(i) = "delivering" /\ Live(i) /\ \A v \in Workers : ~ Delivers(v, i)'
        /\ \A j \in Ids : j # i => Status(j)' = Status(j)
    BY <1>6, <2>1, <2>2, <2>3, <2>4
  <2>6. CASE outcome'[i] = "dropped"
    <3>1. Status(i)' = "dropped"
      BY <2>1, <2>5, <2>6 DEF Status, Live
    <3>2. Abstract!GiveUp(i)
      BY <2>1, <2>5, <3>1, StatusMove DEF Abstract!GiveUp
    <3> QED
      BY <2>1, <3>2 DEF Abstract!MailQueueNext
  <2>7. CASE outcome'[i] = outcome[i]
    <3>1. Status(i)' = "waiting"
      BY <2>1, <2>5, <2>7 DEF Status, Live
    <3>2. Abstract!Retry(i)
      BY <2>1, <2>5, <3>1, StatusMove DEF Abstract!Retry
    <3> QED
      BY <2>1, <3>2 DEF Abstract!MailQueueNext
  <2> QED
    BY <2>4, <2>6, <2>7
<1>9. ASSUME NEW w \in Workers, OnSuccess(w) PROVE Statuses' = Statuses
  <2>1. /\ worker[w].pc = "releasing" /\ worker' = [worker EXCEPT ![w] = Idle]
        /\ UNCHANGED <<outcome, enqueuer>>
    BY <1>9 DEF OnSuccess
  <2>2. worker'[w] = Idle /\ \A v \in Workers : v # w => worker'[v] = worker[v]
    BY <2>1 DEF TypeOK
  <2>3. \A v \in Workers : \A j : Delivers(v, j)' <=> Delivers(v, j)
    BY <2>1, <2>2 DEF Delivers, Idle
  <2> QED
    BY <1>2, <2>1, <2>3
<1>10. CASE Tick \/ UNCHANGED vars
  BY <1>2, <1>10 DEF Tick, vars, Delivers
<1> QED
  BY <1>3, <1>4, <1>5, <1>7, <1>8, <1>9, <1>10 DEF Next, Enqueue, Work

\* The queue manager implements MailQueue: for those who only see deliveries, messages
\* wait, are delivered one deliverer at a time within the limit of their destination,
\* and are settled once.
THEOREM Refinement == Spec => ImplementsMailQueue
<1>1. Init => Abstract!MailQueueInit
  <2> SUFFICES ASSUME Init PROVE Abstract!MailQueueInit
    OBVIOUS
  <2>1. ASSUME NEW i \in Ids PROVE Status(i) = "new"
    <3>1. /\ outcome[i] = "none" /\ enqueuer[i] = "stored"
          /\ \A w \in Workers : ~ Delivers(w, i)
      BY DEF Init, Delivers, Idle
    <3> QED
      BY <3>1 DEF Status
  <2> QED
    BY <2>1 DEF Abstract!MailQueueInit
<1>2. TypeOK /\ OnePlaceInv /\ SlotsMatchDeliveries /\ [Next]_vars
      => [Abstract!MailQueueNext]_Statuses
  BY MailQueueStep
<1> QED
  BY <1>1, <1>2, TypeCorrect, OnePlaceInvariant, SlotsCorrect, PTL
  DEF Spec, ImplementsMailQueue, Abstract!MailQueueSpec, Statuses

=============================================================================
