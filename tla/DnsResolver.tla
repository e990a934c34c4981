---------------------------- MODULE DnsResolver ----------------------------
(***************************************************************************)
(* RealResolver (src/dns/resolver.rs) over the cache it shares between its *)
(* callers (src/dns/cache.rs).  resolve_mx, resolve_a and resolve_aaaa are *)
(* the same steps on keys of three kinds: the positive entry of the cache, *)
(* its negative entry (each under the read lock, which is given up between *)
(* them), the query to the network, and the insertion of its answer under  *)
(* the write lock.  The callers interleave at each of these awaits.        *)
(*                                                                         *)
(* Time passes in ticks.  An entry holds the ticks that are left until it  *)
(* expires instead of the instant, so that time needs no bound.            *)
(*                                                                         *)
(* The DNS is external: the zone may change at any time, the answer to a   *)
(* query is what the zone says when it is answered, with any TTL, and a    *)
(* query may fail in any way hickory-resolver reports.                     *)
(***************************************************************************)
EXTENDS Naturals

CONSTANTS
  Keys,         \* pairs of a name and a type of query: the CacheKeys
  Records,      \* what a key may have in the zone
  Workers,      \* concurrent callers of the resolver
  Ttls,         \* the TTLs of answers
  MaxTtl,       \* max_ttl of CacheConfig
  NegativeTtl   \* negative_ttl of CacheConfig

ASSUME ResolverAssumption ==
  /\ Ttls \subseteq Nat /\ MaxTtl \in Nat /\ NegativeTtl \in Nat
  /\ Keys # {} /\ "none" \notin Records

VARIABLES
  zone,   \* the records of each key, "none" when it has none
  store,  \* the cache: the last entry inserted for each key
  caller  \* where each caller is: its step, its key, the answer it got

vars == <<zone, store, caller>>

Zone == Records \cup {"none"}
Steps == {"idle", "positive", "negative", "network", "insert", "done"}
Longest == IF MaxTtl > NegativeTtl THEN MaxTtl ELSE NegativeTtl

(***************************************************************************)
(* An entry has a value, "none" in a negative one, and the ticks left.  Of *)
(* the answer it was made of it keeps, for the properties only, the ticks  *)
(* since then, counted until they no longer matter, and its lifetime: at   *)
(* most the limit of its kind.                                             *)
(***************************************************************************)
Entry(value, ttl) == [value |-> value, left |-> ttl, age |-> 0, life |-> ttl]
EntriesUpTo(limit, values) ==
  [value : values, left : 0..limit, age : 0..Longest, life : 0..limit]
Entries == EntriesUpTo(MaxTtl, Records) \cup EntriesUpTo(NegativeTtl, {"none"})

\* The cache's slot of a key that was never inserted is like one that has expired.
NoEntry == [Entry("none", 0) EXCEPT !.age = Longest]

\* What a caller returns: records, or the class of its error.  A NODATA from the cache or the
\* network is permanent; "temporary" are the other errors.
Results == Records \cup {"none", "temporary"}

\* Variant: max_ttl is forgotten.
EffectiveTtlUncapped(ttl) == ttl

\* min of the TTL of the DNS and max_ttl.
EffectiveTtl(ttl) == IF ttl < MaxTtl THEN ttl ELSE MaxTtl

\* map_hickory_err followed by failure_mode, on the kinds of ResolveErrorKind.
Mapped(kind) ==
  CASE kind = "NoRecordsFound"                 -> "NoData"
    [] kind \in {"NoConnections", "Timeout"}   -> "Timeout"
    [] kind = "Proto"                          -> "Malformed"
    [] kind = "Message"                        -> "ServFail"
    [] OTHER                                   -> "Other"
IsPermanent(error) == error \in {"NxDomain", "NoData", "CnameLoop"}

\* Kinds of failures of the network, as hickory-resolver reports them.
Failures == {"NoConnections", "Timeout", "Proto", "Message", "Io", "Other"}

IsExpired(entry) == entry.left = 0

Init ==
  /\ zone \in [Keys -> Zone]
  /\ store = [k \in Keys |-> NoEntry]
  /\ caller = [w \in Workers |-> [step |-> "idle", key |-> CHOOSE k \in Keys : TRUE,
                                  entry |-> NoEntry, result |-> "none"]]

-----------------------------------------------------------------------------
(* One call of resolve_mx, resolve_a or resolve_aaaa. *)

\* The caller's record after it moved to `step'.
To(w, step) == [caller[w] EXCEPT !.step = step]
Done(w, result) == [caller[w] EXCEPT !.step = "done", !.result = result, !.entry = NoEntry]

Call(w, k) ==
  /\ caller[w].step = "idle"
  /\ caller' = [caller EXCEPT ![w] = [To(w, "positive") EXCEPT !.key = k]]
  /\ UNCHANGED <<zone, store>>

\* get_mx, get_a, get_aaaa: a negative marker is not of the type they look for.
GetPositive(w) ==
  LET entry == store[caller[w].key] IN
  /\ caller[w].step = "positive"
  /\ caller' = [caller EXCEPT ![w] =
       IF entry.value # "none" /\ ~ IsExpired(entry) THEN Done(w, entry.value)
       ELSE To(w, "negative")]
  /\ UNCHANGED <<zone, store>>

GetNegative(w) ==
  LET entry == store[caller[w].key] IN
  /\ caller[w].step = "negative"
  /\ caller' = [caller EXCEPT ![w] =
       IF entry.value = "none" /\ ~ IsExpired(entry) THEN Done(w, "none")
       ELSE To(w, "network")]
  /\ UNCHANGED <<zone, store>>

\* The network answers: the entry is made, with its expiry, before the lock is awaited.
Answered(w) ==
  /\ caller[w].step = "network"
  /\ \E ttl \in Ttls :
       caller' = [caller EXCEPT ![w] = [To(w, "insert") EXCEPT !.entry =
         LET records == zone[caller[w].key] IN
         Entry(records, IF records = "none" THEN NegativeTtl ELSE EffectiveTtl(ttl))]]
  /\ UNCHANGED <<zone, store>>

\* Variant: every failure is cached as a negative.
FailedAndCached(w) ==
  /\ caller[w].step = "network"
  /\ caller' = [caller EXCEPT ![w] =
       [To(w, "insert") EXCEPT !.entry = Entry("none", NegativeTtl)]]
  /\ UNCHANGED <<zone, store>>

\* The query fails: only a permanent error is inserted.
Failed(w) ==
  /\ caller[w].step = "network"
  /\ \E kind \in Failures :
       caller' = [caller EXCEPT ![w] =
         IF IsPermanent(Mapped(kind))
         THEN [To(w, "insert") EXCEPT !.entry = Entry("none", NegativeTtl)]
         ELSE Done(w, "temporary")]
  /\ UNCHANGED <<zone, store>>

\* Variant: the entry's time starts when the lock is granted.
InsertLate(w) ==
  /\ caller[w].step = "insert"
  /\ store' = [store EXCEPT ![caller[w].key] = [caller[w].entry EXCEPT !.left = caller[w].entry.life]]
  /\ caller' = [caller EXCEPT ![w] = Done(w, caller[w].entry.value)]
  /\ UNCHANGED zone

\* insert_mx, insert_a, insert_aaaa, insert_negative: whatever the key has now is replaced.
Insert(w) ==
  /\ caller[w].step = "insert"
  /\ store' = [store EXCEPT ![caller[w].key] = caller[w].entry]
  /\ caller' = [caller EXCEPT ![w] = Done(w, caller[w].entry.value)]
  /\ UNCHANGED zone

\* The caller has its result and may call again.
Return(w) ==
  /\ caller[w].step = "done"
  /\ caller' = [caller EXCEPT ![w] = [To(w, "idle") EXCEPT !.result = "none"]]
  /\ UNCHANGED <<zone, store>>

Clear ==
  /\ store' = [k \in Keys |-> NoEntry]
  /\ UNCHANGED <<zone, caller>>

Resolve(w) ==
  \/ GetPositive(w) \/ GetNegative(w) \/ Answered(w) \/ Failed(w) \/ Insert(w) \/ Return(w)

-----------------------------------------------------------------------------
(* The world. *)

ChangeZone ==
  /\ \E k \in Keys : \E records \in Zone \ {zone[k]} : zone' = [zone EXCEPT ![k] = records]
  /\ UNCHANGED <<store, caller>>

\* A tick of the clock, for the entries in the cache and those still to be inserted.
Older(entry) ==
  [entry EXCEPT !.left = IF @ = 0 THEN 0 ELSE @ - 1, !.age = IF @ = Longest THEN @ ELSE @ + 1]

Tick ==
  /\ store' = [k \in Keys |-> Older(store[k])]
  /\ caller' = [w \in Workers |-> [caller[w] EXCEPT !.entry = Older(@)]]
  /\ UNCHANGED zone

Next ==
  \/ \E w \in Workers : Resolve(w) \/ \E k \in Keys : Call(w, k)
  \/ Clear \/ ChangeZone \/ Tick

\* The clock runs, the tasks are scheduled and hickory-resolver gives up on a query in the end.
\* Nobody has to call, to clear the cache or to change the zone.
Spec ==
  Init /\ [][Next]_vars /\ WF_vars(Tick) /\ \A w \in Workers : WF_vars(Resolve(w))

-----------------------------------------------------------------------------
(* Properties. *)

\* Types; of a positive entry neither the time left nor the lifetime is beyond max_ttl, of a
\* negative one neither is beyond negative_ttl (cache.rs:81-94, 155-167).
CacheTypeOK ==
  /\ zone \in [Keys -> Zone]
  /\ store \in [Keys -> Entries]
  /\ caller \in [Workers -> [step : Steps, key : Keys, entry : Entries, result : Results]]

\* What the cache serves is an answer the DNS gave for this key less than its lifetime ago: its
\* TTL up to max_ttl, or negative_ttl (cache.rs:82-107, 155-187), however long its insertion had to
\* wait for the lock; and a temporary failure is never served from the cache.
ServedWithinTtl ==
  [][\A w \in Workers :
       caller[w].step \in {"positive", "negative"} /\ caller'[w].step = "done" =>
         LET entry == store[caller[w].key] IN
         entry.age < entry.life /\ caller'[w].result = entry.value]_vars

\* When the zone stops changing, the cache comes to agree with it for good: no late insertion of
\* an old answer and no negative entry outlives its time (cache.rs:28-31, 155-167).
ChangesAreSeen ==
  <>[][FALSE]_zone => <>[](\A k \in Keys : IsExpired(store[k]) \/ store[k].value = zone[k])

=============================================================================
