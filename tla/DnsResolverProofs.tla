-------------------------- MODULE DnsResolverProofs --------------------------
(***************************************************************************)
(* The cache serves nothing beyond its lifetime, for any number of         *)
(* callers, keys, records and TTLs.  The invariant behind it: as long as   *)
(* an entry has time left, in the cache or in the hands of a caller that   *)
(* waits for the write lock, its age and the time left add up to its       *)
(* lifetime, which is at most the limit of its kind.                       *)
(***************************************************************************)
EXTENDS DnsResolver, TLAPS

Timed(entry) == entry.left = 0 \/ entry.left + entry.age = entry.life

Inv ==
  /\ CacheTypeOK
  /\ \A k \in Keys : Timed(store[k])
  /\ \A w \in Workers : Timed(caller[w].entry)

\* A good record of a caller.
Callers == [step : Steps, key : Keys, entry : Entries, result : Results]
Good(c) == c \in Callers /\ Timed(c.entry)

-----------------------------------------------------------------------------
(* Entries. *)

\* The limit of an entry's kind.
LimitOf(value) == IF value = "none" THEN NegativeTtl ELSE MaxTtl

LEMMA LongestType ==
  /\ Longest \in Nat /\ MaxTtl \in 0..Longest /\ NegativeTtl \in 0..Longest
  /\ \A ttl \in Ttls : EffectiveTtl(ttl) \in 0..MaxTtl
  BY ResolverAssumption DEF Longest, EffectiveTtl

LEMMA LimitType ==
  ASSUME NEW value
  PROVE  LimitOf(value) \in Nat /\ LimitOf(value) <= Longest
  BY LongestType, ResolverAssumption DEF LimitOf

\* An entry is one that has no more than the limit of its kind.
LEMMA EntriesAre ==
  ASSUME NEW value, NEW left, NEW age, NEW life
  PROVE  [value |-> value, left |-> left, age |-> age, life |-> life] \in Entries
         <=> /\ value \in Zone /\ age \in 0..Longest
             /\ left \in 0..LimitOf(value) /\ life \in 0..LimitOf(value)
  BY ResolverAssumption DEF Entries, EntriesUpTo, Zone, LimitOf

LEMMA EntryParts ==
  ASSUME NEW entry \in Entries
  PROVE  /\ entry = [value |-> entry.value, left |-> entry.left, age |-> entry.age, life |-> entry.life]
         /\ entry.value \in Zone /\ entry.age \in 0..Longest
         /\ entry.left \in 0..LimitOf(entry.value) /\ entry.life \in 0..LimitOf(entry.value)
<1>1. entry = [value |-> entry.value, left |-> entry.left, age |-> entry.age, life |-> entry.life]
  BY DEF Entries, EntriesUpTo
<1> QED
  BY <1>1, ResolverAssumption DEF Entries, EntriesUpTo, Zone, LimitOf

\* An entry is made with its whole life before it.
LEMMA EntryGood ==
  ASSUME NEW value \in Zone, NEW ttl \in 0..LimitOf(value)
  PROVE  Entry(value, ttl) \in Entries /\ Timed(Entry(value, ttl))
<1>1. ttl \in Nat /\ 0 \in 0..Longest
  BY LimitType, LongestType
<1>2. Entry(value, ttl) \in Entries
  BY <1>1, EntriesAre DEF Entry
<1> QED
  BY <1>1, <1>2 DEF Entry, Timed

LEMMA NoEntryGood == NoEntry \in Entries /\ Timed(NoEntry)
<1>1. NoEntry = [value |-> "none", left |-> 0, age |-> Longest, life |-> 0]
  BY DEF NoEntry, Entry
<1>2. 0 \in 0..LimitOf("none") /\ Longest \in 0..Longest /\ "none" \in Zone
  BY LimitType, LongestType DEF Zone
<1> QED
  BY <1>1, <1>2, EntriesAre DEF Timed

\* A tick moves one unit from what is left to the age.
LEMMA OlderGood ==
  ASSUME NEW entry \in Entries, Timed(entry)
  PROVE  Older(entry) \in Entries /\ Timed(Older(entry))
<1> DEFINE left == IF entry.left = 0 THEN 0 ELSE entry.left - 1
           age  == IF entry.age = Longest THEN entry.age ELSE entry.age + 1
<1> DEFINE limit == LimitOf(entry.value)
<1>1. Longest \in Nat /\ limit \in 0..Longest /\ entry.left \in 0..limit /\ entry.age \in 0..Longest
      /\ entry.life \in 0..limit /\ entry.value \in Zone
  BY LongestType, LimitType, EntryParts
<1> HIDE DEF limit
<1>2. left \in 0..limit /\ age \in 0..Longest
  BY <1>1
<1>3. left = 0 \/ left + age = entry.life
  BY <1>1 DEF Timed
<1>4. Older(entry) = [value |-> entry.value, left |-> left, age |-> age, life |-> entry.life]
  <2>1. entry = [value |-> entry.value, left |-> entry.left, age |-> entry.age, life |-> entry.life]
    BY EntryParts
  <2>2. Older(entry) = [entry EXCEPT !.left = left, !.age = age]
    BY DEF Older
  <2> QED
    BY <2>1, <2>2
<1> HIDE DEF left, age
<1>5. Older(entry) \in Entries
  BY <1>1, <1>2, <1>4, EntriesAre DEF limit
<1> QED
  BY <1>3, <1>4, <1>5 DEF Timed

LEMMA ServedIsYoung ==
  ASSUME NEW entry \in Entries, Timed(entry), ~ IsExpired(entry)
  PROVE  entry.age < entry.life
<1>1. entry.age \in Nat /\ entry.left \in Nat /\ entry.life \in Nat
  BY EntryParts, LimitType, LongestType
<1> QED
  BY <1>1 DEF Timed, IsExpired

-----------------------------------------------------------------------------
(* Callers. *)

LEMMA ToGood ==
  ASSUME Inv, NEW w \in Workers, NEW step \in Steps
  PROVE  Good(To(w, step))
  BY DEF Inv, CacheTypeOK, Good, Callers, To

LEMMA DoneGood ==
  ASSUME Inv, NEW w \in Workers, NEW result \in Results
  PROVE  Good(Done(w, result))
  BY NoEntryGood DEF Inv, CacheTypeOK, Good, Callers, Done, Steps

\* The invariant, when one caller moves on and the cache stays.
LEMMA CallerStep ==
  ASSUME Inv, NEW w \in Workers, NEW c, Good(c),
         caller' = [caller EXCEPT ![w] = c], UNCHANGED <<zone, store>>
  PROVE  Inv'
  BY DEF Inv, CacheTypeOK, Good, Callers

-----------------------------------------------------------------------------

LEMMA InitInv == Init => Inv
<1> SUFFICES ASSUME Init PROVE Inv
  OBVIOUS
<1>1. (CHOOSE k \in Keys : TRUE) \in Keys
  BY ResolverAssumption
<1> QED
  BY <1>1, NoEntryGood DEF Init, Inv, CacheTypeOK, Steps, Results

LEMMA InvStep == Inv /\ [Next]_vars => Inv'
<1> SUFFICES ASSUME Inv, [Next]_vars PROVE Inv'
  OBVIOUS
<1>0. CacheTypeOK
  BY DEF Inv
<1>1. ASSUME NEW w \in Workers, NEW k \in Keys, Call(w, k) PROVE Inv'
  <2>1. Good([To(w, "positive") EXCEPT !.key = k])
    BY ToGood DEF Good, Callers, Steps
  <2> QED
    BY <1>1, <2>1, CallerStep DEF Call
<1>2. ASSUME NEW w \in Workers, GetPositive(w) PROVE Inv'
  <2>0. store[caller[w].key] \in Entries
    BY <1>0 DEF CacheTypeOK
  <2>1. store[caller[w].key].value \in Results /\ "negative" \in Steps
    BY <2>0, EntryParts DEF Zone, Results, Steps
  <2>2. Good(Done(w, store[caller[w].key].value)) /\ Good(To(w, "negative"))
    BY <2>1, DoneGood, ToGood
  <2> QED
    BY <1>2, <2>2, CallerStep DEF GetPositive
<1>3. ASSUME NEW w \in Workers, GetNegative(w) PROVE Inv'
  <2>1. "none" \in Results /\ "network" \in Steps
    BY DEF Results, Steps
  <2>2. Good(Done(w, "none")) /\ Good(To(w, "network"))
    BY <2>1, DoneGood, ToGood
  <2> QED
    BY <1>3, <2>2, CallerStep DEF GetNegative
<1>4. ASSUME NEW w \in Workers, NEW entry \in Entries, Timed(entry)
      PROVE  Good([To(w, "insert") EXCEPT !.entry = entry])
  BY <1>4, ToGood DEF Good, Callers, Steps
<1>5. ASSUME NEW w \in Workers, Answered(w) PROVE Inv'
  <2> DEFINE records == zone[caller[w].key]
  <2>1. records \in Zone
    BY <1>0 DEF CacheTypeOK
  <2>2. PICK ttl \in Ttls : caller' = [caller EXCEPT ![w] = [To(w, "insert") EXCEPT !.entry =
           Entry(records, IF records = "none" THEN NegativeTtl ELSE EffectiveTtl(ttl))]]
    BY <1>5 DEF Answered
  <2>3. (IF records = "none" THEN NegativeTtl ELSE EffectiveTtl(ttl)) \in 0..LimitOf(records)
    BY LongestType, ResolverAssumption DEF LimitOf
  <2> HIDE DEF records
  <2>4. Good([To(w, "insert") EXCEPT !.entry =
           Entry(records, IF records = "none" THEN NegativeTtl ELSE EffectiveTtl(ttl))])
    BY <1>4, <2>1, <2>3, EntryGood
  <2> QED
    BY <1>5, <2>2, <2>4, CallerStep DEF Answered
<1>6. ASSUME NEW w \in Workers, Failed(w) PROVE Inv'
  <2>1. Good(Done(w, "temporary"))
    BY DoneGood DEF Results
  <2>2. Good([To(w, "insert") EXCEPT !.entry = Entry("none", NegativeTtl)])
    BY <1>4, ResolverAssumption, EntryGood DEF Zone, LimitOf
  <2> QED
    BY <1>6, <2>1, <2>2, CallerStep DEF Failed
<1>7. ASSUME NEW w \in Workers, Insert(w) PROVE Inv'
  <2>0. caller[w].entry \in Entries
    BY <1>0 DEF CacheTypeOK
  <2>1. caller[w].entry.value \in Results
    BY <2>0, EntryParts DEF Zone, Results
  <2>2. Good(Done(w, caller[w].entry.value))
    BY <2>1, DoneGood
  <2> QED
    BY <1>7, <2>2 DEF Insert, Inv, CacheTypeOK, Good, Callers
<1>8. ASSUME NEW w \in Workers, Return(w) PROVE Inv'
  <2>1. Good([To(w, "idle") EXCEPT !.result = "none"])
    BY ToGood DEF Good, Callers, Steps, Results
  <2> QED
    BY <1>8, <2>1, CallerStep DEF Return
<1>9. CASE Clear
  BY <1>9, NoEntryGood DEF Clear, Inv, CacheTypeOK
<1>10. CASE ChangeZone
  BY <1>10 DEF ChangeZone, Inv, CacheTypeOK
<1>11. CASE Tick
  <2>1. \A k \in Keys : store[k] \in Entries /\ Timed(store[k])
    BY DEF Inv, CacheTypeOK
  <2>2. ASSUME NEW w \in Workers PROVE Good([caller[w] EXCEPT !.entry = Older(@)])
    <3>1. caller[w] \in Callers /\ caller[w].entry \in Entries /\ Timed(caller[w].entry)
      BY DEF Inv, CacheTypeOK, Callers
    <3>2. Older(caller[w].entry) \in Entries /\ Timed(Older(caller[w].entry))
      BY <3>1, OlderGood
    <3> QED
      BY <3>1, <3>2 DEF Good, Callers
  <2>3. \A k \in Keys : Older(store[k]) \in Entries /\ Timed(Older(store[k]))
    BY <2>1, OlderGood
  <2> QED
    BY <1>0, <1>11, <2>2, <2>3 DEF Tick, Inv, CacheTypeOK, Good, Callers
<1>12. CASE UNCHANGED vars
  BY <1>12 DEF vars, Inv, CacheTypeOK
<1> QED
  BY <1>1, <1>2, <1>3, <1>5, <1>6, <1>7, <1>8, <1>9, <1>10, <1>11, <1>12 DEF Next, Resolve

THEOREM Invariance == Spec => []Inv
  BY InitInv, InvStep, PTL DEF Spec

\* In every reachable state the types hold, and no entry has, or had, more than the limit of its
\* kind to live: max_ttl with records, negative_ttl without (cache.rs:81-94, 155-167).
THEOREM CacheTypes == Spec => []CacheTypeOK
<1>1. Inv => CacheTypeOK
  BY DEF Inv
<1> QED
  BY <1>1, Invariance, PTL

-----------------------------------------------------------------------------

\* Of all steps only the two lookups in the cache take a caller from them to its result.
LEMMA ServedStep ==
  ASSUME Inv, [Next]_vars, NEW w \in Workers,
         caller[w].step \in {"positive", "negative"}, caller'[w].step = "done"
  PROVE  LET entry == store[caller[w].key] IN
         entry.age < entry.life /\ caller'[w].result = entry.value
<1> DEFINE entry == store[caller[w].key]
<1>0. /\ entry \in Entries /\ Timed(entry)
      /\ caller \in [Workers -> Callers]
  BY DEF Inv, CacheTypeOK, Callers
<1>1. ASSUME NEW v \in Workers, NEW c, caller' = [caller EXCEPT ![v] = c], v # w PROVE FALSE
  BY <1>0, <1>1
<1>2. CASE GetPositive(w)
  <2>1. caller'[w] = IF entry.value # "none" /\ ~ IsExpired(entry) THEN Done(w, entry.value)
                     ELSE To(w, "negative")
    BY <1>0, <1>2 DEF GetPositive
  <2>2. To(w, "negative").step # "done"
    BY <1>0 DEF To, Callers
  <2>3. ~ IsExpired(entry) /\ caller'[w] = Done(w, entry.value)
    BY <2>1, <2>2
  <2>4. Done(w, entry.value).result = entry.value
    BY <1>0 DEF Done, Callers
  <2> QED
    BY <1>0, <2>3, <2>4, ServedIsYoung
<1>3. CASE GetNegative(w)
  <2>1. caller'[w] = IF entry.value = "none" /\ ~ IsExpired(entry) THEN Done(w, "none")
                     ELSE To(w, "network")
    BY <1>0, <1>3 DEF GetNegative
  <2>2. To(w, "network").step # "done"
    BY <1>0 DEF To, Callers
  <2>3. ~ IsExpired(entry) /\ entry.value = "none" /\ caller'[w] = Done(w, entry.value)
    BY <2>1, <2>2
  <2>4. Done(w, entry.value).result = entry.value
    BY <1>0 DEF Done, Callers
  <2> QED
    BY <1>0, <2>3, <2>4, ServedIsYoung
<1>4. ASSUME NEW k \in Keys, Call(w, k) PROVE FALSE
  BY <1>4 DEF Call
<1>5. ASSUME Answered(w) \/ Failed(w) \/ Insert(w) \/ Return(w) PROVE FALSE
  BY <1>5 DEF Answered, Failed, Insert, Return
<1>6. ASSUME NEW v \in Workers, v # w, Resolve(v) \/ \E k \in Keys : Call(v, k) PROVE FALSE
  <2>1. \E c : caller' = [caller EXCEPT ![v] = c]
    BY <1>6 DEF Resolve, GetPositive, GetNegative, Answered, Failed, Insert, Return, Call
  <2> QED
    BY <1>1, <1>6, <2>1
<1>7. ASSUME Clear \/ ChangeZone \/ UNCHANGED vars PROVE FALSE
  BY <1>7 DEF Clear, ChangeZone, vars
<1>8. ASSUME Tick PROVE FALSE
  BY <1>0, <1>8 DEF Tick, Callers
<1> QED
  BY <1>2, <1>3, <1>4, <1>5, <1>6, <1>7, <1>8 DEF Next, Resolve

\* However late an answer is inserted and whoever inserts another one meanwhile, the cache serves
\* no entry beyond its lifetime, and no temporary failure (cache.rs:82-107, 155-187).
THEOREM ServedInTime == Spec => ServedWithinTtl
<1>1. Inv /\ [Next]_vars =>
        [\A w \in Workers :
           caller[w].step \in {"positive", "negative"} /\ caller'[w].step = "done" =>
             LET entry == store[caller[w].key] IN
             entry.age < entry.life /\ caller'[w].result = entry.value]_vars
  BY ServedStep
<1> QED
  BY <1>1, Invariance, PTL DEF Spec, ServedWithinTtl

=============================================================================
