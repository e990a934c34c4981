-------------------------- MODULE AlgorithmsProofs --------------------------
(***************************************************************************)
(* Proofs about the functions: the layers of the configuration, for any    *)
(* files and environments; the order of the exchanges of a domain, for any *)
(* number of records; the transfer of a body, for any body; DMARC, for any *)
(* record and any domains; and the targets of a domain, for any zone.      *)
(*                                                                         *)
(* LastLayerWins speaks of the one call that was made, so its proof is the *)
(* calculation of LoadConfig, setting by setting. For the order, the rank  *)
(* of a record is one more than the number of records that go ahead of it. *)
(* Going ahead is a strict total order, so a record ranks below another    *)
(* iff it goes ahead of it (RankOrder), and the ranks are a permutation.   *)
(*                                                                         *)
(* The rest is by induction on texts. Split and ParseDmarc are recursive   *)
(* functions on 0..N; StepsExist shows that they are defined, and          *)
(* SplitAppend and TagMeans say what one symbol and one tag more do. From  *)
(* there a body that is stuffed, cut at its line ends and unstuffed is     *)
(* what it was, line by line (BodyArrives); a record is what its last tags *)
(* say (ParseMeans); and a domain ends with a dot and another one, or is   *)
(* that one, iff the labels of the other are its last labels               *)
(* (AlignedByLabels).  The chain of aliases ends at a name without one, or *)
(* not at all: ChainProgress says what is known of it after each turn. The *)
(* exchanges that are kept are those that have an address, record by       *)
(* record (AddKeeps), and the order of the records carries over.           *)
(***************************************************************************)
EXTENDS Algorithms, FiniteSetTheorems, SequenceTheorems, TLAPS

-----------------------------------------------------------------------------
(* The calls. *)

\* What a call that a property speaks of was: a call of another function has another name.
LEMMA CallNamed ==
  ASSUME NextCall
  PROVE  /\ call'.of = "body"   => TransferBody
         /\ call'.of = "dmarc"  => CheckDmarc
         /\ call'.of = "config" => LoadConfiguration
         /\ call'.of = "mx"     => ResolveDomain
<1>1. CASE TransferBody
  <2>1. call'.of = "body"
    BY <1>1 DEF TransferBody, Called
  <2> QED BY <1>1, <2>1
<1>2. CASE SpoolMessage
  BY <1>2 DEF SpoolMessage, Called
<1>3. CASE SignMessage
  BY <1>3 DEF SignMessage, Called
<1>4. CASE FoldIt
  BY <1>4 DEF FoldIt, Called
<1>5. CASE ResolveDomain
  <2>1. call'.of = "mx"
    BY <1>5 DEF ResolveDomain, Called
  <2> QED BY <1>5, <2>1
<1>6. CASE CheckSpf
  BY <1>6 DEF CheckSpf, Called
<1>7. CASE CheckDmarc
  <2>1. call'.of = "dmarc"
    BY <1>7 DEF CheckDmarc, Called
  <2> QED BY <1>7, <2>1
<1>8. CASE LoadConfiguration
  <2>1. call'.of = "config"
    BY <1>8 DEF LoadConfiguration, Called
  <2> QED BY <1>8, <2>1
<1>9. CASE ParseLine
  BY <1>9 DEF ParseLine, Called
<1>10. CASE InjectMessage
  BY <1>10 DEF InjectMessage, Called
<1>11. CASE InjectRawMessage
  BY <1>11 DEF InjectRawMessage, Called
<1> QED BY <1>1, <1>2, <1>3, <1>4, <1>5, <1>6, <1>7, <1>8, <1>9, <1>10, <1>11 DEF NextCall

-----------------------------------------------------------------------------
(* The configuration. *)

\* Whatever the file and the environment say (config.rs:143-267, 430-545): a good text in the
\* environment wins over the file, the file over the default, and only a file can fail the start.
THEOREM LayersCorrect == Calls => []LastLayerWins
<1>1. InitCalls => LastLayerWins
  BY DEF InitCalls, Idle, LastLayerWins
<1>2. LastLayerWins /\ [NextCall]_call => LastLayerWins'
  <2>1. CASE UNCHANGED call
    BY <2>1 DEF LastLayerWins
  <2>2. CASE NextCall /\ call'.of # "config"
    BY <2>2 DEF LastLayerWins
  <2>3. CASE LoadConfiguration
    <3>1. PICK path \in {"none", "unreadable", "given"}, file \in Files, env \in Environments :
            Called("config", [path |-> path, file |-> file, env |-> env],
                   LoadConfig(path, file, env))
      BY <2>3 DEF LoadConfiguration
    <3> DEFINE out == LoadConfig(path, file, env)
               garbage == {s \in DOMAIN env : env[s] = "bad"}
    <3>2. /\ call'.in.path = path /\ call'.in.file = file /\ call'.in.env = env
          /\ call'.out = out
      BY <3>1 DEF Called
    <3>3. out.ok <=> \/ path = "none"
                     \/ path = "given" /\ "bad" \notin Range(file)
      BY <3>1 DEF LoadConfig, FileAccepted, Range
    <3>4. ASSUME out.ok, NEW s \in Settings
          PROVE  /\ s \in DOMAIN env \ garbage =>
                     out.config[s] = (IF s \in Flags THEN env[s] ELSE "env")
                 /\ s \in garbage \cap Flags =>
                     out.config[s] = (IF s \in {"spf_reject_fail", "dmarc_reject_fail"} THEN "false"
                                      ELSE "true")
                 /\ s \in (Settings \ DOMAIN env) \cup (garbage \ Flags) =>
                      CASE path = "given" /\ s \in DOMAIN file -> out.config[s] \in {"file", file[s]}
                        [] ~ (path = "given" /\ s \in DOMAIN file) /\ s \in Flags ->
                             out.config[s] = DefaultConfig[s]
                        [] OTHER -> out.config[s] = "default"
      <4>1. CASE path = "none"
        BY <3>4, <4>1 DEF LoadConfig, ApplyEnv, Taken, DefaultConfig, DefaultFlag, Flags
      <4>2. CASE path = "given"
        BY <3>4, <4>2 DEF LoadConfig, ApplyEnv, ApplyFile, Taken, DefaultConfig, DefaultFlag, Flags
      <4> QED BY <3>4, <4>1, <4>2 DEF LoadConfig
    <3> QED BY <3>2, <3>3, <3>4 DEF LastLayerWins
  <2> QED BY <2>1, <2>2, <2>3, CallNamed
<1> QED BY <1>1, <1>2, PTL DEF Calls

-----------------------------------------------------------------------------
(* The order of the exchanges. *)

\* Record j goes ahead of record i: it is preferred, or came before one that is preferred as much.
Ahead(records, j, i) ==
  \/ records[j].preference < records[i].preference
  \/ records[j].preference = records[i].preference /\ j < i
AllAhead(records, i) == {j \in DOMAIN records : Ahead(records, j, i)}
Rank(records, i) == Cardinality(AllAhead(records, i)) + 1

\* The answers whose records have a preference (a u16 in MxRecord).
Preferred(R) == {records \in Seq(R) : \A i \in DOMAIN records : records[i].preference \in Int}

\* A rank is an index of the sequence.
LEMMA RankType ==
  ASSUME NEW R, NEW records \in Preferred(R), NEW i \in DOMAIN records
  PROVE  /\ Rank(records, i) \in 1..Len(records)
         /\ IsFiniteSet(AllAhead(records, i))
         /\ Cardinality(AllAhead(records, i)) \in Nat
<1> DEFINE n == Len(records)
           others == (1..n) \ {i}
<1>1. n \in Nat /\ DOMAIN records = 1..n
  BY DEF Preferred
<1>2. IsFiniteSet(others) /\ Cardinality(others) = n - 1
  <2>1. IsFiniteSet(1..n) /\ Cardinality(1..n) = n
    <3>1. 1 \in Int /\ n \in Int
      BY <1>1
    <3> HIDE DEF n
    <3>2. IsFiniteSet(1..n) /\ Cardinality(1..n) = IF 1 > n THEN 0 ELSE n - 1 + 1
      BY <3>1, FS_Interval, Zenon
    <3> QED BY <1>1, <3>2
  <2>2. /\ IsFiniteSet(others)
        /\ Cardinality(others) = IF i \in 1..n THEN Cardinality(1..n) - 1 ELSE Cardinality(1..n)
    BY <2>1, FS_RemoveElement, Zenon
  <2> QED BY <1>1, <2>1, <2>2
<1>3. AllAhead(records, i) \in SUBSET others
  BY <1>1 DEF AllAhead, Ahead, Preferred
<1>4. /\ IsFiniteSet(AllAhead(records, i))
      /\ Cardinality(AllAhead(records, i)) <= Cardinality(others)
      /\ Cardinality(AllAhead(records, i)) \in Nat
  BY <1>2, <1>3, FS_Subset, FS_CardinalityType, Zenon
<1> QED BY <1>1, <1>2, <1>4, SMT DEF Rank

\* The ranks are in the order of the records.
LEMMA RankOrder ==
  ASSUME NEW R, NEW records \in Preferred(R), NEW i \in DOMAIN records, NEW j \in DOMAIN records
  PROVE  Ahead(records, j, i) <=> Rank(records, j) < Rank(records, i)
<1> DEFINE front(k) == AllAhead(records, k)
<1>1. ASSUME NEW a \in DOMAIN records, NEW b \in DOMAIN records, Ahead(records, a, b)
      PROVE  Rank(records, a) < Rank(records, b)
  <2>1. front(a) \in SUBSET front(b)
    BY <1>1 DEF AllAhead, Ahead, Preferred
  <2>2. a \in front(b) /\ a \notin front(a)
    BY <1>1 DEF AllAhead, Ahead, Preferred
  <2>3. /\ Cardinality(front(a)) <= Cardinality(front(b))
        /\ Cardinality(front(a)) # Cardinality(front(b))
    BY <2>1, <2>2, RankType, FS_Subset
  <2> QED BY <2>3, RankType, SMT DEF Rank
<1>2. i = j \/ Ahead(records, i, j) \/ Ahead(records, j, i)
  BY DEF Ahead, Preferred
<1>3. i = j => ~ Ahead(records, j, i)
  BY DEF Ahead, Preferred
<1>4. Rank(records, i) \in Nat /\ Rank(records, j) \in Nat
  BY RankType
<1> QED BY <1>1, <1>2, <1>3, <1>4

\* MxResolver::resolve sorts by preference (mx_resolve.rs:86): every record is there once, the more
\* preferred ones first, and those with the same preference in the order of the answer.
THEOREM SortedCorrect ==
  ASSUME NEW R, NEW records \in Preferred(R)
  PROVE  LET sorted == SortedByPreference(records)
         IN \E from \in Bijection(DOMAIN records, DOMAIN records) :
              /\ sorted = [r \in DOMAIN records |-> records[from[r]]]
              /\ \A q, r \in DOMAIN records : q < r =>
                   \/ sorted[q].preference < sorted[r].preference
                   \/ sorted[q].preference = sorted[r].preference /\ from[q] < from[r]
<1> DEFINE D == DOMAIN records
           from == [r \in D |-> CHOOSE i \in D : Rank(records, i) = r]
           ranks == [i \in D |-> Rank(records, i)]
<1>1. IsFiniteSet(D) /\ D = 1..Len(records) /\ Len(records) \in Nat
  BY FS_Interval DEF Preferred
<1>2. ranks \in Injection(D, D)
  <2>1. ranks \in [D -> D]
    BY <1>1, RankType
  <2>2. ASSUME NEW i \in D, NEW j \in D, ranks[i] = ranks[j] PROVE i = j
    <3>1. Rank(records, i) = Rank(records, j) /\ Rank(records, i) \in Nat
      BY <2>2, RankType
    <3>2. ~ Ahead(records, i, j) /\ ~ Ahead(records, j, i)
      BY <3>1, RankOrder
    <3> QED BY <3>2 DEF Ahead, Preferred
  <2> QED BY <2>1, <2>2 DEF Injection, IsInjective
<1>3. ranks \in Surjection(D, D)
  BY <1>1, <1>2, FS_Injection
<1>4. \A r \in D : \E i \in D : Rank(records, i) = r
  BY <1>3 DEF Surjection
<1>5. \A r \in D : from[r] \in D /\ Rank(records, from[r]) = r
  BY <1>4
<1>6. from \in Bijection(D, D)
  <2>1. from \in [D -> D]
    BY <1>5
  <2>2. \A q, r \in D : from[q] = from[r] => q = r
    BY <1>5
  <2>3. \A i \in D : \E r \in D : from[r] = i
    <3> TAKE i \in D
    <3>1. ranks[i] \in D /\ Rank(records, from[ranks[i]]) = ranks[i]
      BY <1>2, <1>5 DEF Injection
    <3>2. from[ranks[i]] = i
      BY <1>2, <1>5, <3>1 DEF Injection, IsInjective
    <3> QED BY <3>1, <3>2
  <2> QED BY <2>1, <2>2, <2>3 DEF Bijection, Injection, Surjection, IsInjective
<1>7. SortedByPreference(records) = [r \in D |-> records[from[r]]]
  BY DEF SortedByPreference, Rank, AllAhead, Ahead
<1>8. ASSUME NEW q \in D, NEW r \in D, q < r
      PROVE  Ahead(records, from[q], from[r])
  BY <1>5, <1>8, RankOrder
<1> DEFINE sorted == SortedByPreference(records)
<1> HIDE DEF from
<1>9. \A q, r \in D : q < r =>
        \/ sorted[q].preference < sorted[r].preference
        \/ sorted[q].preference = sorted[r].preference /\ from[q] < from[r]
  <2> SUFFICES ASSUME NEW q \in D, NEW r \in D, q < r
               PROVE  \/ sorted[q].preference < sorted[r].preference
                      \/ sorted[q].preference = sorted[r].preference /\ from[q] < from[r]
    OBVIOUS
  <2>1. sorted[q] = records[from[q]] /\ sorted[r] = records[from[r]]
    BY <1>7
  <2> QED BY <1>8, <2>1 DEF Ahead
<1> QED BY <1>6, <1>7, <1>9

-----------------------------------------------------------------------------
(* Induction, for the members of a set: the theorems of the library take an operator. *)

\* A set of naturals has a least element.
LEMMA LeastElement ==
  ASSUME NEW T, T \subseteq Nat, T # {}
  PROVE  \E n \in T : \A m \in T : n <= m
<1> DEFINE R == OpToRel(<, Nat)
<1>1. \E n \in T : \A m \in T : ~ (<<m, n>> \in R)
  BY NatLessThanWellFounded, WFMin, Zenon
<1>2. \A m, n \in Nat : m < n => <<m, n>> \in R
  BY DEF OpToRel
<1> HIDE DEF R
<1>3. PICK n \in T : \A m \in T : ~ (<<m, n>> \in R)
  BY <1>1
<1>4. ASSUME NEW m \in T PROVE n <= m
  <2>1. m \in Nat /\ n \in Nat /\ ~ (m < n)
    BY <1>2, <1>3
  <2> QED BY <2>1
<1> QED BY <1>4

\* Induction on the naturals, for the members of a set.
LEMMA Induction ==
  ASSUME NEW P, 0 \in P, \A n \in Nat : n \in P => n + 1 \in P
  PROVE  Nat \subseteq P
<1> SUFFICES ASSUME Nat \ P # {} PROVE FALSE
  OBVIOUS
<1>1. PICK n \in Nat \ P : \A m \in Nat \ P : n <= m
  BY LeastElement
<1>2. n # 0 /\ n - 1 \in Nat /\ n - 1 \in P
  BY <1>1
<1> QED BY <1>1, <1>2

\* Induction on sequences, by the element that is appended last.
LEMMA InductionOnTexts ==
  ASSUME NEW S, NEW P, <<>> \in P, \A s \in Seq(S), e \in S : s \in P => Append(s, e) \in P
  PROVE  Seq(S) \subseteq P
<1> DEFINE Q == {n \in Nat : \A s \in Seq(S) : Len(s) = n => s \in P}
<1>1. 0 \in Q
  BY EmptySeq
<1>2. ASSUME NEW n \in Nat, n \in Q PROVE n + 1 \in Q
  <2> SUFFICES ASSUME NEW s \in Seq(S), Len(s) = n + 1 PROVE s \in P
    OBVIOUS
  <2>1. s # <<>>
    OBVIOUS
  <2>2. PICK t \in Seq(S), e \in S : s = Append(t, e)
    BY <2>1, SequenceEmptyOrAppend
  <2>3. Len(t) = n
    BY <2>2
  <2> QED BY <1>2, <2>2, <2>3
<1>3. Nat \subseteq Q
  <2> HIDE DEF Q
  <2> QED BY <1>1, <1>2, Induction
<1> QED BY <1>3, LenProperties

-----------------------------------------------------------------------------
(* Recursive functions on 0..N. *)

\* f begins with `base' and goes on by the functions of F.
Steps(f, N, base, F) ==
  /\ DOMAIN f = 0..N
  /\ f[0] = base
  /\ \A n \in 1..N : f[n] = F[n][f[n - 1]]

\* There is such a function: what the model defines by recursion is a function on 0..N.
LEMMA StepsExist ==
  ASSUME NEW V, NEW N \in Nat, NEW base \in V, NEW F \in [1..N -> [V -> V]]
  PROVE  \E f \in [0..N -> V] : Steps(f, N, base, F)
<1> DEFINE P == {n \in Nat : n <= N => \E f \in [0..n -> V] : Steps(f, n, base, F)}
<1>1. 0 \in P
  <2> DEFINE f == [i \in 0..0 |-> base]
  <2>1. f \in [0..0 -> V] /\ Steps(f, 0, base, F)
    BY DEF Steps
  <2> QED BY <2>1
<1>2. ASSUME NEW n \in Nat, n \in P PROVE n + 1 \in P
  <2> SUFFICES ASSUME n + 1 <= N PROVE \E f \in [0..(n + 1) -> V] : Steps(f, n + 1, base, F)
    OBVIOUS
  <2>1. PICK f \in [0..n -> V] : Steps(f, n, base, F)
    BY <1>2
  <2> DEFINE g == [i \in 0..(n + 1) |-> IF i = n + 1 THEN F[n + 1][f[n]] ELSE f[i]]
  <2>2. F[n + 1][f[n]] \in V
    OBVIOUS
  <2>3. g \in [0..(n + 1) -> V]
    BY <2>2
  <2>4. Steps(g, n + 1, base, F)
    BY <2>1 DEF Steps
  <2> QED BY <2>3, <2>4
<1>3. Nat \subseteq P
  <2> HIDE DEF P
  <2> QED BY <1>1, <1>2, Induction
<1> QED BY <1>3

\* f and g begin alike and go on alike for N steps.
Sharing(f, N, F, g, M, G, base) ==
  /\ N \in Nat /\ M \in Nat /\ N <= M
  /\ Steps(f, N, base, F) /\ Steps(g, M, base, G)
  /\ \A n \in 1..N : F[n] = G[n]

Agree(f, g, N) == \A n \in 0..N : f[n] = g[n]

\* As far as the steps are the same, so are the functions.
LEMMA StepsAgree ==
  ASSUME NEW f, NEW N, NEW F, NEW g, NEW M, NEW G, NEW base, Sharing(f, N, F, g, M, G, base)
  PROVE  Agree(f, g, N)
<1> DEFINE P == {n \in Nat : n <= N => f[n] = g[n]}
<1>1. 0 \in P
  BY DEF Sharing, Steps
<1>2. ASSUME NEW n \in Nat, n \in P PROVE n + 1 \in P
  BY <1>2 DEF Sharing, Steps
<1>3. Nat \subseteq P
  <2> HIDE DEF P
  <2> QED BY <1>1, <1>2, Induction
<1> QED BY <1>3 DEF Sharing, Agree

-----------------------------------------------------------------------------
(* The pieces of a text: str::split. *)

TextsOf(S) == Seq(S)
Pieces(S, at) == Seq(TextsOf(S \ {at})) \ {<<>>}

Adding(S, text, at) == [n \in 1..Len(text) |-> [v \in Pieces(S, at) |-> AddSymbol(v, text[n], at)]]

\* A text added to the last piece.
Longer(pieces, text) == [pieces EXCEPT ![Len(pieces)] = @ \o text]

IsLonger(longer, pieces, text) ==
  /\ Len(longer) = Len(pieces)
  /\ \A i \in 1..Len(pieces) : longer[i] = IF i = Len(pieces) THEN pieces[i] \o text ELSE pieces[i]

\* There is a last piece.
LEMMA LastPiece ==
  ASSUME NEW T, NEW v \in Seq(TextsOf(T)), v # <<>>
  PROVE  Len(v) \in Nat \ {0} /\ Len(v) \in 1..Len(v) /\ v[Len(v)] \in TextsOf(T)
<1>1. Len(v) \in Nat \ {0}
  BY EmptySeq
<1> QED BY <1>1

\* What a text behind the last piece makes of the pieces.
LEMMA LongerIs ==
  ASSUME NEW T, NEW v \in Seq(TextsOf(T)), v # <<>>, NEW w \in TextsOf(T)
  PROVE  /\ Longer(v, w) \in Seq(TextsOf(T))
         /\ Longer(v, w) # <<>>
         /\ IsLonger(Longer(v, w), v, w)
<1> DEFINE e == v[Len(v)] \o w
<1>1. Len(v) \in Nat \ {0} /\ Len(v) \in 1..Len(v) /\ v[Len(v)] \in TextsOf(T)
  BY LastPiece
<1>2. e \in TextsOf(T)
  BY <1>1 DEF TextsOf
<1>3. Longer(v, w) = [v EXCEPT ![Len(v)] = e]
  BY DEF Longer
<1> HIDE DEF e
<1>4. /\ Longer(v, w) \in Seq(TextsOf(T)) /\ Len(Longer(v, w)) = Len(v)
      /\ \A i \in 1..Len(v) : Longer(v, w)[i] = IF i = Len(v) THEN e ELSE v[i]
  BY <1>1, <1>2, <1>3, ExceptSeq
<1>5. Longer(v, w) # <<>>
  BY <1>1, <1>4, EmptySeq
<1>6. IsLonger(Longer(v, w), v, w)
  BY <1>4 DEF IsLonger, e
<1> QED BY <1>4, <1>5, <1>6

\* Pieces are told by their length and their texts.
LEMMA LongerUnique ==
  ASSUME NEW T, NEW y \in Seq(TextsOf(T)), NEW z \in Seq(TextsOf(T)), NEW v \in Seq(TextsOf(T)),
         NEW w, IsLonger(y, v, w), IsLonger(z, v, w)
  PROVE  y = z
<1>1. Len(y) = Len(z) /\ \A i \in 1..Len(y) : y[i] = z[i]
  BY DEF IsLonger
<1> QED BY <1>1, SeqEqual

\* Nothing, added to the last piece, changes nothing.
LEMMA LongerEmpty ==
  ASSUME NEW T, NEW v \in Seq(TextsOf(T)), v # <<>>
  PROVE  Longer(v, <<>>) = v
<1>1. v[Len(v)] \in TextsOf(T) /\ <<>> \in TextsOf(T)
  BY LastPiece DEF TextsOf
<1>2. v[Len(v)] \o <<>> = v[Len(v)]
  BY <1>1 DEF TextsOf
<1>3. IsLonger(v, v, <<>>)
  BY <1>2 DEF IsLonger
<1>4. Longer(v, <<>>) \in Seq(TextsOf(T)) /\ IsLonger(Longer(v, <<>>), v, <<>>)
  BY <1>1, LongerIs
<1> QED BY <1>3, <1>4, LongerUnique

\* Two texts behind the last piece are one.
LEMMA LongerTwice ==
  ASSUME NEW T, NEW v \in Seq(TextsOf(T)), v # <<>>, NEW w \in TextsOf(T), NEW x \in TextsOf(T)
  PROVE  Longer(Longer(v, w), x) = Longer(v, w \o x)
<1> DEFINE y == Longer(v, w)
           z == Longer(y, x)
           u == Longer(v, w \o x)
<1>1. w \o x \in TextsOf(T)
  BY DEF TextsOf
<1>2. y \in Seq(TextsOf(T)) /\ y # <<>> /\ IsLonger(y, v, w)
  BY LongerIs
<1>3. u \in Seq(TextsOf(T)) /\ IsLonger(u, v, w \o x)
  BY <1>1, LongerIs
<1> HIDE DEF y, u
<1>4. z \in Seq(TextsOf(T)) /\ IsLonger(z, y, x)
  BY <1>2, LongerIs
<1> HIDE DEF z
<1>5. v[Len(v)] \in TextsOf(T)
  BY LastPiece
<1>6. (v[Len(v)] \o w) \o x = v[Len(v)] \o (w \o x)
  <2> DEFINE last == v[Len(v)]
  <2>1. last \in Seq(T) /\ w \in Seq(T) /\ x \in Seq(T)
    BY <1>5 DEF TextsOf
  <2> HIDE DEF last
  <2>2. (last \o w) \o x = last \o (w \o x)
    BY <2>1, ConcatAssociative
  <2> QED BY <2>2 DEF last
<1>7. IsLonger(z, v, w \o x)
  BY <1>2, <1>4, <1>6 DEF IsLonger
<1>8. z = u
  BY <1>3, <1>4, <1>7, LongerUnique
<1> QED BY <1>8 DEF y, z, u

\* A symbol that ends no piece makes the last one longer.
LEMMA AddIsLonger ==
  ASSUME NEW T, NEW v \in Seq(TextsOf(T)), v # <<>>, NEW e \in T, NEW at, e # at
  PROVE  AddSymbol(v, e, at) = Longer(v, <<e>>) /\ <<e>> \in TextsOf(T)
<1>1. v[Len(v)] \in TextsOf(T)
  BY LastPiece
<1>2. Append(v[Len(v)], e) = v[Len(v)] \o <<e>> /\ <<e>> \in TextsOf(T)
  BY <1>1 DEF TextsOf
<1> QED BY <1>2 DEF AddSymbol, Longer

\* AddSymbol keeps the pieces free of the symbol that ends them, and never leaves none.
LEMMA AddType ==
  ASSUME NEW S, NEW at, NEW v \in Pieces(S, at), NEW e \in S
  PROVE  AddSymbol(v, e, at) \in Pieces(S, at)
<1>1. CASE e = at
  <2>1. <<>> \in TextsOf(S \ {at})
    BY DEF TextsOf
  <2> QED BY <1>1, <2>1 DEF Pieces, AddSymbol
<1>2. CASE e # at
  <2> DEFINE T == S \ {at}
  <2>1. v \in Seq(TextsOf(T)) /\ v # <<>> /\ e \in T
    BY <1>2 DEF Pieces
  <2>2. AddSymbol(v, e, at) = Longer(v, <<e>>) /\ <<e>> \in TextsOf(T)
    BY <1>2, <2>1, AddIsLonger
  <2>3. Longer(v, <<e>>) \in Seq(TextsOf(T)) /\ Longer(v, <<e>>) # <<>>
    BY <2>1, <2>2, LongerIs
  <2> QED BY <2>2, <2>3 DEF Pieces
<1> QED BY <1>1, <1>2

\* Split goes through the text symbol by symbol.
LEMMA SplitSteps ==
  ASSUME NEW S, NEW at, NEW text \in Seq(S)
  PROVE  \E f \in [0..Len(text) -> Pieces(S, at)] :
           /\ Steps(f, Len(text), << <<>> >>, Adding(S, text, at))
           /\ Split(text, at) = f[Len(text)]
<1> DEFINE N == Len(text)
           start == << <<>> >>
           F == Adding(S, text, at)
<1>1. start \in Pieces(S, at) /\ N \in Nat
  BY DEF Pieces, TextsOf
<1>2. F \in [1..N -> [Pieces(S, at) -> Pieces(S, at)]]
  BY AddType DEF Adding
<1>3. PICK f \in [0..N -> Pieces(S, at)] : Steps(f, N, start, F)
  <2> HIDE DEF N, start, F
  <2> QED BY <1>1, <1>2, StepsExist
<1>4. f = [n \in 0..N |-> IF n = 0 THEN start ELSE AddSymbol(f[n - 1], text[n], at)]
  <2>1. f[0] = start
    BY <1>3 DEF Steps
  <2>2. ASSUME NEW n \in 1..N PROVE f[n] = AddSymbol(f[n - 1], text[n], at)
    <3>1. n - 1 \in 0..N /\ f[n - 1] \in Pieces(S, at)
      BY <1>1
    <3>2. f[n] = F[n][f[n - 1]]
      BY <1>3 DEF Steps
    <3> QED BY <3>1, <3>2 DEF Adding
  <2> HIDE DEF N, start, F
  <2> QED BY <1>1, <2>1, <2>2
<1> DEFINE after == CHOOSE g : g = [n \in 0..N |-> IF n = 0 THEN start ELSE AddSymbol(g[n - 1], text[n], at)]
<1>5. after = [n \in 0..N |-> IF n = 0 THEN start ELSE AddSymbol(after[n - 1], text[n], at)]
  <2>1. \E g : g = [n \in 0..N |-> IF n = 0 THEN start ELSE AddSymbol(g[n - 1], text[n], at)]
    BY <1>4
  <2> QED BY <2>1, Zenon
<1>6. Split(text, at) = after[N]
  BY DEF Split
<1>7. after[N] = f[N]
  <2> DEFINE P == {n \in Nat : n <= N => after[n] = f[n]}
  <2> HIDE DEF after, start, N
  <2>1. 0 \in P
    BY <1>1, <1>4, <1>5
  <2>2. ASSUME NEW n \in Nat, n \in P PROVE n + 1 \in P
    <3>1. CASE n + 1 <= N
      <4>1. n + 1 \in 0..N /\ n + 1 # 0 /\ (n + 1) - 1 = n /\ after[n] = f[n]
        BY <1>1, <2>2, <3>1
      <4>2. /\ after[n + 1] = AddSymbol(after[n], text[n + 1], at)
            /\ f[n + 1] = AddSymbol(f[n], text[n + 1], at)
        BY <1>4, <1>5, <4>1
      <4> QED BY <4>1, <4>2
    <3>2. CASE ~ (n + 1 <= N)
      BY <3>2
    <3> QED BY <3>1, <3>2
  <2>3. Nat \subseteq P
    <3> HIDE DEF P
    <3> QED BY <2>1, <2>2, Induction
  <2> QED BY <1>1, <2>3
<1> QED BY <1>3, <1>6, <1>7

\* str::split gives one piece at least, and none has the symbol in it.
LEMMA SplitType ==
  ASSUME NEW S, NEW at, NEW text \in Seq(S)
  PROVE  Split(text, at) \in Pieces(S, at)
<1>1. PICK f \in [0..Len(text) -> Pieces(S, at)] : Split(text, at) = f[Len(text)]
  BY SplitSteps
<1> QED BY <1>1

\* The empty text is one piece, an empty one.
LEMMA SplitEmpty ==
  ASSUME NEW at PROVE Split(<<>>, at) = << <<>> >>
<1>1. <<>> \in Seq({}) /\ Len(<<>>) = 0
  OBVIOUS
<1>2. PICK f \in [0..Len(<<>>) -> Pieces({}, at)] :
        /\ Steps(f, Len(<<>>), << <<>> >>, Adding({}, <<>>, at))
        /\ Split(<<>>, at) = f[Len(<<>>)]
  BY <1>1, SplitSteps
<1> QED BY <1>1, <1>2 DEF Steps

\* str::split of a text with one symbol more.
LEMMA SplitAppend ==
  ASSUME NEW S, NEW at, NEW text \in Seq(S), NEW e \in S
  PROVE  Split(Append(text, e), at) = AddSymbol(Split(text, at), e, at)
<1> DEFINE N == Len(text)
           longer == Append(text, e)
           start == << <<>> >>
<1>1. longer \in Seq(S) /\ Len(longer) = N + 1 /\ N \in Nat /\ longer[N + 1] = e
      /\ \A n \in 1..N : longer[n] = text[n]
  BY AppendProperties
<1>2. PICK f \in [0..N -> Pieces(S, at)] :
        Steps(f, N, start, Adding(S, text, at)) /\ Split(text, at) = f[N]
  BY SplitSteps
<1>3. PICK g \in [0..(N + 1) -> Pieces(S, at)] :
        Steps(g, N + 1, start, Adding(S, longer, at)) /\ Split(longer, at) = g[N + 1]
  <2> HIDE DEF longer, start
  <2>1. PICK g \in [0..Len(longer) -> Pieces(S, at)] :
        Steps(g, Len(longer), start, Adding(S, longer, at)) /\ Split(longer, at) = g[Len(longer)]
    BY <1>1, SplitSteps, Zenon DEF start
  <2> QED BY <1>1, <2>1
<1> HIDE DEF longer, start, N
<1>4. \A n \in 1..N : Adding(S, text, at)[n] = Adding(S, longer, at)[n]
  BY <1>1 DEF Adding, N
<1>5. f[N] = g[N]
  <2> DEFINE M == N + 1
             F == Adding(S, text, at)
             G == Adding(S, longer, at)
  <2>2. Sharing(f, N, F, g, M, G, start)
    BY <1>1, <1>2, <1>3, <1>4 DEF Sharing
  <2> HIDE DEF M, F, G
  <2>1. Agree(f, g, N)
    BY <2>2, StepsAgree
  <2> QED BY <1>1, <2>1 DEF Agree
<1>6. g[N + 1] = Adding(S, longer, at)[N + 1][g[N]]
  BY <1>1, <1>3 DEF Steps
<1>7. g[N] \in Pieces(S, at)
  BY <1>1
<1>8. g[N + 1] = AddSymbol(g[N], e, at)
  BY <1>1, <1>6, <1>7 DEF Adding
<1> QED BY <1>2, <1>3, <1>5, <1>8 DEF longer

\* A text without the symbol belongs to the last piece.
LEMMA SplitLonger ==
  ASSUME NEW S, NEW at, NEW text \in Seq(S), NEW w \in TextsOf(S \ {at})
  PROVE  Split(text \o w, at) = Longer(Split(text, at), w)
<1> DEFINE v == Split(text, at)
           T == S \ {at}
           P == {x \in TextsOf(T) : Split(text \o x, at) = Longer(v, x)}
<1>1. v \in Seq(TextsOf(T)) /\ v # <<>>
  BY SplitType DEF Pieces
<1>2. <<>> \in P
  <2>1. text \o <<>> = text /\ <<>> \in TextsOf(T)
    BY DEF TextsOf
  <2>2. Longer(v, <<>>) = v
    <3> HIDE DEF v, T
    <3> QED BY <1>1, LongerEmpty
  <2> QED BY <2>1, <2>2
<1>3. ASSUME NEW x \in Seq(T), NEW e \in T, x \in P PROVE Append(x, e) \in P
  <2> DEFINE y == Append(x, e)
             z == Longer(v, x)
  <2>1. /\ y \in TextsOf(T) /\ text \o y = Append(text \o x, e) /\ text \o x \in Seq(S)
        /\ x \in TextsOf(T) /\ e \in S /\ e # at /\ <<e>> \in TextsOf(T) /\ y = x \o <<e>>
    <3>1. x \in Seq(S) /\ e \in S /\ e # at
      OBVIOUS
    <3>2. y \in TextsOf(T) /\ x \in TextsOf(T) /\ <<e>> \in TextsOf(T) /\ y = x \o <<e>>
      BY DEF TextsOf
    <3>3. text \o y = Append(text \o x, e) /\ text \o x \in Seq(S)
      BY <3>1
    <3> QED BY <3>1, <3>2, <3>3
  <2>2. Split(text \o y, at) = AddSymbol(Split(text \o x, at), e, at)
    BY <2>1, SplitAppend
  <2>3. Split(text \o y, at) = AddSymbol(z, e, at)
    BY <1>3, <2>2
  <2> HIDE DEF v, T, y
  <2>4. z \in Seq(TextsOf(T)) /\ z # <<>>
    BY <1>1, <2>1, LongerIs
  <2>5. AddSymbol(z, e, at) = Longer(z, <<e>>)
    <3> HIDE DEF z
    <3> QED BY <2>1, <2>4, AddIsLonger
  <2>6. Longer(z, <<e>>) = Longer(v, y)
    BY <1>1, <2>1, LongerTwice
  <2>7. Split(text \o y, at) = Longer(v, y)
    BY <2>3, <2>5, <2>6
  <2>8. y \in P
    BY <2>1, <2>7
  <2> QED BY <2>8 DEF y
<1>4. Seq(T) \subseteq P
  <2> HIDE DEF P, T
  <2> QED BY <1>2, <1>3, InductionOnTexts
<1> QED BY <1>4 DEF TextsOf

\* A piece that is ended.
Ends(text, at, pieces, w) ==
  Split(text, at) = Append(pieces, <<>>) =>
    Split(text \o (w \o <<at>>), at) = Append(Append(pieces, w), <<>>)

\* A text that ends a piece with the symbol adds that piece.
LEMMA SplitEnded ==
  ASSUME NEW S, NEW at \in S, NEW text \in Seq(S), NEW pieces \in Seq(TextsOf(S \ {at})),
         NEW w \in TextsOf(S \ {at})
  PROVE  Ends(text, at, pieces, w)
<1>0. Split(text \o w, at) = Longer(Split(text, at), w)
  BY SplitLonger
<1> SUFFICES ASSUME Split(text, at) = Append(pieces, <<>>)
             PROVE  Split(text \o (w \o <<at>>), at) = Append(Append(pieces, w), <<>>)
  BY DEF Ends
<1> DEFINE U == TextsOf(S \ {at})
           v == Append(pieces, <<>>)
           y == Longer(v, w)
           z == Append(pieces, w)
<1>1. text \o w \in Seq(S) /\ text \o (w \o <<at>>) = Append(text \o w, at)
  BY DEF TextsOf
<1>2. Split(text \o (w \o <<at>>), at) = AddSymbol(Split(text \o w, at), at, at)
  BY <1>1, SplitAppend
<1>3. Split(text \o w, at) = y
  BY <1>0
<1>4. y = z
  <2>1. <<>> \in U /\ w \in U
    BY DEF TextsOf
  <2>2. <<>> \o w = w
    BY DEF TextsOf
  <2>3. /\ v \in Seq(U) /\ v # <<>> /\ Len(v) = Len(pieces) + 1 /\ Len(pieces) \in Nat
        /\ \A i \in 1..Len(pieces) : v[i] = pieces[i]
        /\ v[Len(pieces) + 1] = <<>>
    BY <2>1, AppendProperties, LenProperties
  <2>4. /\ z \in Seq(U) /\ Len(z) = Len(pieces) + 1
        /\ \A i \in 1..Len(pieces) : z[i] = pieces[i]
        /\ z[Len(pieces) + 1] = w
    BY <2>1, AppendProperties, LenProperties
  <2> HIDE DEF v, z
  <2>5. y \in Seq(U) /\ IsLonger(y, v, w)
    BY <2>1, <2>3, LongerIs
  <2> HIDE DEF y, U
  <2>6. IsLonger(z, v, w)
    <3> SUFFICES ASSUME NEW i \in 1..Len(v) PROVE z[i] = IF i = Len(v) THEN v[i] \o w ELSE v[i]
      BY <2>3, <2>4 DEF IsLonger
    <3>1. CASE i = Len(v)
      BY <2>2, <2>3, <2>4, <3>1
    <3>2. CASE i # Len(v)
      <4>1. i \in 1..Len(pieces)
        BY <2>3, <3>2
      <4> QED BY <2>3, <2>4, <3>2, <4>1
    <3> QED BY <3>1, <3>2
  <2> QED BY <2>3, <2>4, <2>5, <2>6, LongerUnique DEF U
<1> QED BY <1>2, <1>3, <1>4 DEF AddSymbol

-----------------------------------------------------------------------------
(* Lines with their ends: FlattenSeq. *)

Joining(S, seqs) == [n \in 1..Len(seqs) |-> [v \in TextsOf(S) |-> v \o seqs[n]]]

\* FlattenSeq goes through the texts one by one.
LEMMA FlattenSteps ==
  ASSUME NEW S, NEW seqs \in Seq(TextsOf(S))
  PROVE  \E f \in [0..Len(seqs) -> TextsOf(S)] :
           Steps(f, Len(seqs), <<>>, Joining(S, seqs)) /\ FlattenSeq(seqs) = f[Len(seqs)]
<1> DEFINE N == Len(seqs)
           F == Joining(S, seqs)
<1>1. <<>> \in TextsOf(S) /\ N \in Nat
  BY DEF TextsOf
<1>2. F \in [1..N -> [TextsOf(S) -> TextsOf(S)]]
  BY DEF Joining, TextsOf
<1>3. PICK f \in [0..N -> TextsOf(S)] : Steps(f, N, <<>>, F)
  <2> HIDE DEF N, F
  <2> QED BY <1>1, <1>2, StepsExist
<1>4. \A n \in 1..N : f[n] = f[n - 1] \o seqs[n]
  <2> SUFFICES ASSUME NEW n \in 1..N PROVE f[n] = f[n - 1] \o seqs[n]
    OBVIOUS
  <2>1. n - 1 \in 0..N /\ f[n - 1] \in TextsOf(S)
    BY <1>1
  <2>2. f[n] = F[n][f[n - 1]]
    BY <1>3 DEF Steps
  <2> QED BY <2>1, <2>2 DEF Joining
<1>5. f[0] = <<>>
  BY <1>3 DEF Steps
<1>6. CASE N = 0
  BY <1>3, <1>5, <1>6 DEF FlattenSeq
<1>7. CASE N # 0
  <2> DEFINE h == [i \in 1..N |-> f[i]]
             flatten == CHOOSE g : g = [i \in 1..N |-> IF i = 1 THEN seqs[i] ELSE g[i - 1] \o seqs[i]]
  <2>1. h = [i \in 1..N |-> IF i = 1 THEN seqs[i] ELSE h[i - 1] \o seqs[i]]
    <3> SUFFICES ASSUME NEW i \in 1..N PROVE f[i] = IF i = 1 THEN seqs[i] ELSE h[i - 1] \o seqs[i]
      OBVIOUS
    <3>1. CASE i = 1
      <4>1. f[i] = <<>> \o seqs[i] /\ seqs[i] \in TextsOf(S)
        BY <1>4, <1>5, <3>1
      <4>2. <<>> \o seqs[i] = seqs[i]
        BY <4>1 DEF TextsOf
      <4> QED BY <3>1, <4>1, <4>2
    <3>2. CASE i # 1
      <4>1. i - 1 \in 1..N
        BY <1>1, <3>2
      <4> QED BY <1>4, <3>2, <4>1
    <3> QED BY <3>1, <3>2
  <2>2. flatten = [i \in 1..N |-> IF i = 1 THEN seqs[i] ELSE flatten[i - 1] \o seqs[i]]
    <3>1. \E g : g = [i \in 1..N |-> IF i = 1 THEN seqs[i] ELSE g[i - 1] \o seqs[i]]
      BY <2>1
    <3> QED BY <3>1, Zenon
  <2>3. FlattenSeq(seqs) = flatten[N]
    BY <1>7 DEF FlattenSeq
  <2> DEFINE P == {n \in Nat : n + 1 <= N => flatten[n + 1] = f[n + 1]}
  <2>4. flatten[N] = f[N]
    <3> HIDE DEF flatten, N
    <3>1. 0 \in P
      <4> SUFFICES ASSUME 1 <= N PROVE flatten[1] = f[1]
        OBVIOUS
      <4>1. 1 \in 1..N /\ seqs[1] \in TextsOf(S)
        BY <1>1 DEF N
      <4>2. flatten[1] = seqs[1]
        BY <2>2, <4>1
      <4>3. f[1] = f[0] \o seqs[1]
        <5>1. f[1] = f[1 - 1] \o seqs[1]
          BY <1>4, <4>1, Zenon
        <5>2. 1 - 1 = 0
          OBVIOUS
        <5> QED BY <5>1, <5>2, Zenon
      <4>4. <<>> \o seqs[1] = seqs[1]
        BY <4>1 DEF TextsOf
      <4> QED BY <1>5, <4>2, <4>3, <4>4
    <3>2. ASSUME NEW n \in Nat, n \in P PROVE n + 1 \in P
      <4> SUFFICES ASSUME (n + 1) + 1 <= N PROVE flatten[(n + 1) + 1] = f[(n + 1) + 1]
        OBVIOUS
      <4> DEFINE k == (n + 1) + 1
      <4>1. k \in 1..N /\ k # 1 /\ k - 1 = n + 1 /\ flatten[n + 1] = f[n + 1]
        BY <1>1, <3>2
      <4> HIDE DEF k
      <4>2. flatten[k] = flatten[k - 1] \o seqs[k] /\ f[k] = f[k - 1] \o seqs[k]
        BY <1>4, <2>2, <4>1
      <4>3. flatten[k] = f[k]
        BY <4>1, <4>2
      <4> QED BY <4>3 DEF k
    <3>3. Nat \subseteq P
      <4> HIDE DEF P
      <4> QED BY <3>1, <3>2, Induction
    <3>4. N - 1 \in Nat /\ (N - 1) + 1 = N
      BY <1>1, <1>7
    <3> QED BY <3>3, <3>4
  <2> QED BY <1>3, <2>3, <2>4
<1> QED BY <1>6, <1>7

\* No texts make the empty text.
LEMMA FlattenEmpty == FlattenSeq(<<>>) = <<>>
BY DEF FlattenSeq

\* TextsOf make a text.
LEMMA FlattenType ==
  ASSUME NEW S, NEW seqs \in Seq(TextsOf(S)) PROVE FlattenSeq(seqs) \in TextsOf(S)
<1>1. PICK f \in [0..Len(seqs) -> TextsOf(S)] : FlattenSeq(seqs) = f[Len(seqs)]
  BY FlattenSteps
<1> QED BY <1>1

\* The last text stands last.
LEMMA FlattenAppend ==
  ASSUME NEW S, NEW seqs \in Seq(TextsOf(S)), NEW w \in TextsOf(S)
  PROVE  FlattenSeq(Append(seqs, w)) = FlattenSeq(seqs) \o w
<1> DEFINE N == Len(seqs)
           M == N + 1
           longer == Append(seqs, w)
           F == Joining(S, seqs)
           G == Joining(S, longer)
<1>1. longer \in Seq(TextsOf(S)) /\ Len(longer) = M /\ N \in Nat /\ longer[M] = w
      /\ \A n \in 1..N : longer[n] = seqs[n]
  BY AppendProperties
<1>2. PICK f \in [0..N -> TextsOf(S)] : Steps(f, N, <<>>, F) /\ FlattenSeq(seqs) = f[N]
  BY FlattenSteps
<1>3. PICK g \in [0..M -> TextsOf(S)] : Steps(g, M, <<>>, G) /\ FlattenSeq(longer) = g[M]
  <2> HIDE DEF longer
  <2>1. PICK g \in [0..Len(longer) -> TextsOf(S)] :
          Steps(g, Len(longer), <<>>, G) /\ FlattenSeq(longer) = g[Len(longer)]
    BY <1>1, FlattenSteps
  <2> QED BY <1>1, <2>1
<1>4. \A n \in 1..N : F[n] = G[n]
  BY <1>1 DEF Joining
<1>5. M \in Nat /\ N <= M
  BY <1>1
<1>6. f[N] = g[N]
  <2>2. Sharing(f, N, F, g, M, G, <<>>)
    BY <1>1, <1>2, <1>3, <1>4, <1>5 DEF Sharing
  <2> HIDE DEF M, N, F, G
  <2>1. Agree(f, g, N)
    BY <2>2, StepsAgree
  <2> QED BY <1>1, <2>1 DEF Agree
<1>7. g[M] = G[M][g[M - 1]] /\ M - 1 = N
  BY <1>1, <1>3 DEF Steps
<1>8. G[M][g[N]] = g[N] \o w
  <2>1. g[N] \in TextsOf(S) /\ M \in 1..Len(longer)
    BY <1>1
  <2> QED BY <1>1, <2>1 DEF Joining
<1> QED BY <1>2, <1>3, <1>6, <1>7, <1>8

\* Lines with their ends: split again, they are the same lines.
Ended(lines, at) == [i \in DOMAIN lines |-> lines[i] \o <<at>>]

\* Lines with their ends are texts, and one line more is one more of them.
LEMMA EndedIs ==
  ASSUME NEW S, NEW at \in S, NEW lines \in Seq(TextsOf(S)), NEW w \in TextsOf(S)
  PROVE  /\ Ended(lines, at) \in Seq(TextsOf(S))
         /\ w \o <<at>> \in TextsOf(S)
         /\ Ended(Append(lines, w), at) = Append(Ended(lines, at), w \o <<at>>)
<1> DEFINE N == Len(lines)
           x == w \o <<at>>
           longer == Append(lines, w)
           y == Ended(longer, at)
           z == Append(Ended(lines, at), x)
<1>1. N \in Nat /\ DOMAIN lines = 1..N
  OBVIOUS
<1>2. \A v \in TextsOf(S) : v \o <<at>> \in TextsOf(S)
  BY DEF TextsOf
<1>3. Ended(lines, at) \in Seq(TextsOf(S)) /\ Len(Ended(lines, at)) = N
  BY <1>1, <1>2 DEF Ended
<1>4. longer \in Seq(TextsOf(S)) /\ Len(longer) = N + 1 /\ longer[N + 1] = w
      /\ \A i \in 1..N : longer[i] = lines[i]
  BY AppendProperties
<1>5. y \in Seq(TextsOf(S)) /\ Len(y) = N + 1 /\ \A i \in 1..(N + 1) : y[i] = longer[i] \o <<at>>
  <2> HIDE DEF longer, N
  <2>1. DOMAIN longer = 1..(N + 1)
    BY <1>4
  <2> QED BY <1>1, <1>2, <1>4, <2>1 DEF Ended
<1>6. x \in TextsOf(S)
  BY <1>2
<1>7. z \in Seq(TextsOf(S)) /\ Len(z) = N + 1 /\ z[N + 1] = x
      /\ \A i \in 1..N : z[i] = Ended(lines, at)[i]
  <2> HIDE DEF x
  <2> QED BY <1>3, <1>6, AppendProperties
<1>8. \A i \in 1..N : Ended(lines, at)[i] = lines[i] \o <<at>>
  BY <1>1 DEF Ended
<1>9. \A i \in 1..Len(y) : y[i] = z[i]
  <2> HIDE DEF y, z, longer, N
  <2> SUFFICES ASSUME NEW i \in 1..(N + 1) PROVE y[i] = z[i]
    BY <1>5
  <2>1. CASE i = N + 1
    BY <1>4, <1>5, <1>7, <2>1
  <2>2. CASE i # N + 1
    <3>1. i \in 1..N
      BY <1>1, <2>2
    <3> QED BY <1>4, <1>5, <1>7, <1>8, <3>1
  <2> QED BY <2>1, <2>2
<1>10. y = z
  <2> HIDE DEF y, z, N
  <2> QED BY <1>5, <1>7, <1>9, SeqEqual
<1> QED BY <1>3, <1>6, <1>10

\* Lines that are written with their ends are what the text is split into, with nothing behind them.
LEMMA SplitLines ==
  ASSUME NEW S, NEW at \in S, NEW lines \in Seq(TextsOf(S \ {at}))
  PROVE  Split(FlattenSeq(Ended(lines, at)), at) = Append(lines, <<>>)
<1> DEFINE U == TextsOf(S \ {at})
           P == {x \in Seq(U) : Split(FlattenSeq(Ended(x, at)), at) = Append(x, <<>>)}
<1>1. <<>> \in P
  <2>1. Ended(<<>>, at) = <<>>
    BY DEF Ended
  <2>2. Append(<<>>, <<>>) = << <<>> >> /\ <<>> \in Seq(U)
    OBVIOUS
  <2> QED BY <2>1, <2>2, FlattenEmpty, SplitEmpty
<1>2. ASSUME NEW x \in Seq(U), NEW w \in U, x \in P PROVE Append(x, w) \in P
  <2>1. x \in Seq(TextsOf(S)) /\ w \in TextsOf(S)
    <3>1. U \subseteq TextsOf(S)
      BY DEF TextsOf
    <3> HIDE DEF U
    <3> QED BY <3>1
  <2>2. /\ Ended(x, at) \in Seq(TextsOf(S))
        /\ w \o <<at>> \in TextsOf(S)
        /\ Ended(Append(x, w), at) = Append(Ended(x, at), w \o <<at>>)
    BY <2>1, EndedIs
  <2> DEFINE text == FlattenSeq(Ended(x, at))
  <2>3. FlattenSeq(Ended(Append(x, w), at)) = text \o (w \o <<at>>)
    BY <2>2, FlattenAppend
  <2>4. text \in Seq(S)
    BY <2>2, FlattenType DEF TextsOf
  <2>5. Split(text, at) = Append(x, <<>>)
    BY <1>2
  <2> HIDE DEF text
  <2>6. Split(text \o (w \o <<at>>), at) = Append(Append(x, w), <<>>)
    <3>1. Ends(text, at, x, w)
      BY <2>4, SplitEnded
    <3> QED BY <2>5, <3>1 DEF Ends
  <2>7. Append(x, w) \in Seq(U)
    OBVIOUS
  <2> QED BY <2>3, <2>6, <2>7
<1>3. Seq(U) \subseteq P
  <2> HIDE DEF P, U
  <2> QED BY <1>1, <1>2, InductionOnTexts
<1> QED BY <1>3

-----------------------------------------------------------------------------
(* The end of a text: str::trim_end_matches. *)

\* The end of the text without the symbols of the set behind it.
IsTrimmed(text, set, n) ==
  /\ n \in 0..Len(text)
  /\ \A i \in (n + 1)..Len(text) : text[i] \in set
  /\ n = 0 \/ text[n] \notin set

\* TrimEnd cuts where the symbols to be trimmed begin.
LEMMA TrimEndIs ==
  ASSUME NEW S, NEW text \in Seq(S), NEW set, NEW n, IsTrimmed(text, set, n)
  PROVE  TrimEnd(text, set) = SubSeq(text, 1, n)
<1> DEFINE m == CHOOSE k \in 0..Len(text) : /\ \A i \in (k + 1)..Len(text) : text[i] \in set
                                            /\ k = 0 \/ text[k] \notin set
<1>1. IsTrimmed(text, set, m)
  BY DEF IsTrimmed
<1>2. TrimEnd(text, set) = SubSeq(text, 1, m)
  BY DEF TrimEnd
<1> HIDE DEF m
<1>3. m = n
  <2>1. ~ (m < n)
    BY <1>1 DEF IsTrimmed
  <2>2. ~ (n < m)
    BY <1>1 DEF IsTrimmed
  <2> QED BY <1>1, <2>1, <2>2 DEF IsTrimmed
<1> QED BY <1>2, <1>3

\* There is such a place in every text.
LEMMA TrimmedExists ==
  ASSUME NEW S, NEW text \in Seq(S), NEW set
  PROVE  \E n \in 0..Len(text) : IsTrimmed(text, set, n)
<1> DEFINE T == {n \in 0..Len(text) : \A i \in (n + 1)..Len(text) : text[i] \in set}
<1>1. Len(text) \in T
  OBVIOUS
<1>2. PICK n \in T : \A m \in T : n <= m
  <2>1. T \subseteq Nat /\ T # {}
    BY <1>1
  <2> HIDE DEF T
  <2> QED BY <2>1, LeastElement
<1>3. n = 0 \/ text[n] \notin set
  <2> SUFFICES ASSUME n # 0, text[n] \in set PROVE FALSE
    OBVIOUS
  <2>1. n - 1 \in 0..Len(text)
    OBVIOUS
  <2>2. \A i \in ((n - 1) + 1)..Len(text) : i = n \/ i \in (n + 1)..Len(text)
    OBVIOUS
  <2>3. n - 1 \in T /\ n \in Int
    BY <2>1, <2>2
  <2> HIDE DEF T
  <2> QED BY <1>2, <2>3
<1> QED BY <1>2, <1>3 DEF IsTrimmed

\* A trimmed text is a text.
LEMMA TrimType ==
  ASSUME NEW S, NEW text \in Seq(S), NEW set
  PROVE  TrimEnd(text, set) \in Seq(S)
<1>1. PICK n \in 0..Len(text) : IsTrimmed(text, set, n)
  BY TrimmedExists
<1>2. TrimEnd(text, set) = SubSeq(text, 1, n)
  BY <1>1, TrimEndIs
<1> QED BY <1>2

\* One more symbol to be trimmed is trimmed.
LEMMA TrimMore ==
  ASSUME NEW S, NEW text \in Seq(S), NEW set, NEW e \in S, e \in set
  PROVE  TrimEnd(text \o <<e>>, set) = TrimEnd(text, set)
<1> DEFINE longer == text \o <<e>>
<1>1. PICK n \in 0..Len(text) : IsTrimmed(text, set, n)
  BY TrimmedExists
<1>2. longer \in Seq(S) /\ Len(longer) = Len(text) + 1 /\ longer[Len(text) + 1] = e
      /\ \A i \in 1..Len(text) : longer[i] = text[i]
  OBVIOUS
<1>3. IsTrimmed(longer, set, n)
  BY <1>1, <1>2 DEF IsTrimmed
<1>4. SubSeq(longer, 1, n) = SubSeq(text, 1, n)
  BY <1>2
<1> QED BY <1>1, <1>2, <1>3, <1>4, TrimEndIs

\* A symbol in front that is not trimmed stays in front.
LEMMA TrimDotted ==
  ASSUME NEW S, NEW text \in Seq(S), NEW set, NEW e \in S, e \notin set
  PROVE  TrimEnd(<<e>> \o text, set) = <<e>> \o TrimEnd(text, set)
<1> DEFINE longer == <<e>> \o text
<1>1. PICK n \in 0..Len(text) : IsTrimmed(text, set, n)
  BY TrimmedExists
<1>2. longer \in Seq(S) /\ Len(longer) = Len(text) + 1 /\ longer[1] = e
      /\ \A i \in 1..Len(text) : longer[i + 1] = text[i]
  OBVIOUS
<1>3. IsTrimmed(longer, set, n + 1)
  <2>1. \A i \in ((n + 1) + 1)..Len(longer) : longer[i] \in set
    <3> SUFFICES ASSUME NEW i \in ((n + 1) + 1)..Len(longer) PROVE longer[i] \in set
      OBVIOUS
    <3>1. i - 1 \in (n + 1)..Len(text) /\ (i - 1) + 1 = i
      BY <1>2
    <3> QED BY <1>1, <1>2, <3>1 DEF IsTrimmed
  <2>2. longer[n + 1] \notin set
    BY <1>1, <1>2 DEF IsTrimmed
  <2> QED BY <1>1, <1>2, <2>1, <2>2 DEF IsTrimmed
<1>4. SubSeq(longer, 1, n + 1) = <<e>> \o SubSeq(text, 1, n)
  BY <1>2
<1> QED BY <1>1, <1>2, <1>3, <1>4, TrimEndIs

\* Trimming the end does not change what a text begins with.
LEMMA TrimHead ==
  ASSUME NEW S, NEW text \in Seq(S), NEW set, NEW e, e \notin set
  PROVE  IsPrefix(<<e>>, TrimEnd(text, set)) <=> IsPrefix(<<e>>, text)
<1>1. PICK n \in 0..Len(text) : IsTrimmed(text, set, n)
  BY TrimmedExists
<1>2. TrimEnd(text, set) = SubSeq(text, 1, n)
  BY <1>1, TrimEndIs
<1>3. ASSUME NEW t \in Seq(S) PROVE IsPrefix(<<e>>, t) <=> Len(t) >= 1 /\ t[1] = e
  BY DEF IsPrefix
<1>4. SubSeq(text, 1, n) \in Seq(S) /\ Len(SubSeq(text, 1, n)) = n /\ (n >= 1 => SubSeq(text, 1, n)[1] = text[1])
  OBVIOUS
<1>5. Len(text) >= 1 /\ text[1] = e => n >= 1
  BY <1>1 DEF IsTrimmed
<1>6. IsPrefix(<<e>>, TrimEnd(text, set)) <=> n >= 1 /\ text[1] = e
  BY <1>2, <1>3, <1>4
<1>7. IsPrefix(<<e>>, text) <=> Len(text) >= 1 /\ text[1] = e
  BY <1>3
<1> QED BY <1>5, <1>6, <1>7

-----------------------------------------------------------------------------
(* A body on its way. *)

\* Two symbols are a text of two.
LEMMA Pair ==
  ASSUME NEW a, NEW b
  PROVE  <<a>> \o <<b>> = <<a, b>>
<1>1. <<a>> \in Seq({a, b}) /\ b \in {a, b}
  OBVIOUS
<1>2. Append(<<a>>, b) = <<a>> \o <<b>>
  BY <1>1, AppendIsConcat, Zenon
<1>3. Append(<<a>>, b) = <<a, b>>
  <2> DEFINE s == Append(<<a>>, b)
             t == <<a, b>>
  <2>1. s \in Seq({a, b}) /\ Len(s) = 2 /\ s[1] = a /\ s[2] = b
    BY <1>1, AppendProperties
  <2>2. t \in Seq({a, b}) /\ Len(t) = 2 /\ t[1] = a /\ t[2] = b
    OBVIOUS
  <2> HIDE DEF s, t
  <2>3. \A i \in 1..Len(s) : s[i] = t[i]
    BY <2>1, <2>2
  <2>4. s = t
    BY <2>1, <2>2, <2>3, SeqEqual
  <2> QED BY <2>4 DEF s, t
<1> QED BY <1>2, <1>3, Zenon

\* A part of one element.
LEMMA Single ==
  ASSUME NEW S, NEW s \in Seq(S), NEW m \in 1..Len(s)
  PROVE  SubSeq(s, m, m) = << s[m] >>
<1>1. s[m] \in S /\ m \in Int
  OBVIOUS
<1>2. SubSeq(s, m, m) = << s[m] >> \o SubSeq(s, m + 1, m)
  BY SubSeqRecursiveFirst
<1>3. SubSeq(s, m + 1, m) = <<>>
  BY <1>1, SubSeqEmpty
<1>4. << s[m] >> \in Seq(S)
  BY <1>1
<1>5. << s[m] >> \o <<>> = << s[m] >>
  BY <1>4, ConcatEmptySeq, Zenon
<1> QED BY <1>2, <1>3, <1>5, Zenon

\* str::lines gives texts without LF.
LEMMA LinesType ==
  ASSUME NEW S, NEW text \in Seq(S)
  PROVE  LinesOf(text) \in Seq(TextsOf(S \ {"LF"}))
<1> DEFINE U == TextsOf(S \ {"LF"})
           pieces == Split(text, "LF")
           n == Len(pieces)
           ended == [i \in 1..(n - 1) |->
                       IF IsSuffix(<<"CR">>, pieces[i]) THEN Front(pieces[i]) ELSE pieces[i]]
<1>1. pieces \in Seq(U) /\ pieces # <<>>
  BY SplitType DEF Pieces
<1>2. ASSUME NEW piece \in U PROVE Front(piece) \in U
  BY DEF TextsOf, Front
<1> HIDE DEF U, pieces
<1>3. n \in Nat \ {0} /\ \A i \in 1..n : pieces[i] \in U
  BY <1>1, EmptySeq
<1>4. ended \in Seq(U)
  BY <1>2, <1>3
<1>5. Last(pieces) \in U
  BY <1>3 DEF Last
<1>6. Append(ended, Last(pieces)) \in Seq(U)
  <2> HIDE DEF ended
  <2> QED BY <1>4, <1>5
<1>7. LinesOf(text) = IF Last(pieces) = <<>> THEN ended ELSE Append(ended, Last(pieces))
  BY DEF LinesOf, pieces
<1> HIDE DEF ended
<1> QED BY <1>4, <1>6, <1>7 DEF U

\* The symbols that the transfer adds.
WireSymbols(S) == "." \in S /\ "CR" \in S /\ "LF" \in S

\* A stuffed line is a text.
LEMMA StuffType ==
  ASSUME NEW S, "." \in S, NEW line \in Seq(S)
  PROVE  Stuff(line) \in Seq(S)
<1>1. <<".">> \o line \in Seq(S)
  OBVIOUS
<1> QED BY <1>1, Zenon DEF Stuff

\* A line that is stuffed, ended and trimmed on arrival is not the lone dot, and unstuffed it is
\* the line, short of CRs at its end (client.rs:364-426, session.rs:255-285).
LEMMA LineSurvives ==
  ASSUME NEW S, WireSymbols(S), NEW line \in Seq(S)
  PROVE  LET arrived == TrimEnd(Stuff(line) \o <<"CR">>, {"CR"}) IN
         arrived # <<".">> /\ Unstuffed(arrived) = TrimEnd(line, {"CR"})
<1> DEFINE short == TrimEnd(line, {"CR"})
           arrived == TrimEnd(Stuff(line) \o <<"CR">>, {"CR"})
<1>1. Stuff(line) \in Seq(S)
  BY StuffType DEF WireSymbols
<1>2. arrived = TrimEnd(Stuff(line), {"CR"})
  <2>1. "CR" \in {"CR"} /\ "CR" \in S
    BY DEF WireSymbols
  <2> HIDE DEF arrived
  <2> QED BY <1>1, <2>1, TrimMore DEF arrived
<1>3. short \in Seq(S) /\ (IsPrefix(<<".">>, short) <=> IsPrefix(<<".">>, line))
  BY TrimType, TrimHead
<1>4. \A t \in Seq(S) : IsPrefix(<<".">>, t) <=> Len(t) >= 1 /\ t[1] = "."
  BY DEF IsPrefix
<1>5. \A t \in Seq(S) : IsPrefix(<<".", ".">>, t) => Len(t) >= 2 /\ t[1] = "."
  BY DEF IsPrefix
<1> HIDE DEF short, arrived
<1>6. CASE IsPrefix(<<".">>, line)
  <2>1. Stuff(line) = <<".">> \o line
    BY <1>6 DEF Stuff
  <2>2. arrived = <<".">> \o short
    <3>1. "." \in S /\ "." \notin {"CR"}
      BY DEF WireSymbols
    <3> QED BY <1>2, <2>1, <3>1, TrimDotted DEF short
  <2>3. Len(short) >= 1 /\ short[1] = "."
    BY <1>3, <1>4, <1>6
  <2>4. Len(arrived) >= 2 /\ arrived[1] = "." /\ arrived[2] = "." /\ arrived \in Seq(S)
    BY <1>3, <2>2, <2>3
  <2>5. arrived # <<".">>
    BY <2>4
  <2>6. IsPrefix(<<".", ".">>, arrived)
    BY <2>4 DEF IsPrefix
  <2>7. Tail(arrived) = short
    BY <1>3, <2>2
  <2> QED BY <2>5, <2>6, <2>7 DEF Unstuffed, arrived, short
<1>7. CASE ~ IsPrefix(<<".">>, line)
  <2>1. arrived = short
    BY <1>2, <1>7 DEF Stuff, short
  <2>2. ~ IsPrefix(<<".", ".">>, short)
    BY <1>3, <1>4, <1>5, <1>7
  <2>3. short # <<".">>
    BY <1>3, <1>4, <1>7
  <2> QED BY <2>1, <2>2, <2>3 DEF Unstuffed, arrived, short
<1> QED BY <1>6, <1>7

\* The lines on the wire, and the dot behind them.
LEMMA WirePieces ==
  ASSUME NEW S, WireSymbols(S), NEW body \in Seq(S)
  PROVE  LET sent == [i \in DOMAIN LinesOf(body) |-> Stuff(LinesOf(body)[i]) \o <<"CR">>] IN
         /\ sent \in Seq(TextsOf(S \ {"LF"}))
         /\ Split(SentBody(body), "LF") = Append(Append(sent, <<".", "CR">>), <<>>)
<1> DEFINE T == S \ {"LF"}
           lines == LinesOf(body)
           sent == [i \in DOMAIN lines |-> Stuff(lines[i]) \o <<"CR">>]
           text == FlattenSeq(Ended(sent, "LF"))
           stuffed == [i \in DOMAIN lines |-> Stuff(lines[i])]
<1>0. "." \in T /\ "CR" \in T /\ "LF" \in S /\ TextsOf(T) \subseteq TextsOf(S)
  BY DEF WireSymbols, TextsOf
<1>1. lines \in Seq(TextsOf(T))
  BY LinesType
<1>2. ASSUME NEW line \in TextsOf(T)
      PROVE  /\ Stuff(line) \o <<"CR">> \in TextsOf(T)
             /\ Stuff(line) \o CRLF = (Stuff(line) \o <<"CR">>) \o <<"LF">>
  <2> HIDE DEF T
  <2> DEFINE stuff == Stuff(line)
  <2>1. stuff \in Seq(T)
    BY <1>0, StuffType DEF TextsOf
  <2> HIDE DEF stuff
  <2>2. stuff \o <<"CR">> \in Seq(T)
    BY <1>0, <2>1
  <2>3. stuff \o <<"CR", "LF">> = (stuff \o <<"CR">>) \o <<"LF">>
    BY <2>1
  <2> QED BY <2>2, <2>3 DEF stuff, TextsOf, CRLF
<1> HIDE DEF lines
<1> DEFINE N == Len(lines)
<1>a. DOMAIN lines = 1..N /\ N \in Nat /\ \A i \in 1..N : lines[i] \in TextsOf(T)
  BY <1>1
<1>3. sent \in Seq(TextsOf(T))
  <2> DEFINE line(i) == Stuff(lines[i]) \o <<"CR">>
             U == TextsOf(T)
  <2>1. \A i \in 1..N : line(i) \in U
    BY <1>2, <1>a
  <2>2. sent = [i \in 1..N |-> line(i)]
    BY <1>a
  <2> HIDE DEF line, U, N, sent
  <2>3. [i \in 1..N |-> line(i)] \in Seq(U)
    BY <1>a, <2>1
  <2> QED BY <2>2, <2>3 DEF U
<1>4. WithCrlf(stuffed) = text
  <2> HIDE DEF N
  <2>1. DOMAIN stuffed = 1..N /\ DOMAIN sent = 1..N
    BY <1>a
  <2>2. \A i \in 1..N : stuffed[i] \o CRLF = sent[i] \o <<"LF">>
    BY <1>2, <1>a
  <2> HIDE DEF stuffed, sent
  <2>3. [i \in DOMAIN stuffed |-> stuffed[i] \o CRLF] = [i \in DOMAIN sent |-> sent[i] \o <<"LF">>]
    BY <2>1, <2>2
  <2> QED BY <2>3 DEF WithCrlf, Ended
<1>5. SentBody(body) = text \o <<".">> \o CRLF
  BY <1>4 DEF SentBody, lines
<1>6. Split(text, "LF") = Append(sent, <<>>)
  <2> HIDE DEF sent
  <2> QED BY <1>0, <1>3, SplitLines
<1>7. text \in Seq(S)
  <2> HIDE DEF sent
  <2>1. sent \in Seq(TextsOf(S))
    BY <1>0, <1>3, SeqMonotonic
  <2>2. Ended(sent, "LF") \in Seq(TextsOf(S))
    <3>1. <<>> \in TextsOf(S)
      BY DEF TextsOf
    <3> QED BY <1>0, <2>1, <3>1, EndedIs
  <2> QED BY <2>2, FlattenType DEF TextsOf
<1> HIDE DEF text
<1>8. text \o <<".">> \o CRLF = text \o (<<".", "CR">> \o <<"LF">>)
  BY <1>7 DEF CRLF
<1>9. Ends(text, "LF", sent, <<".", "CR">>)
  <2> DEFINE dot == <<".", "CR">>
  <2>1. dot \in TextsOf(T)
    BY <1>0 DEF TextsOf
  <2> HIDE DEF sent, dot
  <2>2. Ends(text, "LF", sent, dot)
    BY <1>0, <1>3, <1>7, <2>1, SplitEnded
  <2> QED BY <2>2 DEF dot
<1>10. Split(SentBody(body), "LF") = Append(Append(sent, <<".", "CR">>), <<>>)
  <2> HIDE DEF sent
  <2> QED BY <1>5, <1>6, <1>8, <1>9 DEF Ends
<1> QED BY <1>3, <1>10 DEF lines

\* send_body and feed_data_line together (client.rs:364-426, session.rs:255-285): the lines arrive,
\* the lone dot ends them, and nothing is left over for a command.
LEMMA BodyArrives ==
  ASSUME NEW S, WireSymbols(S), NEW body \in Seq(S)
  PROVE  ReceivedBody(SentBody(body)) =
           [lines |-> [i \in DOMAIN LinesOf(body) |-> TrimEnd(LinesOf(body)[i], {"CR"})],
            ended |-> TRUE, rest |-> <<>>]
<1> DEFINE T == S \ {"LF"}
           lines == LinesOf(body)
           N == Len(lines)
           sent == [i \in DOMAIN lines |-> Stuff(lines[i]) \o <<"CR">>]
           pieces == Split(SentBody(body), "LF")
           trimmed == [i \in 1..(Len(pieces) - 1) |-> TrimEnd(pieces[i], {"CR"})]
           at == {Len(pieces)} \cup {i \in DOMAIN trimmed : trimmed[i] = <<".">>}
           end == Min(at)
<1>1. lines \in Seq(TextsOf(T)) /\ N \in Nat /\ DOMAIN lines = 1..N
  BY LinesType
<1>2. sent \in Seq(TextsOf(T)) /\ pieces = Append(Append(sent, <<".", "CR">>), <<>>)
  BY WirePieces
<1>3. /\ pieces \in Seq(TextsOf(T)) /\ Len(pieces) = N + 2
      /\ \A i \in 1..N : pieces[i] = Stuff(lines[i]) \o <<"CR">>
      /\ pieces[N + 1] = <<".", "CR">> /\ pieces[N + 2] = <<>>
  <2> DEFINE most == Append(sent, <<".", "CR">>)
             U == TextsOf(T)
  <2>1. <<".", "CR">> \in U /\ <<>> \in U
    BY DEF TextsOf, WireSymbols
  <2>2. Len(sent) = N /\ \A i \in 1..N : sent[i] = Stuff(lines[i]) \o <<"CR">>
    BY <1>1
  <2> HIDE DEF U, sent, pieces, lines, N
  <2>3. /\ most \in Seq(U) /\ Len(most) = N + 1 /\ most[N + 1] = <<".", "CR">>
        /\ \A i \in 1..N : most[i] = sent[i]
    BY <1>2, <2>1, <2>2, AppendProperties DEF U
  <2> HIDE DEF most
  <2>4. /\ pieces \in Seq(U) /\ Len(pieces) = N + 2 /\ pieces[N + 2] = <<>>
        /\ \A i \in 1..(N + 1) : pieces[i] = most[i]
    BY <1>1, <1>2, <2>1, <2>3, AppendProperties DEF most
  <2>5. \A i \in 1..N : i \in 1..(N + 1)
    BY <1>1
  <2>6. \A i \in 1..N : pieces[i] = Stuff(lines[i]) \o <<"CR">>
    BY <2>2, <2>3, <2>4, <2>5
  <2>7. N + 1 \in 1..(N + 1)
    BY <1>1
  <2>8. pieces[N + 1] = <<".", "CR">>
    BY <2>3, <2>4, <2>7
  <2> QED BY <2>4, <2>6, <2>8 DEF U
<1> HIDE DEF pieces, lines
<1>4. \A i \in 1..N : trimmed[i] # <<".">> /\ Unstuffed(trimmed[i]) = TrimEnd(lines[i], {"CR"})
  <2> SUFFICES ASSUME NEW i \in 1..N
               PROVE  trimmed[i] # <<".">> /\ Unstuffed(trimmed[i]) = TrimEnd(lines[i], {"CR"})
    OBVIOUS
  <2>1. lines[i] \in Seq(S)
    <3>1. lines[i] \in TextsOf(T)
      BY <1>1
    <3> QED BY <3>1 DEF TextsOf
  <2>2. trimmed[i] = TrimEnd(Stuff(lines[i]) \o <<"CR">>, {"CR"})
    <3>1. i \in 1..(Len(pieces) - 1) /\ pieces[i] = Stuff(lines[i]) \o <<"CR">>
      BY <1>1, <1>3
    <3> HIDE DEF N
    <3> QED BY <3>1
  <2> HIDE DEF trimmed
  <2> QED BY <2>1, <2>2, LineSurvives
<1>5. trimmed[N + 1] = <<".">>
  <2>1. TrimEnd(<<".">> \o <<"CR">>, {"CR"}) = TrimEnd(<<".">>, {"CR"})
    <3>1. <<".">> \in Seq(S) /\ "CR" \in {"CR"} /\ "CR" \in S
      BY DEF WireSymbols
    <3> QED BY <3>1, TrimMore
  <2>2. IsTrimmed(<<".">>, {"CR"}, 1)
    BY DEF IsTrimmed
  <2>3. TrimEnd(<<".">>, {"CR"}) = SubSeq(<<".">>, 1, 1)
    <3>1. <<".">> \in Seq(S)
      BY DEF WireSymbols
    <3> QED BY <2>2, <3>1, TrimEndIs
  <2>4. SubSeq(<<".">>, 1, 1) = <<".">> /\ <<".">> \o <<"CR">> = <<".", "CR">>
    <3>1. <<".">> \in Seq({"."}) /\ Len(<<".">>) = 1
      OBVIOUS
    <3>2. SubSeq(<<".">>, 1, 1) = <<".">>
      BY <3>1, SubSeqFull
    <3> QED BY <3>2, Pair
  <2>5. trimmed[N + 1] = TrimEnd(<<".", "CR">>, {"CR"})
    <3>1. N + 1 \in 1..(Len(pieces) - 1) /\ pieces[N + 1] = <<".", "CR">>
      BY <1>1, <1>3
    <3> HIDE DEF N
    <3> QED BY <3>1
  <2> HIDE DEF trimmed
  <2> QED BY <2>1, <2>3, <2>4, <2>5
<1>6. at = {N + 1, N + 2}
  <2>1. DOMAIN trimmed = 1..(N + 1)
    BY <1>1, <1>3
  <2> HIDE DEF trimmed
  <2> HIDE DEF N
  <2>2. \A i \in 1..(N + 1) : trimmed[i] = <<".">> <=> i = N + 1
    <3> SUFFICES ASSUME NEW i \in 1..(N + 1) PROVE trimmed[i] = <<".">> <=> i = N + 1
      OBVIOUS
    <3>1. CASE i = N + 1
      BY <1>5, <3>1
    <3>2. CASE i # N + 1
      <4>1. i \in 1..N
        BY <1>1, <3>2
      <4> QED BY <1>4, <3>2, <4>1
    <3> QED BY <3>1, <3>2
  <2>3. {i \in 1..(N + 1) : trimmed[i] = <<".">>} = {N + 1}
    BY <1>1, <2>2
  <2> QED BY <1>3, <2>1, <2>3
<1>7. end = N + 1
  <2> HIDE DEF at
  <2>1. end = CHOOSE x \in at : \A y \in at : x <= y
    BY DEF Min
  <2>2. N + 1 \in at /\ \A y \in at : N + 1 <= y
    BY <1>1, <1>6
  <2>3. end \in at /\ \A y \in at : end <= y
    BY <2>1, <2>2
  <2> HIDE DEF end
  <2> QED BY <1>1, <1>6, <2>2, <2>3
<1>8. FlattenSeq(SubSeq(pieces, end + 1, Len(pieces))) = <<>>
  <2>1. SubSeq(pieces, N + 2, N + 2) = << <<>> >>
    <3> HIDE DEF N
    <3>1. N + 2 \in 1..Len(pieces)
      BY <1>1, <1>3
    <3> QED BY <1>3, <3>1, Single
  <2>2. <<>> \in TextsOf(S) /\ <<>> \in Seq(TextsOf(S))
    BY DEF TextsOf
  <2>3. FlattenSeq(Append(<<>>, <<>>)) = FlattenSeq(<<>>) \o <<>>
    BY <2>2, FlattenAppend
  <2>4. Append(<<>>, <<>>) = << <<>> >> /\ <<>> \o <<>> = <<>>
    OBVIOUS
  <2>5. (N + 1) + 1 = N + 2
    BY <1>1
  <2> HIDE DEF end
  <2> QED BY <1>3, <1>7, <2>1, <2>3, <2>4, <2>5, FlattenEmpty
<1>9. ReceivedBody(SentBody(body)) =
        [lines |-> [i \in 1..(end - 1) |-> Unstuffed(trimmed[i])],
         ended |-> end < Len(pieces),
         rest  |-> FlattenSeq(SubSeq(pieces, end + 1, Len(pieces)))]
  BY DEF ReceivedBody, pieces
<1>10. [i \in 1..(end - 1) |-> Unstuffed(trimmed[i])] = [i \in DOMAIN lines |-> TrimEnd(lines[i], {"CR"})]
  <2> HIDE DEF end, trimmed
  <2>1. end - 1 = N
    BY <1>1, <1>7
  <2> QED BY <1>1, <1>4, <2>1
<1>11. end < Len(pieces)
  <2> HIDE DEF end
  <2> QED BY <1>1, <1>3, <1>7
<1> HIDE DEF end, trimmed
<1> QED BY <1>8, <1>9, <1>10, <1>11 DEF lines

\* Whatever the body (client.rs:364-426, session.rs:255-285): the next server takes in its lines,
\* short of CRs at their ends, and nothing of it for a command.
THEOREM TransferCorrect == Calls => []BodySurvives
<1>1. InitCalls => BodySurvives
  BY DEF InitCalls, Idle, BodySurvives
<1>2. BodySurvives /\ [NextCall]_call => BodySurvives'
  <2>1. CASE UNCHANGED call
    BY <2>1 DEF BodySurvives
  <2>2. CASE NextCall /\ call'.of # "body"
    BY <2>2 DEF BodySurvives
  <2>3. CASE TransferBody
    <3>1. PICK body \in Bodies : Called("body", body, ReceivedBody(SentBody(body)))
      BY <2>3 DEF TransferBody
    <3> DEFINE S == Range(body) \cup {".", "CR", "LF"}
    <3>2. body \in Seq(S)
      <4>1. body \in Seq(Range(body)) /\ Range(body) \subseteq S
        BY BodiesAreTexts
      <4> QED BY <4>1, SeqMonotonic
    <3>3. WireSymbols(S)
      BY DEF WireSymbols
    <3> HIDE DEF S
    <3>4. ReceivedBody(SentBody(body)) =
            [lines |-> [i \in DOMAIN LinesOf(body) |-> TrimEnd(LinesOf(body)[i], {"CR"})],
             ended |-> TRUE, rest |-> <<>>]
      BY <3>2, <3>3, BodyArrives
    <3> QED BY <3>1, <3>4 DEF Called, BodySurvives
  <2> QED BY <2>1, <2>2, <2>3, CallNamed
<1> QED BY <1>1, <1>2, PTL DEF Calls

-----------------------------------------------------------------------------
(* The tags of a DMARC record. *)

DmarcAlignments == {"Relaxed", "Strict", "bad"}
ParsedRecords ==
  [ok : BOOLEAN, policy : Policies \cup {"bad"}, subdomain : Policies \cup {"unset", "bad"},
   dkim : DmarcAlignments, spf : DmarcAlignments, percentage : 0..255]

\* The last tag with a key, of the first n; 0 for none.
IsLastTag(tags, key, n, k) ==
  /\ k \in 0..n
  /\ k # 0 => tags[k].key = key
  /\ \A i \in (k + 1)..n : tags[i].key # key

LastTag(tags, key) == Max({0} \cup {i \in DOMAIN tags : tags[i].key = key})

\* The last tag with a key is the one behind which there is none.
LEMMA LastTagIs ==
  ASSUME NEW T, NEW tags \in Seq(T), NEW key
  PROVE  IsLastTag(tags, key, Len(tags), LastTag(tags, key))
<1> DEFINE N == Len(tags)
           found == {0} \cup {i \in DOMAIN tags : tags[i].key = key}
           free == {k \in 0..N : \A i \in (k + 1)..N : tags[i].key # key}
<1>1. N \in Nat /\ DOMAIN tags = 1..N
  OBVIOUS
<1>2. PICK k \in free : \A m \in free : k <= m
  <2>1. N \in free /\ free \subseteq Nat
    BY <1>1
  <2> HIDE DEF free
  <2> QED BY <2>1, LeastElement
<1>3. k = 0 \/ tags[k].key = key
  <2> SUFFICES ASSUME k # 0, tags[k].key # key PROVE FALSE
    OBVIOUS
  <2>1. k - 1 \in 0..N
    BY <1>1
  <2>2. \A i \in ((k - 1) + 1)..N : i = k \/ i \in (k + 1)..N
    BY <1>1
  <2>3. k - 1 \in free /\ k \in Int
    BY <2>1, <2>2
  <2> HIDE DEF free
  <2> QED BY <1>2, <2>3
<1>4. k \in found /\ \A m \in found : k >= m
  <2>1. k \in found
    BY <1>1, <1>3
  <2>2. \A m \in 1..N : tags[m].key = key => k >= m
    BY <1>1
  <2>3. k >= 0
    BY <1>1
  <2> QED BY <1>1, <2>1, <2>2, <2>3
<1>5. found \subseteq Int
  BY <1>1
<1>6. Max(found) = k
  <2> HIDE DEF found
  <2>1. Max(found) \in found /\ \A m \in found : Max(found) >= m
    BY <1>4 DEF Max
  <2> DEFINE most == Max(found)
  <2>2. most \in found /\ most >= k /\ k >= most
    BY <1>4, <2>1
  <2>3. most \in Int /\ k \in Int
    BY <1>4, <1>5, <2>1
  <2> HIDE DEF most
  <2>4. most = k
    BY <2>2, <2>3
  <2> QED BY <2>4 DEF most
<1>7. LastTag(tags, key) = k
  BY <1>6 DEF LastTag
<1>8. IsLastTag(tags, key, N, k)
  BY <1>3 DEF IsLastTag
<1> QED BY <1>7, <1>8

BadTag(tag) ==
  \/ tag.key \in {"p", "sp"} /\ tag.value \notin Policies
  \/ tag.key \in {"adkim", "aspf"} /\ tag.value \notin {"r", "relaxed", "s", "strict"}

\* What the first n tags say.
Means(record, tags, n) ==
  /\ record.ok <=> /\ tags[1].key = "v=DMARC1" /\ ~ tags[1].indented
                   /\ \A i \in 1..n : ~ BadTag(tags[i])
  /\ record.ok => \A k \in 0..n :
       /\ IsLastTag(tags, "p", n, k) => record.policy = IF k = 0 THEN "none" ELSE tags[k].value
       /\ IsLastTag(tags, "sp", n, k) => record.subdomain = IF k = 0 THEN "unset" ELSE tags[k].value
       /\ IsLastTag(tags, "adkim", n, k) =>
            record.dkim = IF k = 0 THEN "Relaxed" ELSE ParseAlignment(tags[k].value)

\* parse_tag keeps the record what it is.
LEMMA TagType ==
  ASSUME NEW record \in ParsedRecords, NEW tag
  PROVE  ParseTag(record, tag) \in ParsedRecords
<1>1. /\ ParsePolicy(tag.value) \in Policies \cup {"bad"}
      /\ ParseAlignment(tag.value) \in DmarcAlignments
      /\ ParsePercentage(tag.number) \in 0..255
  BY DEF ParsePolicy, ParseAlignment, ParsePercentage, DmarcAlignments
<1> QED BY <1>1 DEF ParseTag, ParsedRecords

\* One tag more (dmarc.rs:209-298): the record says what its tags said so far and this one.
LEMMA TagMeans ==
  ASSUME NEW T, NEW tags \in Seq(T), NEW n \in Nat, n + 1 <= Len(tags),
         NEW record \in ParsedRecords, Means(record, tags, n)
  PROVE  Means(ParseTag(record, tags[n + 1]), tags, n + 1)
<1> DEFINE tag == tags[n + 1]
           next == ParseTag(record, tag)
<1>1. record.ok \in BOOLEAN /\ next.ok \in BOOLEAN
  BY TagType DEF ParsedRecords
<1>2. next.ok <=> record.ok /\ ~ BadTag(tag)
  BY DEF ParseTag, BadTag, ParsedRecords, ParsePolicy, ParseAlignment, Policies
<1>3. (\A i \in 1..(n + 1) : ~ BadTag(tags[i])) <=> (\A i \in 1..n : ~ BadTag(tags[i])) /\ ~ BadTag(tag)
  <2>1. \A i : i \in 1..(n + 1) <=> i \in 1..n \/ i = n + 1
    OBVIOUS
  <2> QED BY <2>1
<1>4. next.ok <=> /\ tags[1].key = "v=DMARC1" /\ ~ tags[1].indented
                  /\ \A i \in 1..(n + 1) : ~ BadTag(tags[i])
  BY <1>1, <1>2, <1>3 DEF Means
<1>5. ASSUME next.ok
      PROVE  /\ next.policy = IF tag.key = "p" THEN tag.value ELSE record.policy
             /\ next.subdomain = IF tag.key = "sp" THEN tag.value ELSE record.subdomain
             /\ next.dkim = IF tag.key = "adkim" THEN ParseAlignment(tag.value) ELSE record.dkim
  <2>1. record.ok /\ ~ BadTag(tag)
    BY <1>2, <1>5
  <2> QED BY <2>1 DEF ParseTag, BadTag, ParsedRecords, ParsePolicy, Policies
<1>6. ASSUME NEW key, NEW k \in 0..(n + 1), IsLastTag(tags, key, n + 1, k)
      PROVE  /\ k = n + 1 => tag.key = key
             /\ k # n + 1 => k \in 0..n /\ IsLastTag(tags, key, n, k) /\ tag.key # key
  BY <1>6 DEF IsLastTag
<1> HIDE DEF next, tag
<1>7. ASSUME next.ok, NEW k \in 0..(n + 1)
      PROVE  /\ IsLastTag(tags, "p", n + 1, k) => next.policy = IF k = 0 THEN "none" ELSE tags[k].value
             /\ IsLastTag(tags, "sp", n + 1, k) => next.subdomain = IF k = 0 THEN "unset" ELSE tags[k].value
             /\ IsLastTag(tags, "adkim", n + 1, k) =>
                  next.dkim = IF k = 0 THEN "Relaxed" ELSE ParseAlignment(tags[k].value)
  <2>1. record.ok
    BY <1>1, <1>2, <1>7
  <2>2. CASE k = n + 1
    <3>1. k # 0 /\ tags[k] = tag
      BY <2>2 DEF tag
    <3> QED BY <1>5, <1>6, <1>7, <2>2, <3>1
  <2>3. CASE k # n + 1
    BY <1>5, <1>6, <1>7, <2>1, <2>3 DEF Means
  <2> QED BY <2>2, <2>3
<1> QED BY <1>4, <1>7 DEF Means, next, tag

StartRecord(tags) == [DefaultRecord EXCEPT !.ok = Head(tags).key = "v=DMARC1" /\ ~ Head(tags).indented]
Parsing(tags) == [n \in 1..Len(tags) |-> [r \in ParsedRecords |-> ParseTag(r, tags[n])]]

\* parse_record gives what the tags say, the last with each key, and fails for a bad one.
LEMMA ParseMeans ==
  ASSUME NEW T, NEW tags \in Seq(T), tags # <<>>
  PROVE  ParseDmarc(tags) \in ParsedRecords /\ Means(ParseDmarc(tags), tags, Len(tags))
<1> DEFINE N == Len(tags)
           start == StartRecord(tags)
           F == Parsing(tags)
           after == CHOOSE g : g = [n \in 0..N |-> IF n = 0 THEN start ELSE ParseTag(g[n - 1], tags[n])]
<1>1. start \in ParsedRecords /\ N \in Nat /\ Head(tags) = tags[1]
  <2>1. DefaultRecord \in ParsedRecords
    BY DEF DefaultRecord, ParsedRecords, Policies, DmarcAlignments
  <2> DEFINE good == Head(tags).key = "v=DMARC1" /\ ~ Head(tags).indented
  <2>2. good \in BOOLEAN
    BY Zenon
  <2> HIDE DEF good
  <2>3. [DefaultRecord EXCEPT !.ok = good] \in ParsedRecords
    BY <2>1, <2>2 DEF ParsedRecords
  <2> QED BY <2>3 DEF StartRecord, good
<1>2. F \in [1..N -> [ParsedRecords -> ParsedRecords]]
  BY TagType DEF Parsing
<1>3. PICK f \in [0..N -> ParsedRecords] : Steps(f, N, start, F)
  <2> HIDE DEF N, start, F
  <2> QED BY <1>1, <1>2, StepsExist
<1>4. f[0] = start /\ \A n \in 1..N : f[n] = ParseTag(f[n - 1], tags[n])
  <2>1. f[0] = start
    BY <1>3 DEF Steps
  <2>2. ASSUME NEW n \in 1..N PROVE f[n] = ParseTag(f[n - 1], tags[n])
    <3>1. n - 1 \in 0..N /\ f[n - 1] \in ParsedRecords
      BY <1>1
    <3>2. f[n] = F[n][f[n - 1]]
      BY <1>3 DEF Steps
    <3> QED BY <3>1, <3>2 DEF Parsing
  <2> QED BY <2>1, <2>2
<1>5. f = [n \in 0..N |-> IF n = 0 THEN start ELSE ParseTag(f[n - 1], tags[n])]
  <2> HIDE DEF N, start, F
  <2> QED BY <1>1, <1>4
<1>6. after = [n \in 0..N |-> IF n = 0 THEN start ELSE ParseTag(after[n - 1], tags[n])]
  <2>1. \E g : g = [n \in 0..N |-> IF n = 0 THEN start ELSE ParseTag(g[n - 1], tags[n])]
    BY <1>5
  <2> QED BY <2>1, Zenon
<1>7. ParseDmarc(tags) = after[N]
  BY DEF ParseDmarc, StartRecord
<1>8. after[N] = f[N]
  <2> DEFINE P == {n \in Nat : n <= N => after[n] = f[n]}
  <2> HIDE DEF after, start, N
  <2>1. 0 \in P
    BY <1>1, <1>5, <1>6
  <2>2. ASSUME NEW n \in Nat, n \in P PROVE n + 1 \in P
    <3>1. CASE n + 1 <= N
      <4>1. n + 1 \in 0..N /\ n + 1 # 0 /\ (n + 1) - 1 = n /\ after[n] = f[n]
        BY <1>1, <2>2, <3>1
      <4>2. /\ after[n + 1] = ParseTag(after[n], tags[n + 1])
            /\ f[n + 1] = ParseTag(f[n], tags[n + 1])
        BY <1>5, <1>6, <4>1
      <4> QED BY <4>1, <4>2
    <3>2. CASE ~ (n + 1 <= N)
      BY <3>2
    <3> QED BY <3>1, <3>2
  <2>3. Nat \subseteq P
    <3> HIDE DEF P
    <3> QED BY <2>1, <2>2, Induction
  <2> QED BY <1>1, <2>3
<1>9. Means(f[N], tags, N)
  <2> DEFINE P == {n \in Nat : n <= N => Means(f[n], tags, n)}
  <2>1. 0 \in P
    <3>1. Means(start, tags, 0)
      BY <1>1 DEF Means, StartRecord, DefaultRecord
    <3> QED BY <1>4, <3>1
  <2>2. ASSUME NEW n \in Nat, n \in P PROVE n + 1 \in P
    <3> SUFFICES ASSUME n + 1 <= N PROVE Means(f[n + 1], tags, n + 1)
      OBVIOUS
    <3>1. n \in 0..N /\ n + 1 \in 1..N /\ (n + 1) - 1 = n
      BY <1>1
    <3>2. f[n] \in ParsedRecords /\ Means(f[n], tags, n) /\ f[n + 1] = ParseTag(f[n], tags[n + 1])
      BY <1>1, <1>4, <2>2, <3>1
    <3> QED BY <3>2, TagMeans
  <2>3. Nat \subseteq P
    <3> HIDE DEF P
    <3> QED BY <2>1, <2>2, Induction
  <2> QED BY <1>1, <2>3
<1> QED BY <1>1, <1>7, <1>8, <1>9

-----------------------------------------------------------------------------
(* The labels of a domain. *)

\* The end of t is s.
EndsWith(s, t) ==
  Len(s) <= Len(t) /\ \A i \in 1..Len(s) : s[i] = t[(Len(t) - Len(s)) + i]

\* ends_with, symbol by symbol.
LEMMA SuffixIs ==
  ASSUME NEW S, NEW s \in Seq(S), NEW t \in Seq(S)
  PROVE  IsSuffix(s, t) <=> EndsWith(s, t)
<1> DEFINE m == Len(s)
           n == Len(t)
           rs == Reverse(s)
           rt == Reverse(t)
<1>1. m \in Nat /\ n \in Nat
  OBVIOUS
<1>2. /\ rs \in Seq(S) /\ Len(rs) = m /\ \A i \in 1..m : rs[i] = s[(m - i) + 1]
      /\ rt \in Seq(S) /\ Len(rt) = n /\ \A i \in 1..n : rt[i] = t[(n - i) + 1]
  BY DEF Reverse
<1> HIDE DEF m, n, rs, rt
<1>3. IsSuffix(s, t) <=> m <= n /\ SubSeq(rs, 1, m) = SubSeq(rt, 1, m)
  BY <1>2 DEF IsSuffix, IsPrefix, rs, rt
<1>4. ASSUME m <= n
      PROVE  SubSeq(rs, 1, m) = SubSeq(rt, 1, m) <=> \A i \in 1..m : rs[i] = rt[i]
  <2> DEFINE x == SubSeq(rs, 1, m)
             y == SubSeq(rt, 1, m)
  <2>1. x \in Seq(S) /\ y \in Seq(S) /\ Len(x) = m /\ Len(y) = m
        /\ \A i \in 1..m : x[i] = rs[i] /\ y[i] = rt[i]
    BY <1>1, <1>2, <1>4
  <2> HIDE DEF x, y
  <2>2. x = y <=> \A i \in 1..m : rs[i] = rt[i]
    BY <2>1, SeqEqual
  <2> QED BY <2>2 DEF x, y
<1>5. ASSUME m <= n
      PROVE  (\A i \in 1..m : rs[i] = rt[i]) <=> \A i \in 1..m : s[i] = t[(n - m) + i]
  <2>1. ASSUME \A i \in 1..m : rs[i] = rt[i], NEW i \in 1..m PROVE s[i] = t[(n - m) + i]
    <3>1. (m - i) + 1 \in 1..m /\ (m - i) + 1 \in 1..n
      BY <1>1, <1>5
    <3>2. rs[(m - i) + 1] = s[(m - ((m - i) + 1)) + 1] /\ rt[(m - i) + 1] = t[(n - ((m - i) + 1)) + 1]
      BY <1>2, <3>1
    <3>3. (m - ((m - i) + 1)) + 1 = i /\ (n - ((m - i) + 1)) + 1 = (n - m) + i
      BY <1>1
    <3> QED BY <2>1, <3>1, <3>2, <3>3
  <2>2. ASSUME \A i \in 1..m : s[i] = t[(n - m) + i], NEW i \in 1..m PROVE rs[i] = rt[i]
    <3>1. (m - i) + 1 \in 1..m /\ i \in 1..n
      BY <1>1, <1>5
    <3>2. s[(m - i) + 1] = t[(n - m) + ((m - i) + 1)]
      BY <2>2, <3>1
    <3>3. (n - m) + ((m - i) + 1) = (n - i) + 1
      BY <1>1
    <3> QED BY <1>2, <3>1, <3>2, <3>3
  <2> QED BY <2>1, <2>2
<1> QED BY <1>3, <1>4, <1>5 DEF EndsWith, m, n

\* The same, by what is before it.
LEMMA EndsWithIs ==
  ASSUME NEW S, NEW s \in Seq(S), NEW t \in Seq(S)
  PROVE  EndsWith(s, t) <=> \E u \in Seq(S) : t = u \o s
<1>1. ASSUME NEW u \in Seq(S), t = u \o s PROVE EndsWith(s, t)
  BY <1>1 DEF EndsWith
<1>2. ASSUME EndsWith(s, t) PROVE \E u \in Seq(S) : t = u \o s
  <2> DEFINE k == Len(t) - Len(s)
             u == SubSeq(t, 1, k)
  <2>1. k \in 0..Len(t) /\ Len(t) = k + Len(s) /\ Len(s) \in Nat
    BY <1>2 DEF EndsWith
  <2> HIDE DEF k
  <2>2. u \in Seq(S) /\ Len(u) = k /\ \A i \in 1..k : u[i] = t[i]
    BY <2>1
  <2> HIDE DEF u
  <2>3. /\ u \o s \in Seq(S) /\ Len(u \o s) = Len(t)
        /\ \A i \in 1..Len(t) : (u \o s)[i] = IF i <= k THEN u[i] ELSE s[i - k]
    BY <2>1, <2>2, ConcatProperties
  <2>4. \A i \in 1..Len(s) : s[i] = t[k + i]
    BY <1>2 DEF EndsWith, k
  <2>5. ASSUME NEW i \in 1..Len(t) PROVE (u \o s)[i] = t[i]
    <3>1. CASE i <= k
      BY <2>1, <2>2, <2>3, <3>1
    <3>2. CASE ~ (i <= k)
      <4>1. i - k \in 1..Len(s) /\ k + (i - k) = i
        BY <2>1, <3>2
      <4> QED BY <2>3, <2>4, <3>2, <4>1
    <3> QED BY <3>1, <3>2
  <2>6. u \o s = t
    BY <2>3, <2>5, SeqEqual
  <2> QED BY <2>2, <2>6
<1> QED BY <1>1, <1>2

\* Sequences that end alike have the same last element, and end alike without it.
LEMMA EndsAppend ==
  ASSUME NEW U, NEW s \in Seq(U), NEW t \in Seq(U), NEW c \in U, NEW d \in U,
         EndsWith(Append(s, c), Append(t, d))
  PROVE  c = d /\ EndsWith(s, t)
<1> DEFINE m == Len(s)
           n == Len(t)
           x == Append(s, c)
           y == Append(t, d)
<1>1. /\ m \in Nat /\ Len(x) = m + 1 /\ x[m + 1] = c /\ \A i \in 1..m : x[i] = s[i]
      /\ n \in Nat /\ Len(y) = n + 1 /\ y[n + 1] = d /\ \A i \in 1..n : y[i] = t[i]
  BY AppendProperties
<1> HIDE DEF m, n, x, y
<1>2. m + 1 <= n + 1 /\ \A i \in 1..(m + 1) : x[i] = y[((n + 1) - (m + 1)) + i]
  BY <1>1 DEF EndsWith, x, y
<1>3. (n + 1) - (m + 1) = n - m /\ m <= n
  BY <1>1, <1>2
<1>4. c = d
  <2>1. m + 1 \in 1..(m + 1) /\ (n - m) + (m + 1) = n + 1
    BY <1>1
  <2> QED BY <1>1, <1>2, <1>3, <2>1
<1>5. ASSUME NEW i \in 1..m PROVE s[i] = t[(n - m) + i]
  <2>1. i \in 1..(m + 1) /\ (n - m) + i \in 1..n
    BY <1>1, <1>3
  <2> QED BY <1>1, <1>2, <1>3, <2>1
<1> QED BY <1>3, <1>4, <1>5 DEF EndsWith, m, n

\* Both texts, with a symbol behind, are the same text.
SameWith(p, c, q, d) == p \o <<c>> = q \o <<d>>

\* A text and the symbol behind it are told apart.
LEMMA SameEnds ==
  ASSUME NEW T, NEW p \in Seq(T), NEW q \in Seq(T), NEW c \in T, NEW d \in T,
         SameWith(p, c, q, d)
  PROVE  p = q /\ c = d
<1>1. Append(p, c) = p \o <<c>>
  BY AppendIsConcat
<1>2. Append(q, d) = q \o <<d>>
  BY AppendIsConcat
<1>3. Append(p, c) = Append(q, d)
  BY <1>1, <1>2 DEF SameWith
<1> QED BY <1>3, AppendInjective

\* The same for pieces whose last ones were made longer by a symbol.
LEMMA EndsLonger ==
  ASSUME NEW T, NEW s \in Seq(TextsOf(T)), NEW t \in Seq(TextsOf(T)), s # <<>>, t # <<>>,
         NEW c \in T, NEW d \in T, EndsWith(Longer(s, <<c>>), Longer(t, <<d>>))
  PROVE  c = d /\ EndsWith(s, t)
<1> DEFINE m == Len(s)
           n == Len(t)
           x == Longer(s, <<c>>)
           y == Longer(t, <<d>>)
<1>1. <<c>> \in TextsOf(T) /\ <<d>> \in TextsOf(T)
  BY DEF TextsOf
<1>2. m \in Nat \ {0} /\ s[m] \in TextsOf(T) /\ n \in Nat \ {0} /\ t[n] \in TextsOf(T)
  BY LastPiece
<1>3. IsLonger(x, s, <<c>>) /\ IsLonger(y, t, <<d>>)
  BY <1>1, LongerIs
<1> HIDE DEF x, y
<1>4. /\ Len(x) = m /\ x[m] = s[m] \o <<c>> /\ \A i \in 1..m : i # m => x[i] = s[i]
      /\ Len(y) = n /\ y[n] = t[n] \o <<d>> /\ \A i \in 1..n : i # n => y[i] = t[i]
  <2>1. m \in 1..m /\ n \in 1..n
    BY <1>2
  <2>2. Len(x) = m /\ x[m] = s[m] \o <<c>> /\ \A i \in 1..m : i # m => x[i] = s[i]
    BY <1>3, <2>1 DEF IsLonger
  <2>3. Len(y) = n /\ y[n] = t[n] \o <<d>> /\ \A i \in 1..n : i # n => y[i] = t[i]
    BY <1>3, <2>1 DEF IsLonger
  <2> QED BY <2>2, <2>3
<1> HIDE DEF m, n
<1>5. m <= n /\ \A i \in 1..m : x[i] = y[(n - m) + i]
  BY <1>4 DEF EndsWith, x, y
<1>6. s[m] \o <<c>> = t[n] \o <<d>>
  <2>1. m \in 1..m /\ (n - m) + m = n
    BY <1>2
  <2> QED BY <1>4, <1>5, <2>1
<1>7. c = d /\ s[m] = t[n]
  <2> DEFINE p == s[m]
             q == t[n]
  <2>1. p \in Seq(T) /\ q \in Seq(T) /\ SameWith(p, c, q, d)
    BY <1>2, <1>6 DEF TextsOf, SameWith
  <2> HIDE DEF p, q
  <2>2. p = q /\ c = d
    BY <2>1, SameEnds
  <2> QED BY <2>2 DEF p, q
<1>8. ASSUME NEW i \in 1..m PROVE s[i] = t[(n - m) + i]
  <2>1. CASE i = m
    BY <1>2, <1>7, <2>1
  <2>2. CASE i # m
    <3>1. (n - m) + i \in 1..n /\ (n - m) + i # n
      BY <1>2, <1>5, <2>2
    <3> QED BY <1>4, <1>5, <2>2, <3>1
  <2> QED BY <2>1, <2>2
<1> QED BY <1>5, <1>7, <1>8 DEF EndsWith, m, n

\* A domain is another or below it.
SameOrBelow(S, from, domain) == domain = from \/ \E u \in Seq(S) : domain = u \o (<<".">> \o from)

\* A symbol behind both domains leaves one below the other.
LEMMA BelowAppend ==
  ASSUME NEW S, "." \in S, NEW g \in Seq(S), NEW b \in Seq(S), NEW e \in S, SameOrBelow(S, g, b)
  PROVE  SameOrBelow(S, Append(g, e), Append(b, e))
<1>1. CASE b = g
  BY <1>1 DEF SameOrBelow
<1>2. CASE \E u \in Seq(S) : b = u \o (<<".">> \o g)
  <2>1. PICK u \in Seq(S) : b = u \o (<<".">> \o g)
    BY <1>2
  <2>2. Append(u \o (<<".">> \o g), e) = u \o (<<".">> \o Append(g, e))
    <3>1. <<".">> \in Seq(S) /\ <<e>> \in Seq(S) /\ <<".">> \o g \in Seq(S)
      OBVIOUS
    <3>2. u \o (<<".">> \o g) \in Seq(S)
      BY <3>1
    <3>3. Append(u \o (<<".">> \o g), e) = (u \o (<<".">> \o g)) \o <<e>>
      BY <3>2, AppendIsConcat
    <3>4. (u \o (<<".">> \o g)) \o <<e>> = u \o ((<<".">> \o g) \o <<e>>)
      BY <3>1, ConcatAssociative
    <3>5. (<<".">> \o g) \o <<e>> = <<".">> \o (g \o <<e>>)
      BY <3>1, ConcatAssociative
    <3>6. g \o <<e>> = Append(g, e)
      BY AppendIsConcat
    <3> QED BY <3>3, <3>4, <3>5, <3>6
  <2> QED BY <2>1, <2>2 DEF SameOrBelow
<1> QED BY <1>1, <1>2 DEF SameOrBelow

\* What a symbol that is added to a text does to its pieces.
Continued(T, at, before, e, after) ==
  /\ before \in Seq(TextsOf(T)) /\ before # <<>>
  /\ e = at => after = Append(before, <<>>) /\ <<>> \in TextsOf(T)
  /\ e # at => e \in T /\ after = Longer(before, <<e>>) /\ after[Len(after)] # <<>>

\* str::split of a text with one symbol more, by its last piece.
LEMMA LastSymbol ==
  ASSUME NEW S, NEW at \in S, NEW text \in Seq(S), NEW e \in S
  PROVE  Continued(S \ {at}, at, Split(text, at), e, Split(Append(text, e), at))
<1> DEFINE T == S \ {at}
           before == Split(text, at)
           after == Split(Append(text, e), at)
<1>1. before \in Seq(TextsOf(T)) /\ before # <<>>
  BY SplitType DEF Pieces
<1>2. after = AddSymbol(before, e, at)
  BY SplitAppend
<1> HIDE DEF before, after
<1>3. CASE e = at
  BY <1>1, <1>2, <1>3 DEF AddSymbol, TextsOf, Continued, before, after
<1>4. CASE e # at
  <2>1. e \in T
    BY <1>4
  <2> HIDE DEF T
  <2>2. after = Longer(before, <<e>>) /\ <<e>> \in TextsOf(T)
    BY <1>1, <1>2, <1>4, <2>1, AddIsLonger
  <2>3. IsLonger(after, before, <<e>>)
    BY <1>1, <2>2, LongerIs
  <2>4. Len(before) \in 1..Len(before) /\ before[Len(before)] \in TextsOf(T)
    BY <1>1, LastPiece
  <2>5. after[Len(after)] = before[Len(before)] \o <<e>>
    BY <2>3, <2>4 DEF IsLonger
  <2>6. before[Len(before)] \o <<e>> # <<>>
    <3> DEFINE p == before[Len(before)]
    <3>1. p \in Seq(T)
      BY <2>4 DEF TextsOf
    <3> HIDE DEF p
    <3>2. Len(p \o <<e>>) = Len(p) + 1 /\ Len(p) \in Nat
      BY <2>1, <3>1
    <3>3. p \o <<e>> # <<>>
      BY <3>2
    <3> QED BY <3>3 DEF p
  <2> QED BY <1>1, <1>4, <2>1, <2>2, <2>5, <2>6 DEF Continued, T, before, after
<1> QED BY <1>3, <1>4

\* What is done at the end is done at the end of what stands behind.
AppendApart(q, v, e) == Append(q \o v, e) = q \o Append(v, e)
LongerApart(q, v, w) == Longer(q \o v, w) = q \o Longer(v, w)
AddApart(q, v, e, at) == AddSymbol(q \o v, e, at) = q \o AddSymbol(v, e, at)

\* Append is done at the end.
LEMMA AppendAfter ==
  ASSUME NEW U, NEW q \in Seq(U), NEW v \in Seq(U), NEW e \in U
  PROVE  AppendApart(q, v, e)
<1>1. <<e>> \in Seq(U) /\ q \o v \in Seq(U)
  OBVIOUS
<1>2. Append(q \o v, e) = (q \o v) \o <<e>>
  BY <1>1, AppendIsConcat
<1>3. Append(v, e) = v \o <<e>>
  BY AppendIsConcat
<1>4. (q \o v) \o <<e>> = q \o (v \o <<e>>)
  BY <1>1, ConcatAssociative
<1> QED BY <1>2, <1>3, <1>4 DEF AppendApart

\* The last piece is the last one of what stands behind.
LEMMA LongerAfter ==
  ASSUME NEW T, NEW q \in Seq(TextsOf(T)), NEW v \in Seq(TextsOf(T)), v # <<>>, NEW w \in TextsOf(T)
  PROVE  LongerApart(q, v, w)
<1> DEFINE U == TextsOf(T)
           k == Len(q)
           m == Len(v)
           x == q \o v
           y == Longer(v, w)
           z == q \o y
<1>1. y \in Seq(U) /\ IsLonger(y, v, w) /\ q \in Seq(U) /\ v \in Seq(U)
  BY LongerIs
<1>2. k \in Nat /\ m \in Nat \ {0}
  BY LastPiece
<1> HIDE DEF U, y
<1>3. /\ x \in Seq(U) /\ Len(x) = k + m
      /\ \A i \in 1..(k + m) : x[i] = IF i <= k THEN q[i] ELSE v[i - k]
  BY <1>1, ConcatProperties
<1>4. Len(y) = m /\ \A i \in 1..m : y[i] = IF i = m THEN v[i] \o w ELSE v[i]
  BY <1>1 DEF IsLonger
<1>5. /\ z \in Seq(U) /\ Len(z) = k + m
      /\ \A i \in 1..(k + m) : z[i] = IF i <= k THEN q[i] ELSE y[i - k]
  <2>1. /\ z \in Seq(U) /\ Len(z) = Len(q) + Len(y)
        /\ \A i \in 1..(Len(q) + Len(y)) : z[i] = IF i <= Len(q) THEN q[i] ELSE y[i - Len(q)]
    BY <1>1, ConcatProperties
  <2> HIDE DEF z
  <2> QED BY <1>4, <2>1
<1> HIDE DEF x, z, k, m
<1>6. x # <<>>
  BY <1>2, <1>3, EmptySeq
<1>7. ASSUME NEW i \in 1..(k + m) PROVE z[i] = IF i = k + m THEN x[i] \o w ELSE x[i]
  <2>1. CASE i <= k
    <3>1. i # k + m
      BY <1>2, <2>1
    <3> QED BY <1>3, <1>5, <2>1, <3>1
  <2>2. CASE ~ (i <= k)
    <3>1. i - k \in 1..m /\ (i - k = m <=> i = k + m)
      BY <1>2, <2>2
    <3> QED BY <1>3, <1>4, <1>5, <2>2, <3>1
  <2> QED BY <2>1, <2>2
<1>8. IsLonger(z, x, w)
  BY <1>3, <1>5, <1>7 DEF IsLonger
<1>9. Longer(x, w) \in Seq(U) /\ IsLonger(Longer(x, w), x, w)
  BY <1>3, <1>6, LongerIs DEF U
<1>10. Longer(x, w) = z
  BY <1>3, <1>5, <1>8, <1>9, LongerUnique DEF U
<1> QED BY <1>10 DEF LongerApart, x, y, z

\* AddSymbol looks at no piece but the last.
LEMMA AddAfter ==
  ASSUME NEW S, NEW at, NEW q \in Seq(TextsOf(S \ {at})), NEW v \in Pieces(S, at), NEW e \in S
  PROVE  AddApart(q, v, e, at)
<1> DEFINE T == S \ {at}
           U == TextsOf(T)
<1>1. v \in Seq(U) /\ v # <<>> /\ q \in Seq(U)
  BY DEF Pieces
<1>2. CASE e = at
  <2>1. <<>> \in U
    BY DEF TextsOf
  <2> HIDE DEF U
  <2>2. AppendApart(q, v, <<>>)
    BY <1>1, <2>1, AppendAfter
  <2> QED BY <1>2, <2>2 DEF AppendApart, AddApart, AddSymbol
<1>3. CASE e # at
  <2>1. e \in T
    BY <1>3
  <2> HIDE DEF T
  <2>2. q \o v \in Seq(U) /\ q \o v # <<>>
    <3> HIDE DEF U
    <3>1. q \o v \in Seq(U) /\ Len(q \o v) = Len(q) + Len(v) /\ Len(q) \in Nat /\ Len(v) \in Nat
      BY <1>1
    <3>2. Len(v) # 0
      BY <1>1, EmptySeq
    <3> QED BY <3>1, <3>2
  <2>3. AddSymbol(v, e, at) = Longer(v, <<e>>) /\ <<e>> \in TextsOf(T)
    BY <1>1, <1>3, <2>1, AddIsLonger
  <2>4. AddSymbol(q \o v, e, at) = Longer(q \o v, <<e>>)
    BY <1>3, <2>1, <2>2, AddIsLonger
  <2>5. LongerApart(q, v, <<e>>)
    BY <1>1, <2>3, LongerAfter
  <2> QED BY <2>3, <2>4, <2>5 DEF LongerApart, AddApart
<1> QED BY <1>2, <1>3

\* A text behind one that ends with the symbol is split on its own.
SplitApart(text, w, at, q) == Split(text \o w, at) = q \o Split(w, at)

\* str::split goes on behind the symbol as it would on the rest alone: by induction on the rest.
LEMMA SplitConcat ==
  ASSUME NEW S, NEW at \in S, NEW text \in Seq(S), NEW q \in Seq(TextsOf(S \ {at})),
         Split(text, at) = Append(q, <<>>), NEW w \in Seq(S)
  PROVE  SplitApart(text, w, at, q)
<1> DEFINE U == TextsOf(S \ {at})
           P == {x \in Seq(S) : SplitApart(text, x, at, q)}
<1>1. <<>> \in P
  <2>1. <<>> \in U /\ text \o <<>> = text
    BY DEF TextsOf
  <2>2. Append(q, <<>>) = q \o << <<>> >>
    <3> HIDE DEF U
    <3> QED BY <2>1, AppendIsConcat DEF U
  <2>3. Split(<<>>, at) = << <<>> >>
    BY SplitEmpty
  <2>4. SplitApart(text, <<>>, at, q)
    BY <2>1, <2>2, <2>3 DEF SplitApart
  <2> QED BY <2>4
<1>2. ASSUME NEW x \in Seq(S), NEW e \in S, x \in P PROVE Append(x, e) \in P
  <2>1. text \o x \in Seq(S) /\ Append(x, e) \in Seq(S)
    OBVIOUS
  <2>2. AppendApart(text, x, e)
    BY AppendAfter
  <2>3. Split(Append(text \o x, e), at) = AddSymbol(Split(text \o x, at), e, at)
    BY <2>1, SplitAppend
  <2>4. Split(Append(x, e), at) = AddSymbol(Split(x, at), e, at)
    BY SplitAppend
  <2>5. Split(x, at) \in Pieces(S, at)
    BY SplitType
  <2>6. AddApart(q, Split(x, at), e, at)
    BY <2>5, AddAfter
  <2>7. Split(text \o x, at) = q \o Split(x, at)
    BY <1>2 DEF SplitApart
  <2>8. SplitApart(text, Append(x, e), at, q)
    BY <2>2, <2>3, <2>4, <2>6, <2>7 DEF SplitApart, AppendApart, AddApart
  <2> QED BY <2>1, <2>8
<1>3. Seq(S) \subseteq P
  <2> HIDE DEF P
  <2> QED BY <1>1, <1>2, InductionOnTexts
<1> QED BY <1>3

\* The labels below a domain stand before its own.
LEMMA LabelsBelow ==
  ASSUME NEW S, "." \in S, NEW f \in Seq(S), NEW u \in Seq(S)
  PROVE  EndsWith(Split(f, "."), Split(u \o (<<".">> \o f), "."))
<1> DEFINE U == TextsOf(S \ {"."})
           text == Append(u, ".")
           q == Split(u, ".")
<1>1. q \in Seq(U) /\ Split(f, ".") \in Seq(U) /\ text \in Seq(S)
  BY SplitType DEF Pieces
<1>2. Split(text, ".") = Append(q, <<>>)
  <2>1. Continued(S \ {"."}, ".", q, ".", Split(text, "."))
    BY LastSymbol
  <2> QED BY <2>1 DEF Continued
<1>3. text \o f = u \o (<<".">> \o f)
  <2>1. <<".">> \in Seq(S)
    OBVIOUS
  <2>2. text = u \o <<".">>
    BY AppendIsConcat
  <2>3. (u \o <<".">>) \o f = u \o (<<".">> \o f)
    BY <2>1, ConcatAssociative
  <2> QED BY <2>2, <2>3
<1> HIDE DEF text, q
<1>4. SplitApart(text, f, ".", q)
  BY <1>1, <1>2, SplitConcat
<1>5. Split(u \o (<<".">> \o f), ".") = q \o Split(f, ".")
  BY <1>3, <1>4 DEF SplitApart
<1> HIDE DEF U
<1>6. q \o Split(f, ".") \in Seq(U)
  BY <1>1
<1> QED BY <1>1, <1>5, <1>6, EndsWithIs

\* What ends alike has the same last element.
LEMMA EndsLast ==
  ASSUME NEW U, NEW x \in Seq(U), NEW y \in Seq(U), x # <<>>, EndsWith(x, y)
  PROVE  x[Len(x)] = y[Len(y)]
<1>1. Len(x) \in Nat \ {0} /\ Len(y) \in Nat
  BY EmptySeq
<1>2. Len(x) \in 1..Len(x) /\ (Len(y) - Len(x)) + Len(x) = Len(y)
  BY <1>1
<1> QED BY <1>2 DEF EndsWith

\* By the last symbols of two texts: what it takes for the pieces to match.
LEMMA EndsStep ==
  ASSUME NEW T, NEW at, NEW x, NEW e, NEW fx, Continued(T, at, x, e, fx),
         NEW y, NEW d, NEW fy, Continued(T, at, y, d, fy), EndsWith(fx, fy)
  PROVE  e = d /\ EndsWith(x, y)
<1> DEFINE U == TextsOf(T)
<1>1. /\ x \in Seq(U) /\ x # <<>> /\ y \in Seq(U) /\ y # <<>>
  BY DEF Continued
<1>2. CASE e = at /\ d = at
  <2>1. fx = Append(x, <<>>) /\ fy = Append(y, <<>>) /\ <<>> \in U
    BY <1>2 DEF Continued
  <2> HIDE DEF U
  <2>2. EndsWith(Append(x, <<>>), Append(y, <<>>))
    BY <2>1
  <2>3. EndsWith(x, y)
    BY <1>1, <2>1, <2>2, EndsAppend
  <2> QED BY <1>2, <2>3
<1>3. CASE e # at /\ d # at
  <2>1. fx = Longer(x, <<e>>) /\ fy = Longer(y, <<d>>) /\ e \in T /\ d \in T
    BY <1>3 DEF Continued
  <2>2. EndsWith(Longer(x, <<e>>), Longer(y, <<d>>))
    BY <2>1
  <2> QED BY <1>1, <2>1, <2>2, EndsLonger
<1>4. CASE e = at /\ d # at
  <2>1. fx = Append(x, <<>>) /\ fy[Len(fy)] # <<>> /\ fy = Longer(y, <<d>>) /\ d \in T /\ <<>> \in U
    BY <1>4 DEF Continued
  <2>2. <<d>> \in U
    BY <2>1 DEF TextsOf
  <2>3. fy \in Seq(U)
    BY <1>1, <2>1, <2>2, LongerIs
  <2> HIDE DEF U
  <2>4. fx \in Seq(U) /\ fx # <<>> /\ fx[Len(fx)] = <<>>
    BY <1>1, <2>1, AppendProperties
  <2> QED BY <2>1, <2>3, <2>4, EndsLast
<1>5. CASE e # at /\ d = at
  <2>1. fy = Append(y, <<>>) /\ fx[Len(fx)] # <<>> /\ fx = Longer(x, <<e>>) /\ e \in T /\ <<>> \in U
    BY <1>5 DEF Continued
  <2>2. <<e>> \in U
    BY <2>1 DEF TextsOf
  <2>3. fx \in Seq(U) /\ fx # <<>>
    BY <1>1, <2>1, <2>2, LongerIs
  <2> HIDE DEF U
  <2>4. fy \in Seq(U) /\ fy[Len(fy)] = <<>>
    BY <1>1, <2>1, AppendProperties
  <2> QED BY <2>1, <2>3, <2>4, EndsLast
<1> QED BY <1>2, <1>3, <1>4, <1>5

\* A text of one piece that ends another is the empty one.
LEMMA EndsEmpty ==
  ASSUME NEW T, NEW at, NEW x, NEW e, NEW fx, Continued(T, at, x, e, fx),
         EndsWith(fx, << <<>> >>)
  PROVE  FALSE
<1> DEFINE U == TextsOf(T)
           y == << <<>> >>
<1>1. x \in Seq(U) /\ x # <<>>
  BY DEF Continued
<1>2. <<>> \in U /\ y \in Seq(U) /\ Len(y) = 1 /\ y[1] = <<>>
  BY DEF TextsOf
<1> HIDE DEF y
<1>3. CASE e = at
  <2>1. fx = Append(x, <<>>)
    BY <1>3 DEF Continued
  <2> HIDE DEF U
  <2>2. Len(fx) = Len(x) + 1 /\ Len(x) \in Nat \ {0}
    BY <1>1, <1>2, <2>1, EmptySeq
  <2> QED BY <1>2, <2>2 DEF EndsWith, y
<1>4. CASE e # at
  <2>1. fx = Longer(x, <<e>>) /\ e \in T /\ fx[Len(fx)] # <<>>
    BY <1>4 DEF Continued
  <2>2. <<e>> \in U
    BY <2>1 DEF TextsOf
  <2>3. fx \in Seq(U) /\ fx # <<>>
    BY <1>1, <2>1, <2>2, LongerIs
  <2> HIDE DEF U
  <2>4. fx[Len(fx)] = y[Len(y)]
    BY <1>2, <2>3, EndsLast DEF y
  <2> QED BY <1>2, <2>1, <2>4
<1> QED BY <1>3, <1>4

\* A domain whose last labels are those of another is the same or is below it.
LEMMA LabelsMatch ==
  ASSUME NEW S, "." \in S
  PROVE  \A f, a \in Seq(S) : EndsWith(Split(f, "."), Split(a, ".")) => SameOrBelow(S, f, a)
<1> DEFINE T == S \ {"."}
           Match(f, a) == EndsWith(Split(f, "."), Split(a, "."))
           P == {f \in Seq(S) : \A a \in Seq(S) : Match(f, a) => SameOrBelow(S, f, a)}
<1>1. <<>> \in Seq(S) /\ Split(<<>>, ".") = << <<>> >>
  BY SplitEmpty
<1>2. ASSUME NEW g \in Seq(S), NEW e \in S
      PROVE  Continued(T, ".", Split(g, "."), e, Split(Append(g, e), "."))
  BY LastSymbol
<1> HIDE DEF T
<1>3. <<>> \in P
  <2> SUFFICES ASSUME NEW a \in Seq(S), Match(<<>>, a) PROVE SameOrBelow(S, <<>>, a)
    BY <1>1
  <2>1. CASE a = <<>>
    BY <2>1 DEF SameOrBelow
  <2>2. CASE a # <<>>
    <3>1. PICK b \in Seq(S), d \in S : a = Append(b, d)
      BY <2>2, SequenceEmptyOrAppend
    <3>2. Continued(T, ".", Split(b, "."), d, Split(a, "."))
      BY <1>2, <3>1
    <3>3. d = "."
      <4> DEFINE x == << <<>> >>
                 y == Split(a, ".")
                 U == TextsOf(S)
      <4>1. x # <<>> /\ x \in Seq(U) /\ Len(x) = 1 /\ x[1] = <<>>
        BY DEF TextsOf
      <4>2. y \in Seq(U)
        <5>1. y \in Seq(TextsOf(S \ {"."})) /\ TextsOf(S \ {"."}) \subseteq TextsOf(S)
          BY SplitType DEF Pieces, TextsOf
        <5> QED BY <5>1, SeqMonotonic
      <4>3. EndsWith(x, y)
        BY <1>1
      <4> HIDE DEF x, y, U
      <4>4. y[Len(y)] = <<>>
        BY <4>1, <4>2, <4>3, EndsLast
      <4> QED BY <3>2, <4>4 DEF Continued, y
    <3>4. a = b \o (<<".">> \o <<>>)
      <4>1. <<".">> \o <<>> = <<".">> /\ Append(b, ".") = b \o <<".">>
        BY AppendIsConcat
      <4> QED BY <3>1, <3>3, <4>1
    <3> QED BY <3>4 DEF SameOrBelow
  <2> QED BY <2>1, <2>2
<1>4. ASSUME NEW g \in Seq(S), NEW e \in S, g \in P PROVE Append(g, e) \in P
  <2>1. Append(g, e) \in Seq(S)
    OBVIOUS
  <2>2. Continued(T, ".", Split(g, "."), e, Split(Append(g, e), "."))
    BY <1>2
  <2> SUFFICES ASSUME NEW a \in Seq(S), Match(Append(g, e), a) PROVE SameOrBelow(S, Append(g, e), a)
    BY <2>1
  <2>3. a # <<>>
    <3> SUFFICES ASSUME a = <<>> PROVE FALSE
      OBVIOUS
    <3>1. EndsWith(Split(Append(g, e), "."), << <<>> >>)
      BY <1>1
    <3> QED BY <2>2, <3>1, EndsEmpty
  <2>4. PICK b \in Seq(S), d \in S : a = Append(b, d)
    BY <2>3, SequenceEmptyOrAppend
  <2>5. Continued(T, ".", Split(b, "."), d, Split(a, "."))
    BY <1>2, <2>4
  <2>6. e = d /\ Match(g, b)
    <3>1. EndsWith(Split(Append(g, e), "."), Split(a, "."))
      OBVIOUS
    <3>2. e = d /\ EndsWith(Split(g, "."), Split(b, "."))
      BY <2>2, <2>5, <3>1, EndsStep
    <3> QED BY <3>2
  <2>7. SameOrBelow(S, g, b)
    BY <1>4, <2>6
  <2> QED BY <2>4, <2>6, <2>7, BelowAppend
<1>5. Seq(S) \subseteq P
  <2> HIDE DEF P
  <2> QED BY <1>3, <1>4, InductionOnTexts
<1> QED BY <1>5

\* The test of check_dkim_alignment, `ends_with(".{from}")' or equal (dmarc.rs:243-262), is a
\* comparison of the last labels.
LEMMA AlignedByLabels ==
  ASSUME NEW S, "." \in S, NEW f \in Seq(S), NEW a \in Seq(S)
  PROVE  IsSuffix(Split(f, "."), Split(a, ".")) <=> f = a \/ IsSuffix(<<".">> \o f, a)
<1> DEFINE U == TextsOf(S \ {"."})
           dotted == <<".">> \o f
<1>1. Split(f, ".") \in Seq(U) /\ Split(a, ".") \in Seq(U)
  BY SplitType DEF Pieces
<1>2. IsSuffix(Split(f, "."), Split(a, ".")) <=> EndsWith(Split(f, "."), Split(a, "."))
  <2> HIDE DEF U
  <2> QED BY <1>1, SuffixIs
<1>3. dotted \in Seq(S)
  OBVIOUS
<1>4. IsSuffix(dotted, a) <=> \E u \in Seq(S) : a = u \o dotted
  <2> HIDE DEF dotted
  <2> QED BY <1>3, SuffixIs, EndsWithIs
<1>5. f = a \/ IsSuffix(dotted, a) <=> SameOrBelow(S, f, a)
  BY <1>4 DEF SameOrBelow
<1>6. EndsWith(Split(f, "."), Split(a, ".")) => SameOrBelow(S, f, a)
  BY LabelsMatch
<1>7. ASSUME SameOrBelow(S, f, a) PROVE EndsWith(Split(f, "."), Split(a, "."))
  <2>1. CASE a = f
    BY <2>1, <1>1 DEF EndsWith
  <2>2. CASE \E u \in Seq(S) : a = u \o dotted
    BY <2>2, LabelsBelow
  <2> QED BY <1>7, <2>1, <2>2 DEF SameOrBelow
<1> QED BY <1>2, <1>5, <1>6, <1>7

\* Whatever the record and the domains (dmarc.rs:209-298): the record means what its last tags say,
\* a domain is aligned iff its last labels are those of From, and strict alignment is never weaker.
THEOREM DmarcCorrect == Calls => []DmarcAsPublished
<1>1. InitCalls => DmarcAsPublished
  BY DEF InitCalls, Idle, DmarcAsPublished
<1>2. DmarcAsPublished /\ [NextCall]_call => DmarcAsPublished'
  <2>1. CASE UNCHANGED call
    BY <2>1 DEF DmarcAsPublished
  <2>2. CASE NextCall /\ call'.of # "dmarc"
    BY <2>2 DEF DmarcAsPublished
  <2>3. CASE CheckDmarc
    <3>1. PICK tags \in DmarcRecords, from \in MailDomains, authenticated \in MailDomains,
               sub \in BOOLEAN :
            Called("dmarc", [record |-> tags, from |-> from, authenticated |-> authenticated, sub |-> sub],
                   [ok     |-> ParseDmarc(tags).ok,
                    result |-> EvaluateDmarc(Aligned(from, authenticated, ParseDmarc(tags).dkim), FALSE),
                    strict |-> Aligned(from, authenticated, "Strict"),
                    policy |-> EffectivePolicy(ParseDmarc(tags), sub)])
      BY <2>3 DEF CheckDmarc
    <3> DEFINE Published(t, f, a, s, ok, result, isSame, policy) ==
                 LET latest(key) == LastTag(t, key)
                     labels(d)   == Split(LowerDomain(d), ".")
                     below       == IsSuffix(labels(f), labels(a))
                     asksStrict  == latest("adkim") # 0 /\ t[latest("adkim")].value \in {"s", "strict"}
                 IN /\ ok <=> /\ t[1].key = "v=DMARC1" /\ ~ t[1].indented
                              /\ \A i \in DOMAIN t : ~ BadTag(t[i])
                    /\ ok =>
                         /\ policy =
                              CASE s /\ latest("sp") # 0 -> t[latest("sp")].value
                                [] ~ (s /\ latest("sp") # 0) /\ latest("p") # 0 -> t[latest("p")].value
                                [] OTHER -> "none"
                         /\ (result = "Pass") <=> IF asksStrict THEN isSame ELSE below
                         /\ isSame => below
    <3> DEFINE parsed   == ParseDmarc(tags)
               last(key) == LastTag(tags, key)
               relaxed  == IsSuffix(Split(LowerDomain(from), "."), Split(LowerDomain(authenticated), "."))
               strict   == LowerDomain(from) = LowerDomain(authenticated)
               isStrict == last("adkim") # 0 /\ tags[last("adkim")].value \in {"s", "strict"}
    <3>2. tags \in Seq(Range(tags)) /\ tags # <<>> /\ DOMAIN tags = 1..Len(tags)
      BY RecordsHaveTags
    <3>3. parsed \in ParsedRecords /\ Means(parsed, tags, Len(tags))
      BY <3>2, ParseMeans
    <3>4. \A key : IsLastTag(tags, key, Len(tags), last(key))
      BY <3>2, LastTagIs
    <3> HIDE DEF parsed, last
    <3>5. parsed.ok <=> /\ tags[1].key = "v=DMARC1" /\ ~ tags[1].indented
                        /\ \A i \in DOMAIN tags : ~ BadTag(tags[i])
      BY <3>2, <3>3 DEF Means
    <3>6. ASSUME parsed.ok
          PROVE  /\ EffectivePolicy(parsed, sub) =
                      CASE sub /\ last("sp") # 0 -> tags[last("sp")].value
                        [] ~ (sub /\ last("sp") # 0) /\ last("p") # 0 -> tags[last("p")].value
                        [] OTHER -> "none"
                 /\ parsed.dkim = "Strict" <=> isStrict
                 /\ parsed.dkim \in {"Strict", "Relaxed"}
      <4>1. \A key : /\ last(key) \in 0..Len(tags)
                     /\ last(key) # 0 => /\ tags[last(key)].key = key
                                         /\ ~ BadTag(tags[last(key)])
        BY <3>2, <3>4, <3>5, <3>6 DEF IsLastTag
      <4>2. parsed.policy = IF last("p") = 0 THEN "none" ELSE tags[last("p")].value
        BY <3>3, <3>4, <3>6, <4>1 DEF Means
      <4>3. parsed.subdomain = IF last("sp") = 0 THEN "unset" ELSE tags[last("sp")].value
        BY <3>3, <3>4, <3>6, <4>1 DEF Means
      <4>4. parsed.dkim = IF last("adkim") = 0 THEN "Relaxed" ELSE ParseAlignment(tags[last("adkim")].value)
        BY <3>3, <3>4, <3>6, <4>1 DEF Means
      <4>5. last("sp") # 0 => tags[last("sp")].value # "unset"
        BY <4>1 DEF BadTag, Policies
      <4>6. last("adkim") # 0 => tags[last("adkim")].value \in {"r", "relaxed", "s", "strict"}
        BY <4>1 DEF BadTag
      <4>7. EffectivePolicy(parsed, sub) =
              CASE sub /\ last("sp") # 0 -> tags[last("sp")].value
                [] ~ (sub /\ last("sp") # 0) /\ last("p") # 0 -> tags[last("p")].value
                [] OTHER -> "none"
        BY <4>2, <4>3, <4>5 DEF EffectivePolicy
      <4>8. parsed.dkim = "Strict" <=> isStrict
        BY <4>4, <4>6 DEF ParseAlignment
      <4>9. parsed.dkim \in {"Strict", "Relaxed"}
        BY <4>4, <4>6 DEF ParseAlignment
      <4> QED BY <4>7, <4>8, <4>9
    <3>7. relaxed <=> strict \/ IsSuffix(<<".">> \o LowerDomain(from), LowerDomain(authenticated))
      <4> DEFINE S == {LowerLetter(letter) : letter \in Range(from) \cup Range(authenticated)} \cup {"."}
      <4>1. ASSUME NEW domain \in {from, authenticated} PROVE LowerDomain(domain) \in Seq(S)
        <5>1. domain \in Seq(Range(domain))
          BY DomainsAreTexts
        <5>2. /\ Len(domain) \in Nat /\ DOMAIN domain = 1..Len(domain)
              /\ \A i \in 1..Len(domain) : LowerLetter(domain[i]) \in S
          BY <5>1
        <5> HIDE DEF S
        <5> QED BY <5>2 DEF LowerDomain
      <4>2. "." \in S
        OBVIOUS
      <4> HIDE DEF S
      <4> QED BY <4>1, <4>2, AlignedByLabels
    <3>8. Aligned(from, authenticated, "Strict") <=> strict
      BY DEF Aligned
    <3>9. ASSUME parsed.ok
          PROVE  EvaluateDmarc(Aligned(from, authenticated, parsed.dkim), FALSE) = "Pass"
                   <=> IF isStrict THEN strict ELSE relaxed
      BY <3>6, <3>7, <3>9 DEF EvaluateDmarc, Aligned
    <3>10. /\ call'.in.record = tags /\ call'.in.from = from
           /\ call'.in.authenticated = authenticated /\ call'.in.sub = sub
           /\ call'.out.ok = parsed.ok
           /\ call'.out.result = EvaluateDmarc(Aligned(from, authenticated, parsed.dkim), FALSE)
           /\ call'.out.strict = Aligned(from, authenticated, "Strict")
           /\ call'.out.policy = EffectivePolicy(parsed, sub)
      BY <3>1 DEF Called, parsed
    <3>11. Published(tags, from, authenticated, sub, parsed.ok, call'.out.result, call'.out.strict,
                     call'.out.policy)
      <4>1. call'.out.strict <=> strict
        BY <3>8, <3>10
      <4>2. parsed.ok => (call'.out.result = "Pass" <=> IF isStrict THEN strict ELSE relaxed)
        BY <3>9, <3>10
      <4>3. strict => relaxed
        BY <3>7
      <4>4. parsed.ok => call'.out.policy =
              CASE sub /\ last("sp") # 0 -> tags[last("sp")].value
                [] ~ (sub /\ last("sp") # 0) /\ last("p") # 0 -> tags[last("p")].value
                [] OTHER -> "none"
        BY <3>6, <3>10
      <4> HIDE DEF strict, relaxed
      <4> QED BY <3>5, <4>1, <4>2, <4>3, <4>4 DEF relaxed, last
    <3> HIDE DEF Published
    <3>12. Published(call'.in.record, call'.in.from, call'.in.authenticated, call'.in.sub,
                     call'.out.ok, call'.out.result, call'.out.strict, call'.out.policy)
      BY <3>10, <3>11
    <3> QED BY <3>12 DEF DmarcAsPublished, Published, BadTag, LastTag
  <2> QED BY <2>1, <2>2, <2>3, CallNamed
<1> QED BY <1>1, <1>2, PTL DEF Calls

-----------------------------------------------------------------------------
(* The aliases of a zone. *)

NamesFrom(zone, start) == {start} \cup {zone.cname[name] : name \in DOMAIN zone.cname}
Follow(zone, name) == IF name \in DOMAIN zone.cname THEN zone.cname[name] ELSE name

\* a follows the aliases from `start', M times.
Aliases(zone, start, M, a) ==
  /\ a[0] = start
  /\ \A n \in 1..M : a[n] = Follow(zone, a[n - 1])

\* CanonicalNames follows the aliases.
LEMMA CanonicalIs ==
  ASSUME NEW zone, NEW start
  PROVE  \E a \in [0..MaxCnameDepth -> NamesFrom(zone, start)] :
           /\ Aliases(zone, start, MaxCnameDepth, a)
           /\ CanonicalNames(zone, start) =
                {a[n] : n \in 0..(MaxCnameDepth - 1)} \ DOMAIN zone.cname
<1> DEFINE M == MaxCnameDepth
           V == NamesFrom(zone, start)
           F == [n \in 1..M |-> [v \in V |-> Follow(zone, v)]]
           after == CHOOSE g : g = [n \in 0..M |->
                      IF n = 0 THEN start
                      ELSE IF g[n - 1] \in DOMAIN zone.cname THEN zone.cname[g[n - 1]] ELSE g[n - 1]]
<1>1. start \in V /\ M \in Nat /\ \A v \in V : Follow(zone, v) \in V
  BY MxAssumption DEF NamesFrom, Follow
<1>2. F \in [1..M -> [V -> V]]
  BY <1>1
<1>3. PICK f \in [0..M -> V] : Steps(f, M, start, F)
  <2> HIDE DEF M, V, F
  <2> QED BY <1>1, <1>2, StepsExist
<1>4. Aliases(zone, start, M, f)
  <2> SUFFICES ASSUME NEW n \in 1..M PROVE f[n] = Follow(zone, f[n - 1])
    BY <1>3 DEF Steps, Aliases
  <2>1. n - 1 \in 0..M /\ f[n - 1] \in V
    BY <1>1
  <2>2. f[n] = F[n][f[n - 1]]
    BY <1>3 DEF Steps
  <2> QED BY <2>1, <2>2
<1>5. f = [n \in 0..M |-> IF n = 0 THEN start
                          ELSE IF f[n - 1] \in DOMAIN zone.cname THEN zone.cname[f[n - 1]] ELSE f[n - 1]]
  <2> HIDE DEF M, V, F
  <2>1. \A n \in 0..M : n # 0 => n \in 1..M
    BY <1>1
  <2> QED BY <1>1, <1>4, <2>1 DEF Aliases, Follow
<1>6. after = [n \in 0..M |-> IF n = 0 THEN start
                  ELSE IF after[n - 1] \in DOMAIN zone.cname THEN zone.cname[after[n - 1]]
                  ELSE after[n - 1]]
  <2>1. \E g : g = [n \in 0..M |->
                      IF n = 0 THEN start
                      ELSE IF g[n - 1] \in DOMAIN zone.cname THEN zone.cname[g[n - 1]] ELSE g[n - 1]]
    BY <1>5
  <2> QED BY <2>1, Zenon
<1>10. after = [n \in 0..M |-> IF n = 0 THEN start ELSE Follow(zone, after[n - 1])]
  <2> HIDE DEF after, M
  <2> QED BY <1>6 DEF Follow
<1>7. CanonicalNames(zone, start) = {after[n] : n \in 0..(M - 1)} \ DOMAIN zone.cname
  BY DEF CanonicalNames
<1>8. \A n \in 0..M : after[n] = f[n]
  <2> DEFINE P == {n \in Nat : n <= M => after[n] = f[n]}
  <2> HIDE DEF after, M, V, F
  <2>1. 0 \in P
    BY <1>1, <1>5, <1>6
  <2>2. ASSUME NEW n \in Nat, n \in P PROVE n + 1 \in P
    <3>1. CASE n + 1 <= M
      <4>1. n + 1 \in 0..M /\ n + 1 # 0 /\ (n + 1) - 1 = n /\ after[n] = f[n]
        BY <1>1, <2>2, <3>1
      <4>2. f[n + 1] = Follow(zone, f[n])
        BY <1>4, <1>1, <4>1 DEF Aliases
      <4>3. after[n + 1] = Follow(zone, after[n])
        BY <1>10, <4>1
      <4> QED BY <4>1, <4>2, <4>3
    <3>2. CASE ~ (n + 1 <= M)
      BY <3>2
    <3> QED BY <3>1, <3>2
  <2>3. Nat \subseteq P
    <3> HIDE DEF P
    <3> QED BY <2>1, <2>2, Induction
  <2> QED BY <1>1, <2>3
<1> HIDE DEF after, F
<1>9. {after[n] : n \in 0..(M - 1)} = {f[n] : n \in 0..(M - 1)}
  <2> HIDE DEF M
  <2>1. \A n \in 0..(M - 1) : n \in 0..M
    BY <1>1
  <2>2. \A n \in 0..(M - 1) : after[n] = f[n]
    BY <1>8, <2>1
  <2> QED BY <2>2
<1> QED BY <1>3, <1>4, <1>7, <1>9

\* The walks of resolve_cname_chain.
Walks(zone, start) ==
  [name : NamesFrom(zone, start), visited : SUBSET NamesFrom(zone, start), depth : Nat,
   final : NamesFrom(zone, start) \cup {NoName}, looped : BOOLEAN]
FirstWalk(start) ==
  [name |-> start, visited |-> {}, depth |-> 0, final |-> NoName, looped |-> FALSE]

\* w is the walk, turn by turn.
Walking(zone, start, N, w) ==
  /\ w[0] = FirstWalk(start)
  /\ \A n \in 1..N : w[n] = ChainStep(zone, w[n - 1])

\* A turn of the loop leads from walk to walk.
LEMMA ChainType ==
  ASSUME NEW zone, NEW start, NEW walk \in Walks(zone, start)
  PROVE  ChainStep(zone, walk) \in Walks(zone, start)
<1> DEFINE V == NamesFrom(zone, start)
<1>1. walk.name \in DOMAIN zone.cname => zone.cname[walk.name] \in V
  BY DEF NamesFrom
<1>2. walk.name \in V /\ walk.visited \in SUBSET V /\ walk.depth + 1 \in Nat
  BY DEF Walks
<1> HIDE DEF V
<1>3. walk \in [name : V, visited : SUBSET V, depth : Nat, final : V \cup {NoName}, looped : BOOLEAN]
  BY DEF Walks, V
<1> DEFINE W == [name : V, visited : SUBSET V, depth : Nat, final : V \cup {NoName}, looped : BOOLEAN]
<1>4. \/ ChainStep(zone, walk) = walk
      \/ ChainStep(zone, walk) = [walk EXCEPT !.looped = TRUE]
      \/ ChainStep(zone, walk) = [walk EXCEPT !.final = walk.name]
      \/ /\ walk.name \in DOMAIN zone.cname
         /\ ChainStep(zone, walk) = [walk EXCEPT !.visited = @ \cup {walk.name},
                                                !.name = zone.cname[walk.name], !.depth = @ + 1]
  BY Zenon DEF ChainStep
<1>5. [walk EXCEPT !.looped = TRUE] \in W /\ [walk EXCEPT !.final = walk.name] \in W
  BY <1>2, <1>3
<1>6. ASSUME walk.name \in DOMAIN zone.cname
      PROVE  [walk EXCEPT !.visited = @ \cup {walk.name}, !.name = zone.cname[walk.name],
                          !.depth = @ + 1] \in W
  <2> DEFINE name    == zone.cname[walk.name]
             visited == walk.visited \cup {walk.name}
             depth   == walk.depth + 1
  <2>1. name \in V /\ visited \in SUBSET V /\ depth \in Nat
    BY <1>1, <1>2, <1>6
  <2> HIDE DEF name, visited, depth
  <2>2. [walk EXCEPT !.visited = visited, !.name = name, !.depth = depth] \in W
    BY <1>3, <2>1
  <2> QED BY <2>2 DEF name, visited, depth
<1> HIDE DEF W
<1>7. ChainStep(zone, walk) \in W
  BY <1>3, <1>4, <1>5, <1>6 DEF W
<1> QED BY <1>7 DEF W, Walks, V

\* resolve_cname_chain is such a walk (resolver.rs:174-203).
LEMMA ChainIs ==
  ASSUME NEW zone, NEW start
  PROVE  \E w \in [0..(MaxCnameDepth + 1) -> Walks(zone, start)] :
           /\ Walking(zone, start, MaxCnameDepth + 1, w)
           /\ ResolveCnameChain(zone, start) = w[MaxCnameDepth + 1]
<1> DEFINE N == MaxCnameDepth + 1
           V == Walks(zone, start)
           first == FirstWalk(start)
           F == [n \in 1..N |-> [v \in V |-> ChainStep(zone, v)]]
           walk == CHOOSE g : g = [turn \in 0..N |-> IF turn = 0 THEN first ELSE ChainStep(zone, g[turn - 1])]
<1>1. first \in V /\ N \in Nat
  BY MxAssumption DEF NamesFrom, Walks, FirstWalk
<1>2. F \in [1..N -> [V -> V]]
  BY ChainType
<1>3. PICK f \in [0..N -> V] : Steps(f, N, first, F)
  <2> HIDE DEF N, V, F, first
  <2> QED BY <1>1, <1>2, StepsExist
<1>4. f[0] = first /\ \A n \in 1..N : f[n] = ChainStep(zone, f[n - 1])
  <2>1. f[0] = first
    BY <1>3 DEF Steps
  <2> SUFFICES ASSUME NEW n \in 1..N PROVE f[n] = ChainStep(zone, f[n - 1])
    BY <2>1
  <2>2. n - 1 \in 0..N /\ f[n - 1] \in V
    BY <1>1
  <2>3. f[n] = F[n][f[n - 1]]
    BY <1>3 DEF Steps
  <2> QED BY <2>2, <2>3
<1>5. f = [turn \in 0..N |-> IF turn = 0 THEN first ELSE ChainStep(zone, f[turn - 1])]
  <2> HIDE DEF N, V, F, first
  <2>1. \A n \in 0..N : n # 0 => n \in 1..N
    BY <1>1
  <2> QED BY <1>1, <1>4, <2>1
<1>6. walk = [turn \in 0..N |-> IF turn = 0 THEN first ELSE ChainStep(zone, walk[turn - 1])]
  <2>1. \E g : g = [turn \in 0..N |-> IF turn = 0 THEN first ELSE ChainStep(zone, g[turn - 1])]
    BY <1>5
  <2> QED BY <2>1, Zenon
<1>7. ResolveCnameChain(zone, start) = walk[N]
  BY DEF ResolveCnameChain, FirstWalk
<1>8. walk[N] = f[N]
  <2> DEFINE P == {n \in Nat : n <= N => walk[n] = f[n]}
  <2> HIDE DEF walk, N, V, F, first
  <2>1. 0 \in P
    BY <1>1, <1>5, <1>6
  <2>2. ASSUME NEW n \in Nat, n \in P PROVE n + 1 \in P
    <3>1. CASE n + 1 <= N
      <4>1. n + 1 \in 0..N /\ n + 1 # 0 /\ (n + 1) - 1 = n /\ walk[n] = f[n]
        BY <1>1, <2>2, <3>1
      <4>2. walk[n + 1] = ChainStep(zone, walk[n]) /\ f[n + 1] = ChainStep(zone, f[n])
        BY <1>5, <1>6, <4>1
      <4> QED BY <4>1, <4>2
    <3>2. CASE ~ (n + 1 <= N)
      BY <3>2
    <3> QED BY <3>1, <3>2
  <2>3. Nat \subseteq P
    <3> HIDE DEF P
    <3> QED BY <2>1, <2>2, Induction
  <2> QED BY <1>1, <2>3
<1>9. Walking(zone, start, N, f)
  BY <1>4 DEF Walking
<1> HIDE DEF walk, F, first
<1> QED BY <1>3, <1>7, <1>8, <1>9

\* A name without an alias is where the aliases lead.
Settles(zone, a) ==
  \A k, n \in 0..MaxCnameDepth : k <= n /\ a[k] \notin DOMAIN zone.cname => a[n] = a[k]
LEMMA Stays ==
  ASSUME NEW zone, NEW start, NEW a, Aliases(zone, start, MaxCnameDepth, a)
  PROVE  Settles(zone, a)
<1> SUFFICES ASSUME NEW k \in 0..MaxCnameDepth, a[k] \notin DOMAIN zone.cname
             PROVE  \A n \in 0..MaxCnameDepth : k <= n => a[n] = a[k]
  BY DEF Settles
<1> DEFINE P == {n \in Nat : k <= n /\ n <= MaxCnameDepth => a[n] = a[k]}
<1>1. 0 \in P
  BY MxAssumption
<1>2. ASSUME NEW n \in Nat, n \in P PROVE n + 1 \in P
  <2> SUFFICES ASSUME k <= n + 1, n + 1 <= MaxCnameDepth, k # n + 1 PROVE a[n + 1] = a[k]
    BY MxAssumption
  <2>1. n + 1 \in 1..MaxCnameDepth /\ (n + 1) - 1 = n /\ a[n] = a[k]
    BY <1>2, MxAssumption
  <2>2. a[n + 1] = Follow(zone, a[n])
    BY <2>1 DEF Aliases
  <2> QED BY <2>1, <2>2 DEF Follow
<1>3. Nat \subseteq P
  <2> HIDE DEF P
  <2> QED BY <1>1, <1>2, Induction
<1> QED BY <1>3, MxAssumption

\* A name met again leads to the names it led to.
LEMMA Cycles ==
  ASSUME NEW zone, NEW start, NEW a, Aliases(zone, start, MaxCnameDepth, a),
         NEW k \in 0..MaxCnameDepth, \A i \in 0..(k - 1) : a[i] \in DOMAIN zone.cname,
         a[k] \in {a[i] : i \in 0..(k - 1)}
  PROVE  \A n \in 0..MaxCnameDepth : a[n] \in DOMAIN zone.cname
<1> DEFINE met  == {a[i] : i \in 0..(k - 1)}
           P == {n \in Nat : n <= MaxCnameDepth => a[n] \in met}
<1>1. 0 \in P
  BY MxAssumption
<1>2. ASSUME NEW n \in Nat, n \in P PROVE n + 1 \in P
  <2> SUFFICES ASSUME n + 1 <= MaxCnameDepth PROVE a[n + 1] \in met
    OBVIOUS
  <2>1. PICK i \in 0..(k - 1) : a[n] = a[i]
    BY <1>2, MxAssumption
  <2>2. n + 1 \in 1..MaxCnameDepth /\ (n + 1) - 1 = n /\ i + 1 \in 1..MaxCnameDepth /\ (i + 1) - 1 = i
    BY MxAssumption
  <2>3. a[n + 1] = Follow(zone, a[n]) /\ a[i + 1] = Follow(zone, a[i])
    BY <2>2 DEF Aliases
  <2>4. a[n + 1] = a[i + 1]
    BY <2>1, <2>3
  <2>5. i + 1 \in 0..(k - 1) \/ i + 1 = k
    BY MxAssumption
  <2> QED BY <2>4, <2>5
<1>3. Nat \subseteq P
  <2> HIDE DEF P
  <2> QED BY <1>1, <1>2, Induction
<1> QED BY <1>3, MxAssumption

\* After n turns the walk is under way, or has ended at a name, or has met one again.
UnderWay(zone, a, n, walk) ==
  /\ walk.name = a[n] /\ walk.visited = {a[i] : i \in 0..(n - 1)} /\ walk.depth = n
  /\ walk.final = NoName /\ walk.looped = FALSE
  /\ \A i \in 0..(n - 1) : a[i] \in DOMAIN zone.cname
MetAgain(zone, a, walk) ==
  /\ walk.looped
  /\ \A i \in 0..(MaxCnameDepth - 1) : a[i] \in DOMAIN zone.cname
EndedAt(zone, a, d, walk) ==
  /\ walk.name = a[d] /\ walk.final = a[d] /\ walk.looped = FALSE /\ walk.depth = d
  /\ a[d] \notin DOMAIN zone.cname
  /\ walk.visited \subseteq DOMAIN zone.cname
Progress(zone, a, n, walk) ==
  \/ n <= MaxCnameDepth /\ UnderWay(zone, a, n, walk)
  \/ MetAgain(zone, a, walk)
  \/ \E d \in 0..(MaxCnameDepth - 1) : EndedAt(zone, a, d, walk)

\* One turn more.
LEMMA ChainProgress ==
  ASSUME NEW zone, NEW start, NEW a, Aliases(zone, start, MaxCnameDepth, a),
         NEW n \in Nat, NEW walk \in Walks(zone, start), Progress(zone, a, n, walk)
  PROVE  Progress(zone, a, n + 1, ChainStep(zone, walk))
<1> DEFINE next == ChainStep(zone, walk)
<1>1. CASE MetAgain(zone, a, walk)
  <2>1. next = walk
    BY <1>1, Zenon DEF MetAgain, ChainStep
  <2> QED BY <1>1, <2>1, Zenon DEF Progress
<1>2. ASSUME NEW d \in 0..(MaxCnameDepth - 1), EndedAt(zone, a, d, walk)
      PROVE  Progress(zone, a, n + 1, next)
  <2>1. ~ (walk.depth >= MaxCnameDepth) /\ walk.name \notin walk.visited
    BY <1>2, MxAssumption DEF EndedAt
  <2>2. next = walk \/ next = [walk EXCEPT !.final = walk.name]
    BY <1>2, <2>1, Zenon DEF EndedAt, ChainStep
  <2>3. EndedAt(zone, a, d, next)
    <3>1. CASE next = walk
      BY <1>2, <3>1
    <3>2. CASE next = [walk EXCEPT !.final = walk.name]
      BY <1>2, <3>2 DEF EndedAt, Walks
    <3> QED BY <2>2, <3>1, <3>2
  <2> QED BY <2>3 DEF Progress
<1>3. ASSUME n <= MaxCnameDepth, UnderWay(zone, a, n, walk)
      PROVE  Progress(zone, a, n + 1, next)
  <2>1. ~ (walk.final # NoName \/ walk.looped)
    BY <1>3 DEF UnderWay
  <2>2. CASE walk.depth >= MaxCnameDepth \/ walk.name \in walk.visited
    <3>1. next = [walk EXCEPT !.looped = TRUE]
      BY <2>1, <2>2, Zenon DEF ChainStep
    <3>2. next.looped
      BY <3>1 DEF Walks
    <3>3. CASE walk.depth >= MaxCnameDepth
      BY <1>3, <3>2, <3>3, MxAssumption DEF UnderWay, MetAgain, Progress
    <3>4. CASE walk.name \in walk.visited
      <4>1. /\ n \in 0..MaxCnameDepth /\ a[n] \in {a[i] : i \in 0..(n - 1)}
            /\ \A i \in 0..(n - 1) : a[i] \in DOMAIN zone.cname
        BY <1>3, <3>4, MxAssumption DEF UnderWay
      <4>2. \A i \in 0..MaxCnameDepth : a[i] \in DOMAIN zone.cname
        BY <4>1, Cycles, Zenon
      <4>3. \A i \in 0..(MaxCnameDepth - 1) : i \in 0..MaxCnameDepth
        BY MxAssumption
      <4> QED BY <3>2, <4>2, <4>3 DEF MetAgain, Progress
    <3> QED BY <2>2, <3>3, <3>4
  <2>3. CASE ~ (walk.depth >= MaxCnameDepth) /\ walk.name \notin walk.visited /\ walk.name \notin DOMAIN zone.cname
    <3>1. next = [walk EXCEPT !.final = walk.name]
      BY <2>1, <2>3, Zenon DEF ChainStep
    <3>2. n \in 0..(MaxCnameDepth - 1)
      BY <1>3, <2>3, MxAssumption DEF UnderWay
    <3>3. /\ next.name = walk.name /\ next.visited = walk.visited /\ next.depth = walk.depth
          /\ next.final = walk.name /\ next.looped = walk.looped
      BY <3>1 DEF Walks
    <3>4. EndedAt(zone, a, n, next)
      BY <1>3, <2>3, <3>3 DEF UnderWay, EndedAt
    <3> QED BY <3>2, <3>4 DEF Progress
  <2>4. CASE ~ (walk.depth >= MaxCnameDepth) /\ walk.name \notin walk.visited /\ walk.name \in DOMAIN zone.cname
    <3>1. next = [walk EXCEPT !.visited = @ \cup {walk.name}, !.name = zone.cname[walk.name],
                              !.depth = @ + 1]
      BY <2>1, <2>4, Zenon DEF ChainStep
    <3>2. /\ next.name = zone.cname[walk.name] /\ next.visited = walk.visited \cup {walk.name}
          /\ next.depth = walk.depth + 1 /\ next.final = walk.final /\ next.looped = walk.looped
      BY <3>1 DEF Walks
    <3>3. n + 1 \in 1..MaxCnameDepth /\ (n + 1) - 1 = n
      BY <1>3, <2>4, MxAssumption DEF UnderWay
    <3>4. a[n + 1] = Follow(zone, a[n])
      BY <3>3 DEF Aliases
    <3>5. a[n + 1] = next.name
      BY <1>3, <2>4, <3>2, <3>4 DEF Follow, UnderWay
    <3>6. 0..((n + 1) - 1) = 0..(n - 1) \cup {n}
      OBVIOUS
    <3>7. next.visited = {a[i] : i \in 0..((n + 1) - 1)}
      BY <1>3, <3>2, <3>6 DEF UnderWay
    <3>8. \A i \in 0..((n + 1) - 1) : a[i] \in DOMAIN zone.cname
      BY <1>3, <2>4, <3>6 DEF UnderWay
    <3>9. UnderWay(zone, a, n + 1, next)
      BY <1>3, <3>2, <3>5, <3>7, <3>8 DEF UnderWay
    <3> QED BY <3>3, <3>9 DEF Progress
  <2> QED BY <2>2, <2>3, <2>4
<1> QED BY <1>1, <1>2, <1>3 DEF Progress

\* resolve_cname_chain finds the name that the aliases lead to, and fails when they do not end.
LEMMA ChainFinds ==
  ASSUME NEW zone, NEW start
  PROVE  IF ResolveCnameChain(zone, start).looped THEN CanonicalNames(zone, start) = {}
         ELSE CanonicalNames(zone, start) = {ResolveCnameChain(zone, start).final}
<1> DEFINE N == MaxCnameDepth + 1
           V == NamesFrom(zone, start)
           chain == ResolveCnameChain(zone, start)
<1>1. PICK a \in [0..MaxCnameDepth -> V] :
           /\ Aliases(zone, start, MaxCnameDepth, a)
           /\ CanonicalNames(zone, start) = {a[n] : n \in 0..(MaxCnameDepth - 1)} \ DOMAIN zone.cname
  BY CanonicalIs
<1>9. Settles(zone, a)
  BY <1>1, Stays
<1>2. PICK w \in [0..N -> Walks(zone, start)] : Walking(zone, start, N, w) /\ chain = w[N]
  BY ChainIs
<1> DEFINE P == {n \in Nat : n <= N => Progress(zone, a, n, w[n])}
<1>3. 0 \in P
  <2>1. UnderWay(zone, a, 0, FirstWalk(start))
    BY <1>1 DEF UnderWay, FirstWalk, Aliases
  <2>2. 0 <= MaxCnameDepth /\ w[0] = FirstWalk(start)
    BY <1>2, MxAssumption DEF Walking
  <2> QED BY <2>1, <2>2 DEF Progress
<1>4. ASSUME NEW n \in Nat, n \in P PROVE n + 1 \in P
  <2> SUFFICES ASSUME n + 1 <= N PROVE Progress(zone, a, n + 1, w[n + 1])
    OBVIOUS
  <2>1. n + 1 \in 1..N /\ (n + 1) - 1 = n /\ n \in 0..N /\ n <= N
    BY MxAssumption
  <2>2. w[n + 1] = ChainStep(zone, w[n]) /\ w[n] \in Walks(zone, start) /\ Progress(zone, a, n, w[n])
    BY <1>2, <1>4, <2>1 DEF Walking
  <2> QED BY <1>1, <2>2, ChainProgress
<1>5. Nat \subseteq P
  <2> HIDE DEF P
  <2> QED BY <1>3, <1>4, Induction
<1>6. Progress(zone, a, N, chain) /\ ~ (N <= MaxCnameDepth)
  BY <1>2, <1>5, MxAssumption
<1> HIDE DEF chain
<1>7. CASE MetAgain(zone, a, chain)
  BY <1>1, <1>7 DEF MetAgain, chain
<1>8. ASSUME NEW d \in 0..(MaxCnameDepth - 1), EndedAt(zone, a, d, chain)
      PROVE  /\ ~ chain.looped
             /\ CanonicalNames(zone, start) = {chain.final}
  <2>1. chain.final = a[d] /\ a[d] \notin DOMAIN zone.cname /\ ~ chain.looped
    BY <1>8 DEF EndedAt
  <2>2. ASSUME NEW n \in 0..(MaxCnameDepth - 1), a[n] \notin DOMAIN zone.cname
        PROVE  a[n] = a[d]
    <3>1. n \in 0..MaxCnameDepth /\ d \in 0..MaxCnameDepth /\ (n <= d \/ d <= n)
      BY MxAssumption
    <3>2. CASE n <= d
      BY <1>9, <2>2, <3>1, <3>2 DEF Settles
    <3>3. CASE d <= n
      BY <1>9, <2>1, <3>1, <3>3 DEF Settles
    <3> QED BY <3>1, <3>2, <3>3
  <2> QED BY <1>1, <2>1, <2>2
<1> QED BY <1>6, <1>7, <1>8 DEF Progress, chain

-----------------------------------------------------------------------------
(* The answers of the mock. *)

\* A lookup answers with what the table has at the end of the aliases, or with no record.
IsAnswer(zone, table, name, records) ==
  /\ records \in Seq(Range(records))
  /\ \/ AnswersOf(zone, table, name) = {} /\ records = <<>>
     \/ AnswersOf(zone, table, name) = {records}
LEMMA LookupIs ==
  ASSUME NEW zone, NEW table, NEW name, HasRecords(table)
  PROVE  IsAnswer(zone, table, name, Lookup(zone, table, name).records)
<1> DEFINE chain == ResolveCnameChain(zone, name)
           answer == Lookup(zone, table, name)
<1> HIDE DEF chain, answer
<1>1. answer = IF chain.looped THEN Failed("CnameLoop")
               ELSE IF chain.final \notin DOMAIN table THEN Failed("NxDomain")
               ELSE table[chain.final]
  BY Zenon DEF Lookup, chain, answer
<1>2. \A error : Failed(error).records = <<>>
  BY DEF Failed
<1>3. IF chain.looped THEN CanonicalNames(zone, name) = {} ELSE CanonicalNames(zone, name) = {chain.final}
  BY ChainFinds, Zenon DEF chain
<1>4. CASE chain.looped
  <2>1. answer.records = <<>> /\ AnswersOf(zone, table, name) = {}
    BY <1>1, <1>2, <1>3, <1>4 DEF AnswersOf
  <2> QED BY <2>1 DEF IsAnswer, answer
<1>5. CASE ~ chain.looped /\ chain.final \notin DOMAIN table
  <2>1. answer.records = <<>> /\ AnswersOf(zone, table, name) = {}
    BY <1>1, <1>2, <1>3, <1>5 DEF AnswersOf
  <2> QED BY <2>1 DEF IsAnswer, answer
<1>6. CASE ~ chain.looped /\ chain.final \in DOMAIN table
  <2>1. answer.records = table[chain.final].records
    BY <1>1, <1>6
  <2>2. AnswersOf(zone, table, name) = {table[chain.final].records}
    BY <1>3, <1>6 DEF AnswersOf
  <2> QED BY <1>6, <2>1, <2>2 DEF IsAnswer, HasRecords, answer
<1> QED BY <1>4, <1>5, <1>6

\* The addresses of a host.
LEMMA AddressesAre ==
  ASSUME NEW zone, NEW host, HasRecords(zone.a), HasRecords(zone.aaaa)
  PROVE  /\ Range(AddressesOf(zone, host)) = Ips(zone, host)
         /\ AddressesOf(zone, host) = <<>> <=> Ips(zone, host) = {}
<1> DEFINE s == Lookup(zone, zone.aaaa, host).records
           t == Lookup(zone, zone.a, host).records
           T == Range(s) \cup Range(t)
<1>1. IsAnswer(zone, zone.aaaa, host, s) /\ IsAnswer(zone, zone.a, host, t)
  BY LookupIs
<1>2. AddressesOf(zone, host) = s \o t
  BY DEF AddressesOf
<1> HIDE DEF s, t
<1>3. Range(s) = RecordsOf(zone, zone.aaaa, host) /\ Range(t) = RecordsOf(zone, zone.a, host)
  BY <1>1 DEF IsAnswer, RecordsOf, Range
<1>4. s \in Seq(T) /\ t \in Seq(T)
  BY <1>1 DEF IsAnswer
<1> DEFINE u == s \o t
<1>5. Range(u) = Range(s) \cup Range(t)
  <2> HIDE DEF T
  <2>1. \A i \in DOMAIN u : u[i] \in Range(s) \cup Range(t)
    BY <1>4 DEF Range
  <2>2. \A i \in DOMAIN s : i \in DOMAIN u /\ u[i] = s[i]
    BY <1>4
  <2>3. \A i \in DOMAIN t : Len(s) + i \in DOMAIN u /\ u[Len(s) + i] = t[i]
    BY <1>4
  <2> HIDE DEF u
  <2>4. Range(u) \subseteq Range(s) \cup Range(t)
    BY <2>1 DEF Range
  <2>5. Range(s) \subseteq Range(u)
    BY <2>2, Zenon DEF Range
  <2>6. Range(t) \subseteq Range(u)
    BY <2>3, Zenon DEF Range
  <2> QED BY <2>4, <2>5, <2>6
<1>6. u = <<>> <=> Range(u) = {}
  <2> HIDE DEF T
  <2>1. u \in Seq(T)
    BY <1>4
  <2> HIDE DEF u
  <2>2. u # <<>> => 1 \in DOMAIN u
    BY <2>1
  <2>3. u = <<>> => DOMAIN u = {}
    OBVIOUS
  <2> QED BY <2>2, <2>3, Zenon DEF Range
<1> QED BY <1>2, <1>3, <1>5, <1>6 DEF Ips

-----------------------------------------------------------------------------
(* The exchanges. *)

\* What resolve_mx_exchange makes of a record; the first n records that have an address; and what is
\* found from the first n records.
Resolved(zone, record) == Destination(zone, Trimmed(record.exchange), record.preference)
Kept(zone, records, n) == {i \in 1..n : Resolved(zone, records[i]).addresses # <<>>}
Ordered(s) == \A i, j \in DOMAIN s : i < j => s[i].preference <= s[j].preference
FromFirst(zone, records, n, s) ==
  /\ Len(s) = Cardinality(Kept(zone, records, n)) /\ IsFiniteSet(Kept(zone, records, n))
  /\ Range(s) = {Resolved(zone, records[i]) : i \in Kept(zone, records, n)}
  /\ Ordered(s)

\* One record more: it is skipped, or goes behind what was found.
LEMMA AddKeeps ==
  ASSUME NEW zone, NEW records, NEW T, NEW s \in Seq(T), NEW n \in Nat,
         FromFirst(zone, records, n, s), Resolved(zone, records[n + 1]) \in T,
         \A i \in 1..(n + 1) : records[i].preference \in Int /\ records[i].preference <= records[n + 1].preference
  PROVE  /\ AddExchange(zone, s, records[n + 1]) \in Seq(T)
         /\ FromFirst(zone, records, n + 1, AddExchange(zone, s, records[n + 1]))
<1> DEFINE last == Resolved(zone, records[n + 1])
           old == Kept(zone, records, n)
           next == AddExchange(zone, s, records[n + 1])
<1>1. next = IF last.addresses = <<>> THEN s ELSE Append(s, last)
  BY DEF AddExchange, Resolved
<1>2. 1..(n + 1) = 1..n \cup {n + 1} /\ n + 1 \notin 1..n
  OBVIOUS
<1>3. CASE last.addresses = <<>>
  <2>1. Kept(zone, records, n + 1) = old
    BY <1>2, <1>3 DEF Kept
  <2> QED BY <1>1, <1>3, <2>1 DEF FromFirst
<1>4. CASE last.addresses # <<>>
  <2>1. Kept(zone, records, n + 1) = old \cup {n + 1} /\ n + 1 \notin old
    BY <1>2, <1>4 DEF Kept
  <2>2. next = Append(s, last)
    BY <1>1, <1>4
  <2>3. IsFiniteSet(old) /\ Len(s) = Cardinality(old)
    BY DEF FromFirst
  <2>4. IsFiniteSet(old \cup {n + 1}) /\ Cardinality(old \cup {n + 1}) = Cardinality(old) + 1
    <3> HIDE DEF old
    <3> QED BY <2>1, <2>3, FS_AddElement
  <2>5. Range(s) = {Resolved(zone, records[i]) : i \in old}
    BY DEF FromFirst
  <2> HIDE DEF last, next
  <2>6. /\ Len(next) = Len(s) + 1 /\ next \in Seq(T) /\ next[Len(s) + 1] = last
        /\ DOMAIN next = DOMAIN s \cup {Len(s) + 1} /\ \A i \in DOMAIN s : next[i] = s[i]
    BY <2>2 DEF last
  <2>7. Range(next) = Range(s) \cup {last}
    BY <2>6 DEF Range
  <2>8. Range(next) = {Resolved(zone, records[i]) : i \in Kept(zone, records, n + 1)}
    BY <2>1, <2>5, <2>7 DEF last
  <2>9. Ordered(next)
    <3>1. \A record : Resolved(zone, record).preference = record.preference
      BY DEF Resolved, Destination
    <3>2. \A i \in DOMAIN s : s[i].preference <= last.preference
      <4> TAKE i \in DOMAIN s
      <4>1. s[i] \in Range(s)
        BY DEF Range
      <4>2. PICK k \in old : s[i] = Resolved(zone, records[k])
        BY <2>5, <4>1
      <4>3. k \in 1..(n + 1)
        BY <1>2 DEF Kept
      <4> QED BY <3>1, <4>2, <4>3 DEF last
    <3>3. Ordered(s) /\ \A i \in DOMAIN s : i <= Len(s)
      BY DEF FromFirst
    <3>4. \A i, j \in DOMAIN next : i < j => i \in DOMAIN s
      BY <2>6, <3>3
    <3> QED BY <2>6, <3>2, <3>3, <3>4 DEF Ordered
  <2>10. Len(next) = Cardinality(Kept(zone, records, n + 1)) /\ IsFiniteSet(Kept(zone, records, n + 1))
    BY <2>1, <2>3, <2>4, <2>6
  <2> QED BY <2>6, <2>8, <2>9, <2>10 DEF FromFirst, next
<1> QED BY <1>3, <1>4

\* The loop over the sorted records (mx_resolve.rs:88-95), from its first turn to its last.
LEMMA ExchangesAre ==
  ASSUME NEW zone, NEW R, NEW records \in Preferred(R), Ordered(records)
  PROVE  /\ ResolveExchanges(zone, records) \in Seq({Resolved(zone, record) : record \in R})
         /\ FromFirst(zone, records, Len(records), ResolveExchanges(zone, records))
<1> DEFINE N == Len(records)
           T == {Resolved(zone, record) : record \in R}
           V == Seq(T)
           F == [n \in 1..N |-> [s \in V |-> AddExchange(zone, s, records[n])]]
           found == CHOOSE g : g = [n \in 0..N |->
                      IF n = 0 THEN <<>> ELSE AddExchange(zone, g[n - 1], records[n])]
<1>1. /\ N \in Nat /\ DOMAIN records = 1..N /\ <<>> \in V
      /\ \A n \in 1..N : Resolved(zone, records[n]) \in T
  BY DEF Preferred
<1>2. F \in [1..N -> [V -> V]]
  <2>1. ASSUME NEW n \in 1..N, NEW s \in V PROVE AddExchange(zone, s, records[n]) \in V
    <3>1. \/ AddExchange(zone, s, records[n]) = s
          \/ AddExchange(zone, s, records[n]) = Append(s, Resolved(zone, records[n]))
      BY DEF AddExchange, Resolved
    <3>2. Resolved(zone, records[n]) \in T
      BY <1>1
    <3> HIDE DEF T
    <3> QED BY <3>1, <3>2
  <2> HIDE DEF N, V
  <2> QED BY <2>1
<1>3. PICK f \in [0..N -> V] : Steps(f, N, <<>>, F)
  <2> HIDE DEF N, V, F
  <2> QED BY <1>1, <1>2, StepsExist
<1>4. f[0] = <<>> /\ \A n \in 1..N : f[n] = AddExchange(zone, f[n - 1], records[n])
  <2>1. f[0] = <<>>
    BY <1>3 DEF Steps
  <2> SUFFICES ASSUME NEW n \in 1..N PROVE f[n] = AddExchange(zone, f[n - 1], records[n])
    BY <2>1
  <2>2. n - 1 \in 0..N /\ f[n - 1] \in V
    BY <1>1
  <2>3. f[n] = F[n][f[n - 1]]
    BY <1>3 DEF Steps
  <2> QED BY <2>2, <2>3
<1>5. f = [n \in 0..N |-> IF n = 0 THEN <<>> ELSE AddExchange(zone, f[n - 1], records[n])]
  <2> HIDE DEF N, V, F
  <2>1. \A n \in 0..N : n # 0 => n \in 1..N
    BY <1>1
  <2> QED BY <1>1, <1>4, <2>1
<1>6. found = [n \in 0..N |-> IF n = 0 THEN <<>> ELSE AddExchange(zone, found[n - 1], records[n])]
  <2>1. \E g : g = [n \in 0..N |-> IF n = 0 THEN <<>> ELSE AddExchange(zone, g[n - 1], records[n])]
    BY <1>5
  <2> QED BY <2>1, Zenon
<1>7. ResolveExchanges(zone, records) = found[N]
  BY DEF ResolveExchanges
<1> HIDE DEF found
<1> DEFINE P == {n \in Nat : n <= N => found[n] \in V /\ FromFirst(zone, records, n, found[n])}
<1>8. 0 \in P
  <2>1. found[0] = <<>>
    <3> HIDE DEF N
    <3> QED BY <1>1, <1>6
  <2>2. Kept(zone, records, 0) = {}
    BY DEF Kept
  <2>3. FromFirst(zone, records, 0, <<>>)
    BY <2>2, FS_EmptySet DEF FromFirst, Range, Ordered
  <2> QED BY <1>1, <2>1, <2>3
<1>9. ASSUME NEW n \in Nat, n \in P PROVE n + 1 \in P
  <2> SUFFICES ASSUME n + 1 <= N
               PROVE  found[n + 1] \in V /\ FromFirst(zone, records, n + 1, found[n + 1])
    OBVIOUS
  <2>1. n + 1 \in 0..N /\ n + 1 # 0 /\ (n + 1) - 1 = n /\ n <= N /\ 1..(n + 1) \subseteq DOMAIN records
    BY <1>1
  <2>2. found[n + 1] = AddExchange(zone, found[n], records[n + 1])
    <3> HIDE DEF N
    <3> QED BY <1>6, <2>1
  <2>3. found[n] \in Seq(T) /\ FromFirst(zone, records, n, found[n]) /\ Resolved(zone, records[n + 1]) \in T
    BY <1>1, <1>9, <2>1
  <2>4. ASSUME NEW i \in 1..(n + 1)
        PROVE  records[i].preference \in Int /\ records[i].preference <= records[n + 1].preference
    <3>1. i \in DOMAIN records /\ n + 1 \in DOMAIN records /\ (i = n + 1 \/ i < n + 1)
      BY <2>1
    <3>2. records[i].preference \in Int /\ records[n + 1].preference \in Int
      BY <3>1 DEF Preferred
    <3> HIDE DEF N
    <3> QED BY <3>1, <3>2 DEF Ordered
  <2> HIDE DEF N, T
  <2>5. /\ AddExchange(zone, found[n], records[n + 1]) \in Seq(T)
        /\ FromFirst(zone, records, n + 1, AddExchange(zone, found[n], records[n + 1]))
    BY <2>3, <2>4, AddKeeps
  <2> QED BY <2>2, <2>5
<1>10. Nat \subseteq P
  <2> HIDE DEF P
  <2> QED BY <1>8, <1>9, Induction
<1> QED BY <1>1, <1>7, <1>10

\* What TargetsUsable says of the targets: they are the items, and the call fails when there is none.
TargetsAre(zone, items, targets) ==
  /\ {NamedTarget(t.exchange, t.preference) : t \in Range(targets)} = {item[2] : item \in items}
  /\ Len(targets) = Cardinality(items)
  /\ \A i \in DOMAIN targets : Range(targets[i].addresses) = Ips(zone, targets[i].exchange)
  /\ Ordered(targets)
  /\ targets # <<>> <=> items # {}

\* The parts of an item.
LEMMA ItemIs ==
  ASSUME NEW records, NEW i
  PROVE  /\ Item(records, i)[1] = i
         /\ Item(records, i)[2] = NamedTarget(Trimmed(records[i].exchange), records[i].preference)
         /\ Item(records, i)[2].exchange = Trimmed(records[i].exchange)
BY DEF Item, NamedTarget

\* The parts of a destination; it has an address iff its host has one.
LEMMA ResolvedIs ==
  ASSUME NEW zone, HasRecords(zone.a), HasRecords(zone.aaaa), NEW exchange, NEW preference
  PROVE  LET destination == Destination(zone, exchange, preference)
         IN /\ destination.exchange = exchange /\ destination.preference = preference
            /\ Range(destination.addresses) = Ips(zone, exchange)
            /\ destination.addresses = <<>> <=> Ips(zone, exchange) = {}
<1> DEFINE destination == Destination(zone, exchange, preference)
<1>1. /\ destination.exchange = exchange /\ destination.preference = preference
      /\ destination.addresses = AddressesOf(zone, exchange)
  BY DEF Destination
<1> HIDE DEF destination
<1> QED BY <1>1, AddressesAre DEF destination

\* The exchanges of an answer, in the order of the sorted one.
LEMMA ExchangesCorrect ==
  ASSUME NEW zone, HasRecords(zone.a), HasRecords(zone.aaaa),
         NEW R, NEW records \in Preferred(R)
  PROVE  TargetsAre(zone, Usable(zone, ItemsOf(records)),
                    ResolveExchanges(zone, SortedByPreference(records)))
<1> DEFINE sorted == SortedByPreference(records)
           D == DOMAIN records
           targets == ResolveExchanges(zone, sorted)
           wanted == Usable(zone, ItemsOf(records))
           kept == Kept(zone, sorted, Len(sorted))
           T == {Resolved(zone, record) : record \in R}
<1>1. PICK from \in Bijection(D, D) :
        /\ sorted = [r \in D |-> records[from[r]]]
        /\ \A q, r \in D : q < r =>
             \/ sorted[q].preference < sorted[r].preference
             \/ sorted[q].preference = sorted[r].preference /\ from[q] < from[r]
  BY SortedCorrect
<1>2. /\ from \in [D -> D] /\ \A q, r \in D : from[q] = from[r] => q = r
      /\ \A i \in D : \E r \in D : from[r] = i
  BY <1>1 DEF Bijection, Injection, Surjection, IsInjective
<1>3. D = 1..Len(records) /\ Len(records) \in Nat /\ \A i \in D : records[i].preference \in Int /\ records[i] \in R
  BY DEF Preferred
<1> HIDE DEF sorted
<1>4. sorted \in Preferred(R) /\ DOMAIN sorted = D /\ Len(sorted) = Len(records)
  <2>1. sorted \in [1..Len(records) -> R] /\ DOMAIN sorted = D
    BY <1>1, <1>2, <1>3
  <2>2. sorted \in Seq(R) /\ Len(sorted) = Len(records)
    BY <1>3, <2>1
  <2> QED BY <1>1, <1>2, <1>3, <2>1, <2>2 DEF Preferred
<1>5. Ordered(sorted)
  <2> SUFFICES ASSUME NEW q \in D, NEW r \in D, q < r
               PROVE  sorted[q].preference <= sorted[r].preference
    BY <1>4 DEF Ordered
  <2>1. sorted[q].preference \in Int /\ sorted[r].preference \in Int
    BY <1>4 DEF Preferred
  <2> QED BY <1>1, <2>1
<1>6. targets \in Seq(T) /\ FromFirst(zone, sorted, Len(sorted), targets)
  BY <1>4, <1>5, ExchangesAre
<1>7. \A record : /\ Resolved(zone, record).exchange = Trimmed(record.exchange)
                  /\ Resolved(zone, record).preference = record.preference
                  /\ Range(Resolved(zone, record).addresses) = Ips(zone, Trimmed(record.exchange))
                  /\ Resolved(zone, record).addresses = <<>> <=> Ips(zone, Trimmed(record.exchange)) = {}
  BY ResolvedIs DEF Resolved
<1> DEFINE g == [r \in kept |-> Item(records, from[r])]
<1>8. kept = {r \in D : Ips(zone, Trimmed(records[from[r]].exchange)) # {}}
  BY <1>1, <1>3, <1>4, <1>7 DEF Kept
<1>9. /\ \A item \in wanted : \E i \in D : item = Item(records, i)
      /\ \A i \in D : Item(records, i) \in wanted <=> Ips(zone, Trimmed(records[i].exchange)) # {}
  <2> SUFFICES \A i \in D : Item(records, i) \in wanted <=> Ips(zone, Trimmed(records[i].exchange)) # {}
    BY DEF Usable, ItemsOf
  <2> QED BY ItemIs DEF Usable, ItemsOf
<1> HIDE DEF kept, wanted
<1>10. g \in Bijection(kept, wanted)
  <2>1. g \in [kept -> wanted]
    BY <1>2, <1>8, <1>9
  <2>2. \A q, r \in kept : g[q] = g[r] => q = r
    <3> SUFFICES ASSUME NEW q \in kept, NEW r \in kept, g[q] = g[r] PROVE q = r
      OBVIOUS
    <3>1. from[q] = from[r]
      BY ItemIs
    <3> QED BY <1>2, <1>8, <3>1
  <2>3. \A w \in wanted : \E r \in kept : g[r] = w
    <3> TAKE w \in wanted
    <3>1. PICK i \in D : Ips(zone, Trimmed(records[i].exchange)) # {} /\ w = Item(records, i)
      BY <1>9
    <3>2. PICK r \in D : from[r] = i
      BY <1>2
    <3>3. r \in kept /\ g[r] = w
      BY <1>8, <3>1, <3>2
    <3> QED BY <3>3
  <2> HIDE DEF g
  <2> QED BY <2>1, <2>2, <2>3 DEF Bijection, Injection, Surjection, IsInjective
<1>11. IsFiniteSet(kept) /\ Len(targets) = Cardinality(kept)
  BY <1>6 DEF FromFirst, kept
<1>12. Range(targets) = {Resolved(zone, records[from[r]]) : r \in kept}
  <2>1. Range(targets) = {Resolved(zone, sorted[r]) : r \in kept}
    BY <1>6 DEF FromFirst, kept
  <2>2. \A r \in kept : sorted[r] = records[from[r]]
    BY <1>1, <1>8
  <2> HIDE DEF targets
  <2> QED BY <2>1, <2>2
<1> HIDE DEF g, targets, T
<1>13. Len(targets) = Cardinality(wanted)
  <2>1. ExistsBijection(kept, wanted)
    BY <1>10, Zenon DEF ExistsBijection
  <2> QED BY <1>11, <2>1, FS_Bijection, Zenon
<1>14. \A r \in kept : /\ g[r] \in wanted
                       /\ g[r][2] = NamedTarget(Resolved(zone, records[from[r]]).exchange,
                                               Resolved(zone, records[from[r]]).preference)
  <2> SUFFICES ASSUME NEW r \in kept
               PROVE  /\ g[r] \in wanted
                      /\ g[r][2] = NamedTarget(Resolved(zone, records[from[r]]).exchange,
                                               Resolved(zone, records[from[r]]).preference)
    OBVIOUS
  <2>1. g[r] \in wanted
    BY <1>10 DEF Bijection, Injection
  <2>2. g[r] = Item(records, from[r])
    BY DEF g
  <2>3. g[r][2] = NamedTarget(Trimmed(records[from[r]].exchange), records[from[r]].preference)
    BY <2>2, ItemIs
  <2> QED BY <1>7, <2>1, <2>3
<1>15. {NamedTarget(t.exchange, t.preference) : t \in Range(targets)} = {item[2] : item \in wanted}
  <2>1. \A item \in wanted : \E r \in kept : g[r] = item
    BY <1>10, Zenon DEF Bijection, Surjection
  <2> QED BY <1>12, <1>14, <2>1
<1>16. \A i \in DOMAIN targets : Range(targets[i].addresses) = Ips(zone, targets[i].exchange)
  <2> TAKE i \in DOMAIN targets
  <2>1. targets[i] \in Range(targets)
    BY DEF Range
  <2>2. PICK r \in kept : targets[i] = Resolved(zone, records[from[r]])
    BY <1>12, <2>1
  <2> QED BY <1>7, <2>2
<1>17. Ordered(targets)
  BY <1>6 DEF FromFirst
<1>18. targets # <<>> <=> wanted # {}
  <2>1. targets # <<>> <=> Range(targets) # {}
    <3>1. targets # <<>> => 1 \in DOMAIN targets
      BY <1>6
    <3>2. targets = <<>> => DOMAIN targets = {}
      OBVIOUS
    <3> QED BY <3>1, <3>2, Zenon DEF Range
  <2>2. Range(targets) # {} <=> {item[2] : item \in wanted} # {}
    BY <1>15
  <2> QED BY <2>1, <2>2
<1> QED BY <1>13, <1>15, <1>16, <1>17, <1>18 DEF TargetsAre, wanted, targets, sorted

\* The one destination of resolve_fallback_a_aaaa.
LEMMA FallbackCorrect ==
  ASSUME NEW zone, HasRecords(zone.a), HasRecords(zone.aaaa), NEW domain
  PROVE  LET destination == Destination(zone, domain, 0)
         IN TargetsAre(zone, Usable(zone, {Itself(domain)}),
                       IF destination.addresses = <<>> THEN <<>> ELSE <<destination>>)
<1> DEFINE destination == Destination(zone, domain, 0)
           items == Usable(zone, {Itself(domain)})
           targets == IF destination.addresses = <<>> THEN <<>> ELSE <<destination>>
<1>1. /\ destination.exchange = domain /\ destination.preference = 0
      /\ Range(destination.addresses) = Ips(zone, domain)
      /\ destination.addresses = <<>> <=> Ips(zone, domain) = {}
  BY ResolvedIs
<1>2. Itself(domain)[2] = NamedTarget(domain, 0) /\ Itself(domain)[2].exchange = domain
  BY DEF Itself, NamedTarget
<1> HIDE DEF destination
<1>3. CASE destination.addresses = <<>>
  <2>1. items = {} /\ targets = <<>>
    BY <1>1, <1>2, <1>3 DEF Usable
  <2>2. Cardinality(items) = 0
    BY <2>1, FS_EmptySet
  <2> HIDE DEF items, targets
  <2>3. Len(targets) = 0 /\ DOMAIN targets = {} /\ Range(targets) = {}
    BY <2>1 DEF Range
  <2>4. TargetsAre(zone, items, targets)
    BY <2>1, <2>2, <2>3 DEF TargetsAre, Ordered
  <2> QED BY <2>4 DEF items, targets, destination
<1>4. CASE destination.addresses # <<>>
  <2>1. items = {Itself(domain)} /\ targets = <<destination>>
    BY <1>1, <1>2, <1>4 DEF Usable
  <2>2. Cardinality(items) = 1
    BY <2>1, FS_Singleton
  <2> HIDE DEF items, targets
  <2>3. Len(targets) = 1 /\ DOMAIN targets = {1} /\ targets[1] = destination /\ targets # <<>>
    BY <2>1
  <2>4. Range(targets) = {destination}
    BY <2>3 DEF Range
  <2>5. {NamedTarget(t.exchange, t.preference) : t \in Range(targets)} = {item[2] : item \in items}
    BY <1>1, <1>2, <2>1, <2>4
  <2>6. Ordered(targets)
    BY <2>3 DEF Ordered
  <2>7. \A i \in DOMAIN targets : Range(targets[i].addresses) = Ips(zone, targets[i].exchange)
    BY <1>1, <2>3
  <2>8. TargetsAre(zone, items, targets)
    BY <2>1, <2>2, <2>3, <2>5, <2>6, <2>7 DEF TargetsAre
  <2> QED BY <2>8 DEF items, targets, destination
<1> QED BY <1>3, <1>4

\* A call succeeds iff it has a target.
LEMMA AnswerIs ==
  ASSUME NEW targets
  PROVE  /\ DnsFailedUnless(targets).records = targets
         /\ DnsFailedUnless(targets).error = "" <=> targets # <<>>
<1>1. CASE targets = <<>>
  <2>1. DnsFailedUnless(targets) = Failed("DnsResolutionFailed")
    BY <1>1, Zenon DEF DnsFailedUnless
  <2>2. \A error : Failed(error).error = error /\ Failed(error).records = <<>>
    BY DEF Failed
  <2>3. "DnsResolutionFailed" # ""
    BY Zenon
  <2> QED BY <1>1, <2>1, <2>2, <2>3, Zenon
<1>2. CASE targets # <<>>
  <2>1. DnsFailedUnless(targets) = Found(targets)
    BY <1>2, Zenon DEF DnsFailedUnless
  <2>2. Found(targets).error = "" /\ Found(targets).records = targets
    BY Zenon DEF Found
  <2> QED BY <1>2, <2>1, <2>2, Zenon
<1> QED BY <1>1, <1>2, Zenon

Answered(zone, domain, answer) ==
  /\ TargetsAre(zone, Wanted(zone, domain), answer.records)
  /\ answer.error = "" <=> Wanted(zone, domain) # {}

\* resolve, whatever the zone answers.
LEMMA ResolveCorrect ==
  ASSUME NEW zone \in Zones, NEW domain
  PROVE  Answered(zone, domain, ResolveTargets(zone, domain))
<1> DEFINE records == Lookup(zone, zone.mx, domain).records
           R == Range(records)
           targets == IF records # <<>> THEN ResolveExchanges(zone, SortedByPreference(records))
                      ELSE IF Destination(zone, domain, 0).addresses = <<>> THEN <<>>
                      ELSE <<Destination(zone, domain, 0)>>
<1>1. /\ HasRecords(zone.mx) /\ HasRecords(zone.a) /\ HasRecords(zone.aaaa)
      /\ \A name \in DOMAIN zone.mx : \A record \in Range(zone.mx[name].records) :
           record.preference \in Nat
  BY ZonesHaveRecords
<1>2. IsAnswer(zone, zone.mx, domain, records)
  BY <1>1, LookupIs
<1>3. ResolveTargets(zone, domain) = DnsFailedUnless(targets)
  BY Zenon DEF ResolveTargets, ResolveFallback
<1> HIDE DEF records
<1>4. ASSUME records = <<>> PROVE TargetsAre(zone, Wanted(zone, domain), targets)
  <2>1. Listed(zone, domain) = {}
    <3>1. DOMAIN records = {}
      BY <1>4
    <3>2. ItemsOf(records) = {}
      BY <3>1 DEF ItemsOf
    <3>3. AnswersOf(zone, zone.mx, domain) = {} \/ AnswersOf(zone, zone.mx, domain) = {records}
      BY <1>2 DEF IsAnswer
    <3> QED BY <3>2, <3>3 DEF Listed
  <2>2. Wanted(zone, domain) = Usable(zone, {Itself(domain)})
    BY <2>1 DEF Wanted
  <2>3. TargetsAre(zone, Usable(zone, {Itself(domain)}),
                   IF Destination(zone, domain, 0).addresses = <<>> THEN <<>>
                   ELSE <<Destination(zone, domain, 0)>>)
    BY <1>1, FallbackCorrect
  <2> QED BY <1>4, <2>2, <2>3
<1>5. ASSUME records # <<>> PROVE TargetsAre(zone, Wanted(zone, domain), targets)
  <2>1. AnswersOf(zone, zone.mx, domain) = {records} /\ records \in Seq(R)
    BY <1>2, <1>5 DEF IsAnswer
  <2>2. PICK name \in DOMAIN zone.mx : zone.mx[name].records = records
    BY <2>1 DEF AnswersOf
  <2>3. \A i \in DOMAIN records : records[i].preference \in Int
    BY <1>1, <2>2 DEF Range
  <2>4. records \in Preferred(R)
    BY <2>1, <2>3 DEF Preferred
  <2>5. Listed(zone, domain) = ItemsOf(records) /\ ItemsOf(records) # {}
    <3>1. 1 \in DOMAIN records
      BY <1>5, <2>1
    <3> QED BY <2>1, <3>1 DEF Listed, ItemsOf
  <2>6. Wanted(zone, domain) = Usable(zone, ItemsOf(records))
    BY <2>5 DEF Wanted
  <2>7. TargetsAre(zone, Usable(zone, ItemsOf(records)),
                   ResolveExchanges(zone, SortedByPreference(records)))
    BY <1>1, <2>4, ExchangesCorrect
  <2> QED BY <1>5, <2>6, <2>7
<1>6. TargetsAre(zone, Wanted(zone, domain), targets)
  BY <1>4, <1>5
<1> HIDE DEF targets
<1>7. targets # <<>> <=> Wanted(zone, domain) # {}
  BY <1>6 DEF TargetsAre
<1> QED BY <1>3, <1>6, <1>7, AnswerIs DEF Answered

\* Whatever the zone answers (mx_resolve.rs:78-176, resolver.rs:174-257), unless the lookup of the MX
\* records itself fails: a delivery is tried once for each record whose exchange has an address, by
\* preference, or at the domain itself when there is no record; and it fails only when that leaves no
\* address.
THEOREM TargetsCorrect == Calls => []TargetsUsable
<1>1. InitCalls => TargetsUsable
  <2>1. InitCalls => call.of # "mx"
    BY DEF InitCalls, Idle
  <2> QED BY <2>1, Zenon DEF TargetsUsable
<1>2. TargetsUsable /\ [NextCall]_call => TargetsUsable'
  <2>1. CASE UNCHANGED call
    BY <2>1, Zenon DEF TargetsUsable
  <2>2. CASE NextCall /\ call'.of # "mx"
    BY <2>2, Zenon DEF TargetsUsable
  <2>3. CASE NextCall /\ call'.of = "mx"
    <3>1. ResolveDomain
      BY <2>3, CallNamed
    <3>2. PICK zone \in Zones, domain \in Domains :
            Called("mx", [zone |-> zone, domain |-> domain], ResolveTargets(zone, domain))
      BY <3>1 DEF ResolveDomain
    <3>3. call'.in.zone = zone /\ call'.in.domain = domain /\ call'.out = ResolveTargets(zone, domain)
      BY <3>2 DEF Called
    <3>4. Answered(call'.in.zone, call'.in.domain, call'.out)
      BY <3>3, ResolveCorrect
    <3> QED BY <3>4, Zenon DEF TargetsUsable, Answered, TargetsAre, Ordered
  <2> QED BY <2>1, <2>2, <2>3
<1> QED BY <1>1, <1>2, PTL DEF Calls

=============================================================================
