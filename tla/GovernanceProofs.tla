--------------------------- MODULE GovernanceProofs ---------------------------
(***************************************************************************)
(* The gateway's records and the server's limits, proved for any number of *)
(* records, processes, names, samples and requests:                        *)
(*   - AuditTrail: what it means that a trail verifies, from two           *)
(*     assumptions: hashes do not collide, and no edit puts a negative     *)
(*     number into a sequence (the -1 that firstTamperedSequence returns   *)
(*     for "none");                                                        *)
(*   - MetricsCounters: a snapshot that does not say it is degraded counts *)
(*     all that it has to find and nothing that was not bumped;            *)
(*   - Seasons: what a limiter serves in any stretch as long as a window;  *)
(*   - LatencyWindow: the window loses no live sample, and percentiles are *)
(*     the nearest-rank percentiles of the live ones.                      *)
(***************************************************************************)
EXTENDS MCGovernance, SequenceTheorems, FiniteSetTheorems, WellFoundedInduction, TLAPS

-----------------------------------------------------------------------------
(* AuditTrail.                                                             *)
(* SHA-256 tells records apart, and none of them hashes to GENESIS_HASH.   *)
CollisionFree ==
  /\ \A p, t, n, e, q, u, m, f :
       Hash(p, t, n, e) = Hash(q, u, m, f) => p = q /\ t = u /\ n = m /\ e = f
  /\ \A p, t, n, e : Hash(p, t, n, e) # Genesis

(* A sealed record carries the hash of its own fields. *)
SealedHashes ==
  \A s \in sealed : s.entryHash = Hash(s.prevHash, s.timestamp, s.sequence, s.event)

TrailInv == TypeOK /\ SealedHashes

LEMMA InitInv == Init => TrailInv
BY DEF Init, TrailInv, TypeOK, SealedHashes

LEMMA SeqOfSuperset ==
  ASSUME NEW S, NEW T, S \subseteq T, NEW s \in Seq(S)
  PROVE  s \in Seq(T)
OBVIOUS

(* Hashes known before append stay known, and the new one joins them.      *)
LEMMA AppendInv ==
  ASSUME TrailInv, AppendRecord
  PROVE  TrailInv'
<1>1. PICK event \in Events, now \in Times :
        /\ records' = Append(records, SealRecord(event, now))
        /\ sealed' = sealed \cup {SealRecord(event, now)}
  BY DEF AppendRecord
<1> DEFINE r == SealRecord(event, now)
<1>2. LastHash \in Hashes
  <2>1. CASE records = <<>>
    BY <2>1 DEF LastHash, Hashes
  <2>2. CASE records # <<>>
    <3>1. Len(records) \in DOMAIN records
      BY <2>2 DEF TrailInv, TypeOK
    <3>2. records[Len(records)] \in Record(Nat \cup EditedSequences)
      BY <3>1 DEF TrailInv, TypeOK
    <3> QED
      BY <2>2, <3>2 DEF LastHash, Record
  <2> QED
    BY <2>1, <2>2
<1>3. Hashes' = Hashes \cup {r.entryHash}
  BY <1>1 DEF Hashes
<1>4. /\ r.entryHash = Hash(r.prevHash, r.timestamp, r.sequence, r.event)
      /\ r \in [event: Events, timestamp: Times, sequence: Nat, prevHash: Hashes',
                entryHash: Hashes']
  <2>1. Len(records) \in Nat
    BY DEF TrailInv, TypeOK
  <2> QED
    BY <1>2, <1>3, <2>1 DEF SealRecord
<1> HIDE DEF r
<1>5. /\ Record(Nat) \subseteq Record(Nat)'
      /\ Record(Nat \cup EditedSequences) \subseteq Record(Nat \cup EditedSequences)'
      /\ r \in Record(Nat)' /\ r \in Record(Nat \cup EditedSequences)'
  BY <1>3, <1>4 DEF Record
<1>6. sealed' \subseteq Record(Nat)' /\ SealedHashes'
  BY <1>1, <1>4, <1>5 DEF TrailInv, TypeOK, SealedHashes, r
<1>7. records' \in Seq(Record(Nat \cup EditedSequences)')
  <2>1. records \in Seq(Record(Nat \cup EditedSequences)')
    BY <1>5, SeqOfSuperset DEF TrailInv, TypeOK
  <2> QED
    BY <1>1, <1>5, <2>1 DEF r
<1> QED
  BY <1>6, <1>7 DEF AppendRecord, TrailInv, TypeOK

(* A change leaves the sealed records alone and keeps the type of the rest. *)
LEMMA ChangeInv ==
  ASSUME TrailInv, EditRecord \/ RemoveRecord \/ ReorderRecords
  PROVE  TrailInv'
<1> DEFINE R == Record(Nat \cup EditedSequences)
<1>1. UNCHANGED sealed /\ changes' \in Nat
  BY DEF EditRecord, RemoveRecord, ReorderRecords, Change, TrailInv, TypeOK
<1>2. Hashes' = Hashes /\ R' = R /\ Record(Nat)' = Record(Nat)
  BY <1>1 DEF Hashes, Record
<1>3. records \in Seq(R)
  BY DEF TrailInv, TypeOK
<1>4. CASE EditRecord
  <2>1. PICK i \in DOMAIN records, q \in R : records' = [records EXCEPT ![i] = q]
    <3>1. PICK i \in DOMAIN records :
            \/ \E e \in Events : records' = [records EXCEPT ![i].event = e]
            \/ \E t \in Times : records' = [records EXCEPT ![i].timestamp = t]
            \/ \E n \in EditedSequences : records' = [records EXCEPT ![i].sequence = n]
            \/ \E h \in Hashes : records' = [records EXCEPT ![i].prevHash = h]
            \/ \E h \in Hashes : records' = [records EXCEPT ![i].entryHash = h]
      BY <1>4 DEF EditRecord
    <3>2. records[i] \in R
      BY <1>3, <3>1
    <3>3. /\ \A e \in Events : [records[i] EXCEPT !.event = e] \in R
          /\ \A t \in Times : [records[i] EXCEPT !.timestamp = t] \in R
          /\ \A n \in EditedSequences : [records[i] EXCEPT !.sequence = n] \in R
          /\ \A h \in Hashes : [records[i] EXCEPT !.prevHash = h] \in R
          /\ \A h \in Hashes : [records[i] EXCEPT !.entryHash = h] \in R
      BY <3>2 DEF Record
    <3> HIDE DEF R
    <3> QED
      BY <3>1, <3>3
  <2> HIDE DEF R
  <2>2. records' \in Seq(R)
    BY <1>3, <2>1
  <2> QED
    BY <1>1, <1>2, <2>2 DEF TrailInv, TypeOK, SealedHashes, R
<1>5. CASE RemoveRecord
  <2> HIDE DEF R
  <2>1. PICK i \in DOMAIN records : records' = RemoveAt(records, i)
    BY <1>5 DEF RemoveRecord
  <2>2. SubSeq(records, 1, i - 1) \in Seq(R) /\ SubSeq(records, i + 1, Len(records)) \in Seq(R)
    BY <1>3, <2>1
  <2>3. records' \in Seq(R)
    BY <2>1, <2>2 DEF RemoveAt
  <2> QED
    BY <1>1, <1>2, <2>3 DEF TrailInv, TypeOK, SealedHashes, R
<1>6. CASE ReorderRecords
  <2> HIDE DEF R
  <2>1. PICK i, j \in DOMAIN records :
          records' = [records EXCEPT ![i] = records[j], ![j] = records[i]]
    BY <1>6 DEF ReorderRecords
  <2>2. records[i] \in R /\ records[j] \in R
    BY <1>3, <2>1
  <2>3. records' \in Seq(R)
    BY <1>3, <2>1, <2>2
  <2> QED
    BY <1>1, <1>2, <2>3 DEF TrailInv, TypeOK, SealedHashes, R
<1> QED
  BY <1>4, <1>5, <1>6

LEMMA NextInv ==
  ASSUME TrailInv, [Next]_vars
  PROVE  TrailInv'
<1>1. CASE UNCHANGED vars
  BY <1>1 DEF vars, TrailInv, TypeOK, SealedHashes, Record, Hashes
<1> QED
  BY <1>1, AppendInv, ChangeInv DEF Next

LEMMA NoCollision ==
  ASSUME CollisionFree, NEW p, NEW t, NEW n, NEW e
  PROVE  /\ Hash(p, t, n, e) # Genesis
         /\ \A q, u, m, f :
              Hash(q, u, m, f) = Hash(p, t, n, e) => q = p /\ u = t /\ m = n /\ f = e
BY DEF CollisionFree

LEMMA SameFields ==
  ASSUME NEW N, NEW M, NEW r \in Record(N), NEW s \in Record(M),
         s.prevHash = r.prevHash, s.timestamp = r.timestamp, s.sequence = r.sequence,
         s.event = r.event, s.entryHash = r.entryHash
  PROVE  s = r
BY DEF Record

(* A record that carries the hash of its own fields, and a hash that was   *)
(* once computed, is the record that was sealed with it.                   *)
LEMMA UntamperedIsSealed ==
  ASSUME CollisionFree, TrailInv, NEW i \in DOMAIN records, i \notin Tampered
  PROVE  records[i] \in sealed /\ records[i].prevHash = PrevHash(i)
<1> DEFINE r == records[i]
<1>1. r \in Record(Nat \cup EditedSequences)
  BY DEF TrailInv, TypeOK
<1>2. r.prevHash = PrevHash(i) /\ r.entryHash = Hash(r.prevHash, r.timestamp, r.sequence, r.event)
  BY DEF Tampered
<1>3. r.entryHash # Genesis /\ r.entryHash \in Hashes
  <2>1. r.entryHash \in Hashes
    BY <1>1 DEF Record
  <2>2. Hash(r.prevHash, r.timestamp, r.sequence, r.event) # Genesis
    BY NoCollision
  <2> QED
    BY <1>2, <2>1, <2>2
<1>4. PICK s \in sealed : s.entryHash = r.entryHash
  BY <1>3 DEF Hashes
<1>5. s.entryHash = Hash(s.prevHash, s.timestamp, s.sequence, s.event) /\ s \in Record(Nat)
  BY <1>4 DEF TrailInv, TypeOK, SealedHashes
<1>6. /\ s.prevHash = r.prevHash /\ s.timestamp = r.timestamp
      /\ s.sequence = r.sequence /\ s.event = r.event
  <2>1. Hash(s.prevHash, s.timestamp, s.sequence, s.event)
          = Hash(r.prevHash, r.timestamp, r.sequence, r.event)
    BY <1>2, <1>4, <1>5, Zenon
  <2> QED
    BY <2>1, NoCollision
<1>7. s = r
  BY <1>1, <1>4, <1>5, <1>6, SameFields
<1> QED
  BY <1>2, <1>4, <1>7

LEMMA InvIntact ==
  ASSUME CollisionFree, EditedSequences \subseteq Nat, TrailInv
  PROVE  IntactMeansSealed
<1> SUFFICES ASSUME Verify
             PROVE  \A i \in DOMAIN records :
                      records[i] \in sealed /\ records[i].prevHash = PrevHash(i)
  BY DEF IntactMeansSealed
<1>1. ASSUME NEW i \in DOMAIN records
      PROVE  records[i].sequence \in Nat
  <2>1. records[i] \in Record(Nat \cup EditedSequences)
    BY DEF TrailInv, TypeOK
  <2> QED
    BY <2>1 DEF Record
<1>2. Tampered \subseteq DOMAIN records
  BY DEF Tampered
<1>3. Tampered = {}
  BY <1>1, <1>2 DEF Verify, FirstTamperedSequence
<1> QED
  BY <1>3, UntamperedIsSealed

-----------------------------------------------------------------------------
(* Type correctness of the trail, however it is changed.                   *)
THEOREM TrailTypes == Spec => []TypeOK
<1>1. TrailInv /\ [Next]_vars => TrailInv'
  BY NextInv
<1>2. TrailInv => TypeOK
  BY DEF TrailInv
<1> QED
  BY InitInv, <1>1, <1>2, PTL DEF Spec

(* verify(): when hashes do not collide and no sequence is edited to be    *)
(* negative, a trail that verifies holds nothing but records that append   *)
(* sealed, each right behind the one it was appended to.                   *)
THEOREM IntactTrails ==
  ASSUME CollisionFree, EditedSequences \subseteq Nat
  PROVE  Spec => []IntactMeansSealed
<1>1. TrailInv /\ [Next]_vars => TrailInv'
  BY NextInv
<1>2. TrailInv => IntactMeansSealed
  BY InvIntact
<1> QED
  BY InitInv, <1>1, <1>2, PTL DEF Spec

-----------------------------------------------------------------------------
(* Seasons. *)
(* The limits are whole numbers, and a window takes time.                  *)
LimiterAssumption ==
  /\ Base \in [{"api", "session"} -> Nat]
  /\ LimitWindow \in Nat \ {0} /\ LastSeason \in Nat

Seen == 0..LastSeason
Between(a, b) == {u \in Seen : a <= u /\ u <= b}

(* The requests that f counts at the times of T, one by one.               *)
Pairs(f, T) == UNION {{u} \X (1..f[u]) : u \in T}
Sum(f, a, b) == Cardinality(Pairs(f, Between(a, b)))

(* Of a limiter with limit m that let pass what f counts, counted h in the
   window that ends at r, at time t: the window, the window before it, and
   wherever one is put.                                                    *)
WithinWindows(f, h, r, m, t) ==
  /\ r - LimitWindow <= t /\ \A u \in Seen : f[u] > 0 => u <= t /\ u < r
  /\ Sum(f, r - LimitWindow, LastSeason) <= h /\ Sum(f, r - LimitWindow, LastSeason) <= m
  /\ Sum(f, r - LimitWindow - LimitWindow, r - LimitWindow - 1) <= m
  /\ \A u \in Seen : Sum(f, u, u + LimitWindow - 1) <= 2 * m

LimitOf(l, s) == (Base[l] * (11 - s)) \div 10

LimitersHold ==
  /\ epoch \in Myth!Epochs /\ strictness = Myth!GuardrailStrictness(epoch)
  /\ season \in Seen
  /\ hits \in [Myth!Limiters -> Nat] /\ resets \in [Myth!Limiters -> Nat]
  /\ served \in [Myth!Limiters -> [Seen -> Nat]]
  /\ \A l \in Myth!Limiters :
       WithinWindows(served[l], hits[l], resets[l], LimitOf(l, strictness), season)

-----------------------------------------------------------------------------
LEMMA PairsAreFinite ==
  ASSUME LastSeason \in Nat, NEW f \in [Seen -> Nat], NEW T \in SUBSET Seen
  PROVE  IsFiniteSet(Pairs(f, T)) /\ Cardinality(Pairs(f, T)) \in Nat
<1> DEFINE g == [u \in T |-> {u} \X (1..f[u])]
           R == {{u} \X (1..f[u]) : u \in T}
<1>1. IsFiniteSet(T)
  <2>1. IsFiniteSet(Seen)
    BY FS_Interval DEF Seen
  <2> QED
    BY <2>1, FS_Subset
<1>2. g \in Surjection(T, R)
  BY DEF Surjection
<1>3. IsFiniteSet(R)
  BY ONLY <1>1, <1>2, FS_Surjection
<1>4. \A u \in T : IsFiniteSet({u} \X (1..f[u]))
  <2> TAKE u \in T
  <2>1. f[u] \in Nat
    OBVIOUS
  <2>2. IsFiniteSet({u})
    BY FS_Singleton
  <2>3. IsFiniteSet(1..f[u])
    BY <2>1, FS_Interval
  <2> QED
    BY <2>2, <2>3, FS_Product
<1>5. IsFiniteSet(UNION R)
  <2>1. \A Q \in R : IsFiniteSet(Q)
    BY <1>4
  <2> QED
    BY ONLY <1>3, <2>1, FS_UNION
<1> QED
  BY <1>5, FS_CardinalityType DEF Pairs

LEMMA NoPairs ==
  ASSUME NEW f, NEW T \in SUBSET Seen, \A u \in T : f[u] = 0
  PROVE  Pairs(f, T) = {} /\ Cardinality(Pairs(f, T)) = 0
<1>1. \A u \in T : 1..f[u] = {}
  OBVIOUS
<1>2. Pairs(f, T) = {}
  BY <1>1 DEF Pairs
<1> QED
  BY <1>2, FS_EmptySet

(* More times, more requests.                                              *)
LEMMA PairsGrow ==
  ASSUME LastSeason \in Nat, NEW f \in [Seen -> Nat], NEW T \in SUBSET Seen, NEW U \in SUBSET T
  PROVE  Cardinality(Pairs(f, U)) <= Cardinality(Pairs(f, T))
<1>1. Pairs(f, U) \subseteq Pairs(f, T)
  BY DEF Pairs
<1> QED
  BY <1>1, PairsAreFinite, FS_Subset

LEMMA PairsOfBoth ==
  ASSUME LastSeason \in Nat, NEW f \in [Seen -> Nat], NEW T \in SUBSET Seen, NEW U \in SUBSET Seen
  PROVE  Cardinality(Pairs(f, T \cup U)) <= Cardinality(Pairs(f, T)) + Cardinality(Pairs(f, U))
<1> DEFINE P == Pairs(f, T)
           Q == Pairs(f, U)
<1>1. Pairs(f, T \cup U) = P \cup Q
  BY DEF Pairs
<1>2. IsFiniteSet(P) /\ IsFiniteSet(Q) /\ Cardinality(P) \in Nat /\ Cardinality(Q) \in Nat
  BY PairsAreFinite
<1> HIDE DEF P, Q
<1>3. IsFiniteSet(P \cap Q) /\ Cardinality(P \cap Q) \in Nat
  BY <1>2, FS_Intersection, FS_CardinalityType
<1>4. Cardinality(P \cup Q) = Cardinality(P) + Cardinality(Q) - Cardinality(P \cap Q)
  BY <1>2, FS_Union
<1>5. Cardinality(P \cup Q) <= Cardinality(P) + Cardinality(Q)
  BY <1>2, <1>3, <1>4
<1> QED
  BY <1>1, <1>5 DEF P, Q

(* One more request at time n counts where n is looked at.                 *)
LEMMA OneMorePair ==
  ASSUME LastSeason \in Nat, NEW f \in [Seen -> Nat], NEW n \in Seen, NEW g \in [Seen -> Nat],
         g[n] = f[n] + 1, \A u \in Seen : u # n => g[u] = f[u], NEW T \in SUBSET Seen
  PROVE  Cardinality(Pairs(g, T)) = IF n \in T THEN Cardinality(Pairs(f, T)) + 1
                                               ELSE Cardinality(Pairs(f, T))
<1>1. f[n] \in Nat /\ g[n] = f[n] + 1 /\ \A u \in T : u # n => g[u] = f[u]
  OBVIOUS
<1>2. CASE n \notin T
  <2>1. \A u \in T : g[u] = f[u]
    BY <1>1, <1>2
  <2>2. Pairs(g, T) = Pairs(f, T)
    BY <2>1 DEF Pairs
  <2> QED
    BY <1>2, <2>2
<1>3. CASE n \in T
  <2> DEFINE x == <<n, f[n] + 1>>
  <2>1. x \notin Pairs(f, T)
    BY <1>1 DEF Pairs
  <2>2. 1..(f[n] + 1) = (1..f[n]) \cup {f[n] + 1}
    BY <1>1
  <2>3. ASSUME NEW p
        PROVE  p \in Pairs(g, T) <=> p \in Pairs(f, T) \cup {x}
    <3>1. p \in Pairs(g, T) <=> \E u \in T : p \in {u} \X (1..g[u])
      BY DEF Pairs
    <3>2. p \in Pairs(f, T) <=> \E u \in T : p \in {u} \X (1..f[u])
      BY DEF Pairs
    <3>3. p \in {n} \X (1..g[n]) <=> p \in {n} \X (1..f[n]) \/ p = x
      BY <1>1, <2>2
    <3>4. \A u \in T : u # n => (p \in {u} \X (1..g[u]) <=> p \in {u} \X (1..f[u]))
      BY <1>1
    <3> HIDE DEF x
    <3> QED
      BY <1>3, <3>1, <3>2, <3>3, <3>4, Zenon
  <2>4. Pairs(g, T) = Pairs(f, T) \cup {x}
    BY <2>3
  <2> QED
    BY <1>3, <2>1, <2>4, PairsAreFinite, FS_AddElement
<1> QED
  BY <1>2, <1>3

LEMMA SumIsNatural ==
  ASSUME LastSeason \in Nat, NEW f \in [Seen -> Nat], NEW a, NEW b
  PROVE  Sum(f, a, b) \in Nat
  BY PairsAreFinite DEF Sum, Between

LEMMA SumOneMore ==
  ASSUME LastSeason \in Nat, NEW f \in [Seen -> Nat], NEW n \in Seen, NEW g \in [Seen -> Nat],
         g[n] = f[n] + 1, \A u \in Seen : u # n => g[u] = f[u], NEW a \in Int, NEW b \in Int
  PROVE  Sum(g, a, b) = IF a <= n /\ n <= b THEN Sum(f, a, b) + 1 ELSE Sum(f, a, b)
<1>1. n \in Between(a, b) <=> a <= n /\ n <= b
  BY DEF Between
<1>2. Between(a, b) \in SUBSET Seen
  BY DEF Between
<1>3. Cardinality(Pairs(g, Between(a, b)))
        = IF n \in Between(a, b) THEN Cardinality(Pairs(f, Between(a, b))) + 1
                                 ELSE Cardinality(Pairs(f, Between(a, b)))
  BY <1>2, OneMorePair
<1> QED
  BY <1>1, <1>3 DEF Sum

LEMMA SumWithin ==
  ASSUME LastSeason \in Nat, NEW f \in [Seen -> Nat], NEW a \in Int, NEW b \in Int, NEW c \in Int,
         NEW d \in Int, c <= a, b <= d \/ d = LastSeason
  PROVE  Sum(f, a, b) <= Sum(f, c, d)
<1>1. Between(a, b) \subseteq Between(c, d) /\ Between(c, d) \in SUBSET Seen
  BY DEF Between, Seen
<1> QED
  BY <1>1, PairsGrow DEF Sum

LEMMA SumOfParts ==
  ASSUME LastSeason \in Nat, NEW f \in [Seen -> Nat], NEW a \in Int, NEW b \in Int, NEW c \in Int
  PROVE  Sum(f, a, b) <= Sum(f, a, c - 1) + Sum(f, c, b)
<1> DEFINE S == Between(a, b)
           T == Between(a, c - 1)
           U == Between(c, b)
<1>1. S \subseteq T \cup U /\ T \in SUBSET Seen /\ U \in SUBSET Seen
  BY DEF Between, Seen
<1> HIDE DEF S, T, U
<1>2. Cardinality(Pairs(f, S)) <= Cardinality(Pairs(f, T \cup U))
  BY <1>1, PairsGrow
<1>3. Cardinality(Pairs(f, T \cup U)) <= Cardinality(Pairs(f, T)) + Cardinality(Pairs(f, U))
  BY <1>1, PairsOfBoth
<1>4. S \subseteq Seen
  BY <1>1
<1>5. /\ Cardinality(Pairs(f, S)) \in Nat /\ Cardinality(Pairs(f, T)) \in Nat
      /\ Cardinality(Pairs(f, U)) \in Nat /\ Cardinality(Pairs(f, T \cup U)) \in Nat
  BY <1>1, <1>4, PairsAreFinite
<1> QED
  BY <1>2, <1>3, <1>5 DEF Sum, S, T, U

LEMMA SumOfNone ==
  ASSUME NEW f, NEW a, NEW b, \A u \in Between(a, b) : f[u] = 0
  PROVE  Sum(f, a, b) = 0
  BY NoPairs DEF Sum, Between
-----------------------------------------------------------------------------
LEMMA LimitIsNatural ==
  ASSUME LimiterAssumption, NEW l \in Myth!Limiters, NEW s \in 5..10
  PROVE  LimitOf(l, s) \in Nat
<1>1. Base[l] \in Nat
  BY DEF LimiterAssumption, Myth!Limiters
<1>2. \A x \in Nat : x \div 10 \in Nat
  OBVIOUS
<1>3. Base[l] * (11 - s) \in Nat
  BY <1>1
<1> QED
  BY <1>2, <1>3 DEF LimitOf

(* A limiter that let nothing pass is within its windows.                  *)
LEMMA FreshIsWithin ==
  ASSUME LimiterAssumption, NEW h \in Nat, NEW r \in Nat, NEW m \in Nat, NEW t,
         r - LimitWindow <= t
  PROVE  WithinWindows([u \in Seen |-> 0], h, r, m, t)
<1> DEFINE f == [u \in Seen |-> 0]
<1>1. \A a, b : Sum(f, a, b) = 0
  BY SumOfNone DEF Between
<1>2. \A u \in Seen : f[u] = 0
  OBVIOUS
<1> HIDE DEF f
<1>3. 0 <= h /\ 0 <= m /\ 0 <= 2 * m
  OBVIOUS
<1> QED
  BY <1>1, <1>2, <1>3 DEF WithinWindows, f

(* A window that has ended makes room for one that starts now.             *)
LEMMA NextWindow ==
  ASSUME LimiterAssumption, NEW f \in [Seen -> Nat], NEW h \in Nat, NEW r \in Nat, NEW m \in Nat,
         NEW t \in Seen, WithinWindows(f, h, r, m, t), r <= t
  PROVE  WithinWindows(f, 0, t + LimitWindow, m, t)
<1> DEFINE W == LimitWindow
<1>1. W \in Nat \ {0} /\ LastSeason \in Nat /\ t \in Nat
  BY DEF LimiterAssumption, Seen
<1>2. \A u \in Seen : f[u] > 0 => u <= t /\ u < r
  BY DEF WithinWindows
<1>3. \A u \in Seen : f[u] > 0 => u <= t /\ u < t + W
  BY <1>1, <1>2 DEF Seen
<1>4. Sum(f, t, LastSeason) = 0
  <2>1. \A u \in Between(t, LastSeason) : f[u] = 0
    <3> TAKE u \in Between(t, LastSeason)
    <3>1. u \in Seen /\ t <= u /\ f[u] \in Nat /\ u \in Nat
      BY DEF Between, Seen
    <3> QED
      BY <1>1, <1>2, <3>1
  <2> QED
    BY <2>1, SumOfNone
<1>5. Sum(f, t - W, t - 1) <= m
  <2>1. Sum(f, t - W, t - 1) <= Sum(f, r - W, LastSeason)
    BY <1>1, SumWithin
  <2>2. Sum(f, t - W, t - 1) \in Nat /\ Sum(f, r - W, LastSeason) \in Nat
    BY <1>1, SumIsNatural
  <2>3. Sum(f, r - W, LastSeason) <= m
    BY DEF WithinWindows
  <2> QED
    BY <2>1, <2>2, <2>3
<1>6. \A u \in Seen : Sum(f, u, u + W - 1) <= 2 * m
  BY DEF WithinWindows
<1>7. t + W - W = t
  BY <1>1
<1> QED
  BY <1>1, <1>3, <1>4, <1>5, <1>6, <1>7 DEF WithinWindows

(* A request that is counted, and let pass only below the limit, leaves a
   limiter within the window that runs.                                    *)
LEMMA CountWithin ==
  ASSUME LimiterAssumption, NEW f \in [Seen -> Nat], NEW h \in Nat, NEW r \in Nat, NEW m \in Nat,
         NEW t \in Seen, WithinWindows(f, h, r, m, t)
  PROVE  WithinWindows(f, h + 1, r, m, t)
<1>1. r - LimitWindow \in Int /\ LastSeason \in Nat
  BY DEF LimiterAssumption
<1>2. Sum(f, r - LimitWindow, LastSeason) \in Nat
  BY <1>1, SumIsNatural
<1>3. Sum(f, r - LimitWindow, LastSeason) <= h + 1
  BY <1>2 DEF WithinWindows
<1> QED
  BY <1>3 DEF WithinWindows

LEMMA PassWithin ==
  ASSUME LimiterAssumption, NEW f \in [Seen -> Nat], NEW h \in Nat, NEW r \in Nat, NEW m \in Nat,
         NEW t \in Seen, WithinWindows(f, h, r, m, t), t < r, h + 1 <= m
  PROVE  WithinWindows([f EXCEPT ![t] = @ + 1], h + 1, r, m, t)
<1> DEFINE W == LimitWindow
           g == [f EXCEPT ![t] = @ + 1]
           start == r - W
<1>1. /\ W \in Nat \ {0} /\ LastSeason \in Nat /\ t \in Nat /\ start \in Int /\ t <= LastSeason
      /\ start <= t
  BY DEF LimiterAssumption, Seen, WithinWindows
<1>2. /\ Sum(f, start, LastSeason) <= h
      /\ Sum(f, start - W, start - 1) <= m
      /\ \A u \in Seen : Sum(f, u, u + W - 1) <= 2 * m
      /\ \A u \in Seen : f[u] > 0 => u <= t /\ u < r
  BY DEF WithinWindows
<1>3. g \in [Seen -> Nat]
  OBVIOUS
<1>4. ASSUME NEW a \in Int, NEW b \in Int
      PROVE  /\ Sum(f, a, b) \in Nat /\ Sum(g, a, b) \in Nat
             /\ a <= t /\ t <= b => Sum(g, a, b) = Sum(f, a, b) + 1
             /\ ~ (a <= t /\ t <= b) => Sum(g, a, b) = Sum(f, a, b)
  <2>1. Sum(f, a, b) \in Nat /\ Sum(g, a, b) \in Nat
    BY <1>1, <1>3, SumIsNatural
  <2>2. g[t] = f[t] + 1 /\ \A u \in Seen : u # t => g[u] = f[u]
    OBVIOUS
  <2> HIDE DEF g
  <2>3. Sum(g, a, b) = IF a <= t /\ t <= b THEN Sum(f, a, b) + 1 ELSE Sum(f, a, b)
    BY <1>1, <1>3, <2>2, SumOneMore
  <2> QED
    BY <2>1, <2>3
<1>5. \A u \in Seen : g[u] > 0 => u <= t /\ u < r
  BY <1>1, <1>2 DEF Seen
<1> HIDE DEF g, start, W
<1>7. Sum(g, start, LastSeason) <= h + 1 /\ Sum(g, start, LastSeason) <= m
  <2>1. Sum(g, start, LastSeason) = Sum(f, start, LastSeason) + 1
    BY <1>1, <1>4
  <2>2. Sum(f, start, LastSeason) \in Nat
    BY <1>1, SumIsNatural
  <2> QED
    BY <1>2, <2>1, <2>2
<1>8. Sum(g, start - W, start - 1) <= m
  <2>1. start - W \in Int /\ start - 1 \in Int /\ ~ (t <= start - 1)
    BY <1>1
  <2> QED
    BY <1>2, <1>4, <2>1
<1>9. ASSUME NEW u \in Seen
      PROVE  Sum(g, u, u + W - 1) <= 2 * m
  <2>1. u \in Int /\ u + W - 1 \in Int
    BY <1>1 DEF Seen
  <2>2. CASE ~ (u <= t /\ t <= u + W - 1)
    <3>1. Sum(g, u, u + W - 1) = Sum(f, u, u + W - 1)
      BY <1>4, <2>1, <2>2
    <3> QED
      BY <1>2, <3>1
  <2>3. CASE u <= t /\ t <= u + W - 1
    <3>1. Sum(g, u, u + W - 1) <= Sum(g, u, start - 1) + Sum(g, start, u + W - 1)
      BY <1>1, <1>3, <2>1, SumOfParts
    <3>2. Sum(g, u, start - 1) <= Sum(g, start - W, start - 1)
      <4>1. start - W <= u /\ start - W \in Int /\ start - 1 \in Int
        BY <1>1, <2>1, <2>3
      <4> QED
        BY <1>1, <1>3, <2>1, <4>1, SumWithin
    <3>3. Sum(g, start, u + W - 1) <= Sum(g, start, LastSeason)
      BY <1>1, <1>3, <2>1, SumWithin
    <3>4. start - W \in Int /\ start - 1 \in Int
      BY <1>1
    <3>5. /\ Sum(g, u, start - 1) \in Nat /\ Sum(g, start - W, start - 1) \in Nat
          /\ Sum(g, start, u + W - 1) \in Nat /\ Sum(g, start, LastSeason) \in Nat
          /\ Sum(g, u, u + W - 1) \in Nat
      BY <1>1, <1>3, SumIsNatural
    <3> QED
      BY <1>7, <1>8, <3>1, <3>2, <3>3, <3>5
  <2> QED
    BY <2>2, <2>3
<1> QED
  BY <1>1, <1>5, <1>7, <1>8, <1>9 DEF WithinWindows, start, W, g

(* What a limiter does with a request it meets.                            *)
LEMMA MeetWithin ==
  ASSUME LimiterAssumption, NEW f \in [Seen -> Nat], NEW h \in Nat, NEW r \in Nat, NEW m \in Nat,
         NEW t \in Seen, WithinWindows(f, h, r, m, t),
         NEW k \in Nat, k = IF t >= r THEN 1 ELSE h + 1,
         NEW q \in Nat, q = IF t >= r THEN t + LimitWindow ELSE r
  PROVE  /\ WithinWindows(f, k, q, m, t)
         /\ k <= m => WithinWindows([f EXCEPT ![t] = @ + 1], k, q, m, t)
<1>1. CASE t >= r
  <2>1. t < t + LimitWindow /\ r <= t /\ t + LimitWindow \in Nat
    BY <1>1 DEF LimiterAssumption, Seen
  <2>2. WithinWindows(f, 0, t + LimitWindow, m, t)
    BY <2>1, NextWindow
  <2>3. k = 1 /\ q = t + LimitWindow /\ 0 + 1 = 1 /\ 0 \in Nat
    BY <1>1
  <2>4. WithinWindows(f, 0 + 1, q, m, t)
    BY <2>1, <2>2, <2>3, CountWithin
  <2>5. 0 + 1 <= m => WithinWindows([f EXCEPT ![t] = @ + 1], 0 + 1, q, m, t)
    BY <2>1, <2>2, <2>3, PassWithin
  <2> QED
    BY <2>3, <2>4, <2>5
<1>2. CASE ~ (t >= r)
  <2>1. t < r /\ k = h + 1 /\ q = r
    BY <1>2 DEF Seen, LimiterAssumption
  <2> QED
    <3>1. WithinWindows(f, h + 1, r, m, t)
      BY CountWithin
    <3>2. h + 1 <= m => WithinWindows([f EXCEPT ![t] = @ + 1], h + 1, r, m, t)
      BY <2>1, PassWithin
    <3> QED
      BY ONLY <2>1, <3>1, <3>2
<1> QED
  BY <1>1, <1>2

-----------------------------------------------------------------------------
(* An epoch has a strictness of its own.                                   *)
LEMMA StrictnessIsKnown ==
  ASSUME NEW e \in Myth!Epochs
  PROVE  Myth!GuardrailStrictness(e) \in 5..10
  BY DEF Myth!Epochs, Myth!GuardrailStrictness

LEMMA InitLimiters == ASSUME LimiterAssumption, Myth!Init PROVE LimitersHold
<1>1. /\ epoch = "Genesis" /\ strictness = 5 /\ season = 0
      /\ hits = [l \in Myth!Limiters |-> 0] /\ resets = [l \in Myth!Limiters |-> 0]
      /\ served = [l \in Myth!Limiters |-> [u \in Seen |-> 0]]
  BY DEF Myth!Init, Myth!None, Seen
<1>2. epoch \in Myth!Epochs /\ strictness = Myth!GuardrailStrictness(epoch)
  BY <1>1 DEF Myth!Epochs, Myth!GuardrailStrictness
<1>3. 0 \in Seen /\ 0 - LimitWindow <= 0
  BY DEF Seen, LimiterAssumption
<1>4. ASSUME NEW l \in Myth!Limiters
      PROVE  WithinWindows(served[l], hits[l], resets[l], LimitOf(l, strictness), season)
  <2>1. LimitOf(l, 5) \in Nat
    BY LimitIsNatural
  <2> QED
    BY <1>1, <1>3, <2>1, FreshIsWithin
<1>5. /\ hits \in [Myth!Limiters -> Nat] /\ resets \in [Myth!Limiters -> Nat]
      /\ served \in [Myth!Limiters -> [Seen -> Nat]]
  BY <1>1
<1> QED
  BY <1>1, <1>2, <1>3, <1>4, <1>5 DEF LimitersHold

(* A new epoch starts with what it serves.                                 *)
LEMMA MoveLimiters ==
  ASSUME LimiterAssumption, LimitersHold, NEW e \in Myth!Epochs, Myth!Move(e),
         UNCHANGED <<hits, resets, season>>
  PROVE  LimitersHold'
<1>1. /\ epoch' = e /\ strictness' = Myth!GuardrailStrictness(e)
      /\ served' = [l \in Myth!Limiters |-> [u \in Seen |-> 0]]
  BY DEF Myth!Move, Myth!None, Seen
<1>2. ASSUME NEW l \in Myth!Limiters
      PROVE  WithinWindows(served'[l], hits[l], resets[l], LimitOf(l, strictness'), season)
  <2>1. LimitOf(l, strictness') \in Nat
    BY <1>1, LimitIsNatural, StrictnessIsKnown
  <2>2. resets[l] - LimitWindow <= season /\ hits[l] \in Nat /\ resets[l] \in Nat
    BY DEF LimitersHold, WithinWindows
  <2> QED
    BY <1>1, <2>1, <2>2, FreshIsWithin
<1>3. served' \in [Myth!Limiters -> [Seen -> Nat]]
  BY <1>1
<1> QED
  BY <1>1, <1>2, <1>3 DEF LimitersHold

LEMMA RequestLimiters ==
  ASSUME LimiterAssumption, LimitersHold, NEW L \in SUBSET Myth!Limiters, Myth!Request(L)
  PROVE  LimitersHold'
<1> DEFINE Met == {l \in L : l = "api" \/ Myth!Passes("api")}
           Let == {l \in Met : Myth!Passes(l)}
<1>1. /\ hits' = [l \in Myth!Limiters |-> IF l \in Met THEN Myth!Count(l) ELSE hits[l]]
      /\ resets' = [l \in Myth!Limiters |->
                     IF l \in Met /\ Myth!Ended(l) THEN season + LimitWindow ELSE resets[l]]
      /\ served' = [l \in Myth!Limiters |->
                     IF l \in Let THEN [served[l] EXCEPT ![season] = @ + 1] ELSE served[l]]
      /\ UNCHANGED <<epoch, strictness, season>>
  BY DEF Myth!Request
<1>2. strictness \in 5..10 /\ season \in Seen /\ season \in Nat /\ LimitWindow \in Nat
  BY StrictnessIsKnown DEF LimitersHold, Seen, LimiterAssumption
<1>3. ASSUME NEW l \in Myth!Limiters
      PROVE  /\ hits'[l] \in Nat /\ resets'[l] \in Nat /\ served'[l] \in [Seen -> Nat]
             /\ WithinWindows(served'[l], hits'[l], resets'[l], LimitOf(l, strictness), season)
  <2> DEFINE m == LimitOf(l, strictness)
  <2>1. /\ hits[l] \in Nat /\ resets[l] \in Nat /\ served[l] \in [Seen -> Nat] /\ m \in Nat
        /\ WithinWindows(served[l], hits[l], resets[l], m, season)
    BY <1>2, LimitIsNatural DEF LimitersHold
  <2>2. Myth!Passes(l) <=> Myth!Count(l) <= m
    BY DEF Myth!Passes, Myth!Limit, LimitOf
  <2> HIDE DEF m
  <2>3. CASE l \notin Met
    <3>1. hits'[l] = hits[l] /\ resets'[l] = resets[l] /\ served'[l] = served[l]
      BY <1>1, <2>3
    <3> QED
      BY <2>1, <3>1 DEF m
  <2>4. CASE l \in Met
    <3> DEFINE k == Myth!Count(l)
    <3>1. /\ hits'[l] = k /\ k = IF season >= resets[l] THEN 1 ELSE hits[l] + 1
          /\ resets'[l] = IF season >= resets[l] THEN season + LimitWindow ELSE resets[l]
      BY <1>1, <2>4 DEF Myth!Count, Myth!Ended
    <3>2. k \in Nat /\ resets'[l] \in Nat
      BY <1>2, <2>1, <3>1
    <3> HIDE DEF k
    <3>3. /\ WithinWindows(served[l], k, resets'[l], m, season)
          /\ k <= m => WithinWindows([served[l] EXCEPT ![season] = @ + 1], k, resets'[l], m, season)
      BY <1>2, <2>1, <3>1, <3>2, MeetWithin
    <3>4. served'[l] = IF k <= m THEN [served[l] EXCEPT ![season] = @ + 1] ELSE served[l]
      BY <1>1, <2>2, <2>4 DEF k
    <3>5. [served[l] EXCEPT ![season] = @ + 1] \in [Seen -> Nat]
      BY <1>2, <2>1
    <3> QED
      BY <2>1, <3>1, <3>2, <3>3, <3>4, <3>5 DEF m
  <2> QED
    BY <2>3, <2>4
<1>4. /\ hits' \in [Myth!Limiters -> Nat] /\ resets' \in [Myth!Limiters -> Nat]
      /\ served' \in [Myth!Limiters -> [Seen -> Nat]]
  <2> HIDE DEF Met, Let
  <2> QED
    BY <1>1, <1>3
<1> HIDE DEF Met, Let
<1> QED
  BY <1>1, <1>3, <1>4 DEF LimitersHold

LEMMA TickLimiters ==
  ASSUME LimiterAssumption, LimitersHold, Myth!Tick
  PROVE  LimitersHold'
<1>1. season' = season + 1 /\ season < LastSeason /\ UNCHANGED <<epoch, strictness, hits, resets, served>>
  BY DEF Myth!Tick
<1>2. season \in Nat /\ season' \in Seen /\ LimitWindow \in Nat
  BY <1>1 DEF LimitersHold, Seen, LimiterAssumption
<1>3. ASSUME NEW l \in Myth!Limiters
      PROVE  WithinWindows(served[l], hits[l], resets[l], LimitOf(l, strictness), season')
  <2>1. resets[l] \in Nat /\ WithinWindows(served[l], hits[l], resets[l], LimitOf(l, strictness), season)
    BY DEF LimitersHold
  <2>2. resets[l] - LimitWindow <= season'
    BY <1>1, <1>2, <2>1 DEF WithinWindows
  <2>3. \A u \in Seen : served[l][u] > 0 => u <= season' /\ u < resets[l]
    BY <1>1, <1>2, <2>1 DEF WithinWindows, Seen
  <2> QED
    BY <2>1, <2>2, <2>3 DEF WithinWindows
<1> QED
  BY <1>1, <1>2, <1>3 DEF LimitersHold

LEMMA MythStep ==
  ASSUME LimiterAssumption, LimitersHold, [Myth!Next]_mythVars
  PROVE  LimitersHold'
<1>1. CASE UNCHANGED mythVars
  BY <1>1 DEF mythVars, LimitersHold
<1>2. ASSUME NEW e \in Myth!Epochs, Myth!Transition(e)
      PROVE  LimitersHold'
  BY <1>2, MoveLimiters DEF Myth!Transition
<1>3. CASE Myth!ProcessTelemetry
  BY <1>2, <1>3 DEF Myth!ProcessTelemetry, Myth!Epochs
<1>4. CASE Myth!GreatConvergence
  BY <1>4, MoveLimiters DEF Myth!GreatConvergence, Myth!Epochs
<1>5. CASE Myth!Request({"api"}) \/ Myth!Request(Myth!Limiters)
  BY <1>5, RequestLimiters DEF Myth!Limiters
<1> QED
  BY <1>1, <1>2, <1>3, <1>4, <1>5, TickLimiters DEF Myth!Next

LEMMA LimitersBound == LimiterAssumption /\ LimitersHold => EpochBound
<1>1. ASSUME LimiterAssumption, LimitersHold, NEW l \in Myth!Limiters, NEW t \in Seen
      PROVE  Cardinality(Myth!Passed(l, {u \in Seen : u \in t..t + LimitWindow - 1}))
               <= 2 * LimitOf(l, Myth!GuardrailStrictness(epoch))
  <2>1. Sum(served[l], t, t + LimitWindow - 1) <= 2 * LimitOf(l, strictness)
    BY <1>1 DEF LimitersHold, WithinWindows
  <2>2. \A u \in Seen : u \in t..t + LimitWindow - 1 <=> t <= u /\ u <= t + LimitWindow - 1
    BY <1>1 DEF Seen, LimiterAssumption
  <2>3. {u \in Seen : u \in t..t + LimitWindow - 1} = Between(t, t + LimitWindow - 1)
    BY <2>2 DEF Between
  <2>4. strictness = Myth!GuardrailStrictness(epoch)
    BY <1>1 DEF LimitersHold
  <2> QED
    BY <2>1, <2>3, <2>4 DEF Sum, Pairs, Myth!Passed
<1> QED
  BY <1>1 DEF EpochBound, Myth!EpochBound, Myth!Cardinality, Cardinality, LimitOf, Seen

-----------------------------------------------------------------------------
(* MetricsCounters. *)
BucketAssumption == MaxTime \in Nat

Snap == [active: BOOLEAN, bucket: 0..MaxTime, got: [Names -> Nat], degraded: BOOLEAN, own: [Names -> Nat]]
Report == [counters: [Names -> Nat], degraded: BOOLEAN, tally: [Names -> Nat], low: [Names -> Nat],
           high: [Names -> Nat]]
Cell == [Names -> [-1..MaxTime -> Nat]]

CounterTypes ==
  /\ tally \in [Processes -> [Names -> Nat]]
  /\ counts \in Cell /\ bumped \in Cell
  /\ isOpen \in [Processes -> BOOLEAN]
  /\ flight \in [Processes -> Seq(Counters!Command)]
  /\ snap \in [Processes -> Snap] /\ report \in [Processes -> Report]
  /\ bucket \in 0..MaxTime
  /\ \A p \in Processes : IsFiniteSet(Counters!Known(p))

Plus(n, b) == [op |-> "INCR", name |-> n, bucket |-> b]
Get(n, b) == [op |-> "GET", name |-> n, bucket |-> b]

(* Where a connection has a read of (n, b), and the increments before it.  *)
Asked(q, n, b) == {i \in DOMAIN q : q[i] = Get(n, b)}
Before(q, i, n, b) == {j \in DOMAIN q : j < i /\ q[j] = Plus(n, b)}

(* A read of (n, b), where Redis has counted c, that got g and has to find
   at least o: it is answered, or what is counted or sent before it will do. *)
ReadHolds(q, n, b, c, g, o) ==
  /\ g <= c
  /\ Asked(q, n, b) = {} => g >= o
  /\ \A i \in Asked(q, n, b) : g = 0 /\ c + Cardinality(Before(q, i, n, b)) >= o
  /\ \A i, j \in Asked(q, n, b) : i = j

(* Of a name: what its two reads got and have to find.                     *)
NameHolds(q, s, n, c) ==
  \E f, g, o, w \in Nat :
    /\ s.got[n] = f + g /\ s.own[n] = o + w
    /\ ReadHolds(q, n, s.bucket, c[s.bucket], f, o)
    /\ ReadHolds(q, n, s.bucket - 1, c[s.bucket - 1], g, w)

(* A connection asks for the buckets of the snapshot that is being made.   *)
ReadsBelong(q, s) ==
  \A i \in DOMAIN q :
    q[i].op = "GET" => s.active /\ q[i].bucket \in {s.bucket, s.bucket - 1}

SnapHolds(q, s, count) ==
  /\ ReadsBelong(q, s)
  /\ s.active /\ ~s.degraded => \A n \in Names : NameHolds(q, s, n, count[n])

(* The increments of (n, b) under way, wherever they are.                  *)
Coming(sent, n, b) ==
  {x \in Processes \X Nat : x[2] \in DOMAIN sent[x[1]] /\ sent[x[1]][x[2]] = Plus(n, b)}

Covered(sent, n, b, c, u) ==
  IsFiniteSet(Coming(sent, n, b)) /\ c + Cardinality(Coming(sent, n, b)) <= u

CountersHold ==
  /\ CounterTypes
  /\ \A p \in Processes : SnapHolds(flight[p], snap[p], counts)
  /\ \A n \in Names, b \in -1..MaxTime : Covered(flight, n, b, counts[n][b], bumped[n][b])
  /\ HealthyIsComplete

-----------------------------------------------------------------------------
LEMMA SameCardinality ==
  ASSUME NEW S
  PROVE  Counters!Cardinality(S) = Cardinality(S)
  BY DEF Counters!Cardinality, Cardinality

LEMMA FiniteBefore ==
  ASSUME NEW T, NEW q \in Seq(T), NEW i, NEW n, NEW b
  PROVE  IsFiniteSet(Before(q, i, n, b)) /\ Cardinality(Before(q, i, n, b)) \in Nat
<1>1. Len(q) \in Nat /\ DOMAIN q = 1..Len(q)
  OBVIOUS
<1>2. IsFiniteSet(DOMAIN q)
  BY <1>1, FS_Interval
<1>3. Before(q, i, n, b) \in SUBSET DOMAIN q
  BY DEF Before
<1> QED
  BY <1>2, <1>3, FS_Subset, FS_CardinalityType

(* When the next command is gone there are less increments before a read by
   one at most, and only when it was one.                                  *)
LEMMA BeforeOfTail ==
  ASSUME NEW T, NEW q \in Seq(T), q # <<>>, NEW i \in DOMAIN q, i # 1, NEW n, NEW b
  PROVE  Cardinality(Before(q, i, n, b))
           <= Cardinality(Before(Tail(q), i - 1, n, b)) + (IF q[1] = Plus(n, b) THEN 1 ELSE 0)
<1> DEFINE S == Before(q, i, n, b)
           U == Before(Tail(q), i - 1, n, b)
           f == [j \in S \ {1} |-> j - 1]
<1>1. /\ Tail(q) \in Seq(T) /\ Len(Tail(q)) = Len(q) - 1 /\ Len(q) \in Nat
      /\ \A j \in 1..Len(Tail(q)) : Tail(q)[j] = q[j + 1]
  OBVIOUS
<1>2. IsFiniteSet(S) /\ IsFiniteSet(U) /\ Cardinality(S) \in Nat /\ Cardinality(U) \in Nat
  BY <1>1, FiniteBefore
<1>3. \A j \in S \ {1} : j - 1 \in U /\ j \in Int
  BY <1>1 DEF Before
<1>4. f \in Injection(S \ {1}, U)
  BY <1>3 DEF Injection, IsInjective
<1> HIDE DEF f
<1>5. Cardinality(S \ {1}) <= Cardinality(U)
  BY <1>2, <1>4, FS_Injection
<1>6. Cardinality(S \ {1}) = IF 1 \in S THEN Cardinality(S) - 1 ELSE Cardinality(S)
  BY <1>2, FS_RemoveElement
<1>7. 1 \in S => q[1] = Plus(n, b)
  BY DEF Before
<1> HIDE DEF S, U
<1>8. Cardinality(S) <= Cardinality(U) + (IF q[1] = Plus(n, b) THEN 1 ELSE 0)
  BY <1>2, <1>5, <1>6, <1>7
<1> QED
  BY <1>8 DEF S, U

(* U has k elements more than S at most.                                   *)
Grown(S, U, k) ==
  /\ IsFiniteSet(U) /\ Cardinality(S) \in Nat /\ Cardinality(U) \in Nat
  /\ Cardinality(U) <= Cardinality(S) + k

(* Less is coming when the next command of a process is gone.              *)
LEMMA ComingOfTail ==
  ASSUME NEW sent \in [Processes -> Seq(Counters!Command)], NEW p \in Processes, sent[p] # <<>>,
         NEW rest \in [Processes -> Seq(Counters!Command)], rest[p] = Tail(sent[p]),
         \A r \in Processes : r # p => rest[r] = sent[r],
         NEW n, NEW b, IsFiniteSet(Coming(sent, n, b))
  PROVE  Grown(Coming(sent, n, b), Coming(rest, n, b), IF sent[p][1] = Plus(n, b) THEN -1 ELSE 0)
<1> DEFINE S == Coming(sent, n, b)
           U == Coming(rest, n, b)
           f == [x \in U |-> IF x[1] = p THEN <<p, x[2] + 1>> ELSE x]
<1>1. /\ Len(rest[p]) = Len(sent[p]) - 1 /\ Len(sent[p]) \in Nat /\ Len(sent[p]) # 0
      /\ \A j \in 1..Len(rest[p]) : rest[p][j] = sent[p][j + 1]
      /\ DOMAIN rest[p] = 1..Len(rest[p]) /\ DOMAIN sent[p] = 1..Len(sent[p])
  OBVIOUS
<1>2. \A x \in U : /\ x \in Processes \X Nat /\ x = <<x[1], x[2]>> /\ x[2] \in Nat /\ x[1] \in Processes
                   /\ x[1] = p => <<p, x[2] + 1>> \in S \ {<<p, 1>>}
                   /\ x[1] # p => x \in S \ {<<p, 1>>}
  <2> SUFFICES ASSUME NEW r \in Processes, NEW k \in Nat, <<r, k>> \in U
               PROVE  /\ r = p => <<p, k + 1>> \in S \ {<<p, 1>>}
                      /\ r # p => <<r, k>> \in S \ {<<p, 1>>}
    BY DEF Coming
  <2>1. k \in DOMAIN rest[r] /\ rest[r][k] = Plus(n, b)
    BY DEF Coming
  <2>2. CASE r = p
    BY <1>1, <2>1, <2>2 DEF Coming
  <2>3. CASE r # p
    BY <2>1, <2>3 DEF Coming
  <2> QED
    BY <2>2, <2>3
<1>3. f \in [U -> S \ {<<p, 1>>}]
  BY <1>2
<1>4. ASSUME NEW x \in U, NEW y \in U, f[x] = f[y]
      PROVE  x = y
  <2>1. /\ x = <<x[1], x[2]>> /\ x[2] \in Nat /\ f[x] = IF x[1] = p THEN <<p, x[2] + 1>> ELSE x
        /\ y = <<y[1], y[2]>> /\ y[2] \in Nat /\ f[y] = IF y[1] = p THEN <<p, y[2] + 1>> ELSE y
    BY <1>2
  <2> HIDE DEF f
  <2>2. f[x][1] = x[1] /\ f[x][2] = IF x[1] = p THEN x[2] + 1 ELSE x[2]
    BY <2>1
  <2>3. f[y][1] = y[1] /\ f[y][2] = IF y[1] = p THEN y[2] + 1 ELSE y[2]
    BY <2>1
  <2>4. x[1] = y[1] /\ x[2] = y[2]
    BY <1>4, <2>1, <2>2, <2>3
  <2> QED
    BY <2>1, <2>4
<1>5. f \in Injection(U, S \ {<<p, 1>>})
  <2> HIDE DEF f, U, S
  <2> QED
    BY <1>3, <1>4 DEF Injection, IsInjective
<1>6. /\ IsFiniteSet(S \ {<<p, 1>>}) /\ Cardinality(S) \in Nat
      /\ Cardinality(S \ {<<p, 1>>}) = IF <<p, 1>> \in S THEN Cardinality(S) - 1 ELSE Cardinality(S)
  BY FS_RemoveElement, FS_CardinalityType
<1>7. sent[p][1] = Plus(n, b) => <<p, 1>> \in S
  BY <1>1 DEF Coming
<1> HIDE DEF f, U, S
<1>8. /\ IsFiniteSet(U) /\ Cardinality(U) <= Cardinality(S \ {<<p, 1>>}) /\ Cardinality(U) \in Nat
  BY <1>5, <1>6, FS_Injection, FS_CardinalityType
<1>9. Cardinality(U) <= Cardinality(S) + (IF sent[p][1] = Plus(n, b) THEN -1 ELSE 0)
  BY <1>6, <1>7, <1>8
<1> QED
  BY <1>6, <1>8, <1>9 DEF U, S, Grown

-----------------------------------------------------------------------------
(* The names that a process knows, in the order their reads are sent.      *)
LEMMA SetToSeqLists ==
  ASSUME NEW S, IsFiniteSet(S)
  PROVE  /\ Cardinality(S) \in Nat
         /\ Counters!SetToSeq(S) \in [1..Cardinality(S) -> S]
         /\ \A x \in S : \E i \in 1..Cardinality(S) : Counters!SetToSeq(S)[i] = x
         /\ \A i, j \in 1..Cardinality(S) :
              Counters!SetToSeq(S)[i] = Counters!SetToSeq(S)[j] => i = j
<1> DEFINE n == Cardinality(S)
           g == Counters!SetToSeq(S)
<1>1. n \in Nat /\ ExistsBijection(1..n, S)
  BY FS_CardinalityType
<1>2. PICK f \in [1..n -> S] : \A a, b \in 1..n : f[a] = f[b] => a = b
  BY <1>1 DEF ExistsBijection, Bijection, Injection, IsInjective
<1>3. Counters!IsInjective(f)
  BY <1>2 DEF Counters!IsInjective
<1>4. g = CHOOSE h \in [1..n -> S] : Counters!IsInjective(h)
  BY SameCardinality DEF Counters!SetToSeq
<1>5. g \in [1..n -> S] /\ Counters!IsInjective(g)
  BY <1>2, <1>3, <1>4
<1>6. \A i, j \in 1..n : g[i] = g[j] => i = j
  BY <1>5 DEF Counters!IsInjective
<1> HIDE DEF g
<1>7. g \in Injection(1..n, S)
  BY <1>5, <1>6 DEF Injection, IsInjective
<1>8. Cardinality(1..n) = n
  BY <1>1, FS_Interval
<1>9. g \in Surjection(1..n, S)
  BY <1>7, <1>8, FS_Injection
<1>10. \A x \in S : \E i \in 1..n : g[i] = x
  BY <1>9 DEF Surjection
<1> QED
  BY <1>1, <1>5, <1>6, <1>10 DEF g

(* What a snapshot sends: for every name it knows one read of each of the
   two buckets.                                                            *)
LEMMA ReadsSent ==
  ASSUME BucketAssumption, CounterTypes, NEW p \in Processes
  PROVE  LET r == Counters!Reads(p) IN
         /\ r \in Seq(Counters!Command)
         /\ \A i \in DOMAIN r : \E n \in Counters!Known(p), b \in {bucket, bucket - 1} : r[i] = Get(n, b)
         /\ \A n \in Counters!Known(p), b \in {bucket, bucket - 1} : \E i \in DOMAIN r : r[i] = Get(n, b)
         /\ \A i, j \in DOMAIN r : r[i] = r[j] => i = j
<1> DEFINE S == Counters!Known(p)
           m == Cardinality(S)
           g == Counters!SetToSeq(S)
           r == Counters!Reads(p)
<1>1. S \subseteq Names /\ IsFiniteSet(S) /\ bucket \in 0..MaxTime /\ MaxTime \in Nat
  BY DEF CounterTypes, Counters!Known, BucketAssumption
<1>2. /\ m \in Nat /\ g \in [1..m -> S] /\ \A x \in S : \E i \in 1..m : g[i] = x
      /\ \A i, j \in 1..m : g[i] = g[j] => i = j
  BY <1>1, SetToSeqLists
<1>3. r = [i \in 1..2 * m |-> Get(g[(i + 1) \div 2], IF i % 2 = 1 THEN bucket ELSE bucket - 1)]
  BY SameCardinality DEF Counters!Reads, Get
<1> HIDE DEF r, g, m, S
<1>4. \A i \in 1..2 * m : (i + 1) \div 2 \in 1..m
  BY <1>2
<1>5. \A n, b, k, c : Get(n, b) = Get(k, c) => n = k /\ b = c
  BY DEF Get
<1>6. \A i \in DOMAIN r : \E n \in S, b \in {bucket, bucket - 1} : r[i] = Get(n, b)
  <2> TAKE i \in DOMAIN r
  <2>1. i \in 1..2 * m /\ g[(i + 1) \div 2] \in S
    BY <1>2, <1>3, <1>4
  <2> QED
    BY <1>3, <2>1
<1>7. \A n \in S, b \in {bucket, bucket - 1} : Get(n, b) \in Counters!Command
  BY <1>1 DEF Get, Counters!Command, Counters!Buckets
<1>8. r \in Seq(Counters!Command)
  <2>1. r \in [1..2 * m -> Counters!Command]
    BY <1>3, <1>6, <1>7
  <2>2. 2 * m \in Nat
    BY <1>2
  <2> QED
    BY <2>1, <2>2
<1>9. ASSUME NEW n \in S, NEW b \in {bucket, bucket - 1}
      PROVE  \E i \in DOMAIN r : r[i] = Get(n, b)
  <2>1. PICK k \in 1..m : g[k] = n
    BY <1>2
  <2>2. /\ 2 * k - 1 \in 1..2 * m /\ (2 * k - 1) % 2 = 1 /\ ((2 * k - 1) + 1) \div 2 = k
        /\ 2 * k \in 1..2 * m /\ (2 * k) % 2 # 1 /\ (2 * k + 1) \div 2 = k
    BY <1>2
  <2>3. CASE b = bucket
    BY <1>3, <2>1, <2>2, <2>3
  <2>4. CASE b = bucket - 1
    BY <1>1, <1>3, <2>1, <2>2, <2>4
  <2> QED
    BY <2>3, <2>4
<1>10. ASSUME NEW i \in DOMAIN r, NEW j \in DOMAIN r, r[i] = r[j]
       PROVE  i = j
  <2>1. i \in 1..2 * m /\ j \in 1..2 * m
    BY <1>3
  <2>2. g[(i + 1) \div 2] = g[(j + 1) \div 2]
    BY <1>3, <1>5, <1>10, <2>1
  <2>3. (i % 2 = 1) <=> (j % 2 = 1)
    <3>1. (IF i % 2 = 1 THEN bucket ELSE bucket - 1) = (IF j % 2 = 1 THEN bucket ELSE bucket - 1)
      BY <1>3, <1>5, <1>10, <2>1
    <3>2. bucket # bucket - 1
      BY <1>1
    <3> QED
      BY <3>1, <3>2
  <2>4. (i + 1) \div 2 = (j + 1) \div 2
    BY <1>2, <1>4, <2>1, <2>2
  <2> QED
    BY <2>1, <2>3, <2>4
<1> QED
  BY <1>6, <1>8, <1>9, <1>10 DEF r, S

-----------------------------------------------------------------------------
LEMMA InitCounters == ASSUME BucketAssumption, Counters!Init PROVE CountersHold
<1>1. /\ tally = [p \in Processes |-> [n \in Names |-> 0]]
      /\ counts = [n \in Names |-> [b \in -1..MaxTime |-> 0]] /\ bumped = counts
      /\ isOpen = [p \in Processes |-> FALSE]
      /\ flight = [p \in Processes |-> <<>>]
      /\ snap = [p \in Processes |-> Counters!NoSnap]
      /\ report = [p \in Processes |-> Counters!NoReport]
      /\ bucket = 0
  BY DEF Counters!Init, Counters!Zero, Counters!Empty, Counters!Buckets
<1>2. /\ Counters!NoSnap \in Snap /\ ~ Counters!NoSnap.active
      /\ Counters!NoReport \in Report /\ Counters!NoReport.degraded
  BY DEF Counters!NoSnap, Counters!NoReport, Counters!Zero, Snap, Report, BucketAssumption
<1>3. \A p \in Processes : Counters!Known(p) = {}
  BY <1>1 DEF Counters!Known
<1>4. CounterTypes
  <2>1. counts \in Cell /\ bumped \in Cell
    BY <1>1 DEF Cell
  <2>2. flight \in [Processes -> Seq(Counters!Command)] /\ tally \in [Processes -> [Names -> Nat]]
    BY <1>1
  <2>3. \A p \in Processes : IsFiniteSet(Counters!Known(p))
    BY <1>3, FS_EmptySet
  <2>4. snap \in [Processes -> Snap] /\ report \in [Processes -> Report]
    BY <1>1, <1>2
  <2>5. isOpen \in [Processes -> BOOLEAN] /\ bucket \in 0..MaxTime
    BY <1>1 DEF BucketAssumption
  <2> QED
    BY <2>1, <2>2, <2>3, <2>4, <2>5 DEF CounterTypes
<1>5. \A p \in Processes : SnapHolds(flight[p], snap[p], counts)
  BY <1>1, <1>2 DEF SnapHolds, ReadsBelong
<1>6. ASSUME NEW n \in Names, NEW b \in -1..MaxTime
      PROVE  Covered(flight, n, b, counts[n][b], bumped[n][b])
  <2>1. Coming(flight, n, b) = {}
    BY <1>1 DEF Coming
  <2>2. counts[n][b] = 0 /\ bumped[n][b] = 0
    BY <1>1
  <2> QED
    BY <2>1, <2>2, FS_EmptySet DEF Covered
<1>7. HealthyIsComplete
  BY <1>1, <1>2 DEF HealthyIsComplete, Counters!HealthyIsComplete
<1> QED
  BY <1>4, <1>5, <1>6, <1>7 DEF CountersHold

(* A connection takes more increments: what its reads find is as before.   *)
LEMMA AppendKeeps ==
  ASSUME NEW q \in Seq(Counters!Command), NEW s \in Snap, NEW count, SnapHolds(q, s, count),
         NEW n \in Names, NEW b \in -1..MaxTime
  PROVE  SnapHolds(Append(q, Plus(n, b)), s, count)
<1> DEFINE e == Append(q, Plus(n, b))
<1>1. /\ Len(q) \in Nat /\ DOMAIN q = 1..Len(q) /\ DOMAIN e = 1..Len(q) + 1
      /\ \A i \in DOMAIN q : e[i] = q[i]
      /\ e[Len(q) + 1] = Plus(n, b)
  OBVIOUS
<1> HIDE DEF e
<1>2. \A m, c : Asked(e, m, c) = Asked(q, m, c)
  <2> TAKE m, c
  <2>1. Plus(n, b) # Get(m, c)
    BY DEF Plus, Get
  <2> QED
    BY <1>1, <2>1 DEF Asked
<1>3. \A m, c : \A i \in Asked(q, m, c) : Before(e, i, m, c) = Before(q, i, m, c)
  <2> TAKE m, c
  <2> TAKE i \in Asked(q, m, c)
  <2>1. i \in 1..Len(q)
    BY <1>1 DEF Asked
  <2> QED
    BY <1>1, <2>1 DEF Before
<1>4. ReadsBelong(e, s)
  BY <1>1 DEF SnapHolds, ReadsBelong, Plus
<1>5. \A m, c, d, g, o : ReadHolds(q, m, c, d, g, o) => ReadHolds(e, m, c, d, g, o)
  BY <1>2, <1>3 DEF ReadHolds
<1>6. \A m \in Names : NameHolds(q, s, m, count[m]) => NameHolds(e, s, m, count[m])
  BY <1>5 DEF NameHolds
<1>7. SnapHolds(e, s, count)
  BY <1>4, <1>6 DEF SnapHolds
<1> QED
  BY <1>7 DEF e

(* An increment joins those under way.                                     *)
LEMMA ComingOfAppend ==
  ASSUME NEW sent \in [Processes -> Seq(Counters!Command)], NEW p \in Processes,
         NEW n \in Names, NEW b \in -1..MaxTime,
         NEW more \in [Processes -> Seq(Counters!Command)], more[p] = Append(sent[p], Plus(n, b)),
         \A r \in Processes : r # p => more[r] = sent[r],
         NEW m, NEW c, IsFiniteSet(Coming(sent, m, c))
  PROVE  Grown(Coming(sent, m, c), Coming(more, m, c), IF m = n /\ c = b THEN 1 ELSE 0)
<1> DEFINE S == Coming(sent, m, c)
           U == Coming(more, m, c)
           x == <<p, Len(sent[p]) + 1>>
<1>1. /\ Len(sent[p]) \in Nat /\ DOMAIN sent[p] = 1..Len(sent[p])
      /\ DOMAIN more[p] = 1..Len(sent[p]) + 1
      /\ \A i \in DOMAIN sent[p] : more[p][i] = sent[p][i]
      /\ more[p][Len(sent[p]) + 1] = Plus(n, b)
  OBVIOUS
<1>2. Plus(n, b) = Plus(m, c) => m = n /\ c = b
  BY DEF Plus
<1>3. U \subseteq IF m = n /\ c = b THEN S \cup {x} ELSE S
  <2> SUFFICES ASSUME NEW r \in Processes, NEW k \in Nat, <<r, k>> \in U
               PROVE  <<r, k>> \in S \/ (m = n /\ c = b /\ <<r, k>> = x)
    BY DEF Coming
  <2>1. k \in DOMAIN more[r] /\ more[r][k] = Plus(m, c)
    BY DEF Coming
  <2>2. CASE r = p /\ k = Len(sent[p]) + 1
    BY <1>1, <1>2, <2>1, <2>2
  <2>3. CASE r = p /\ k # Len(sent[p]) + 1
    <3>1. k \in 1..Len(sent[p])
      BY <1>1, <2>1, <2>3
    <3>2. k \in DOMAIN sent[p] /\ sent[p][k] = Plus(m, c)
      BY <1>1, <2>1, <2>3, <3>1
    <3> QED
      BY <2>3, <3>2 DEF Coming
  <2>4. CASE r # p
    BY <2>1, <2>4 DEF Coming
  <2> QED
    BY <2>2, <2>3, <2>4
<1> HIDE DEF S, U, x
<1>4. IsFiniteSet(S) /\ Cardinality(S) \in Nat
  BY FS_CardinalityType DEF S
<1>5. IsFiniteSet(S \cup {x}) /\ Cardinality(S \cup {x}) <= Cardinality(S) + 1
      /\ Cardinality(S \cup {x}) \in Nat
  <2>1. IsFiniteSet(S \cup {x})
        /\ Cardinality(S \cup {x}) = IF x \in S THEN Cardinality(S) ELSE Cardinality(S) + 1
    BY <1>4, FS_AddElement
  <2> QED
    BY <1>4, <2>1
<1>6. CASE m = n /\ c = b
  <2>1. IsFiniteSet(U) /\ Cardinality(U) <= Cardinality(S \cup {x}) /\ Cardinality(U) \in Nat
    BY <1>3, <1>5, <1>6, FS_Subset, FS_CardinalityType
  <2> QED
    BY <1>4, <1>5, <1>6, <2>1 DEF S, U, Grown
<1>7. CASE ~ (m = n /\ c = b)
  <2>1. IsFiniteSet(U) /\ Cardinality(U) <= Cardinality(S) /\ Cardinality(U) \in Nat
    BY <1>3, <1>4, <1>7, FS_Subset, FS_CardinalityType
  <2> QED
    BY <1>4, <1>7, <2>1 DEF S, U, Grown
<1> QED
  BY <1>6, <1>7

(* What covers the increments of (n, b), in numbers.                       *)
LEMMA CoveredNow ==
  ASSUME CountersHold, NEW n \in Names, NEW b \in -1..MaxTime
  PROVE  /\ IsFiniteSet(Coming(flight, n, b)) /\ counts[n][b] \in Nat /\ bumped[n][b] \in Nat
         /\ counts[n][b] + Cardinality(Coming(flight, n, b)) <= bumped[n][b]
  BY DEF CountersHold, Covered, CounterTypes, Cell

(* They are covered when no more are under way than are counted or bumped. *)
LEMMA StaysCovered ==
  ASSUME NEW sent, NEW more, NEW n, NEW b, NEW k \in Int,
         Grown(Coming(sent, n, b), Coming(more, n, b), k),
         NEW c \in Nat, NEW u \in Nat, NEW d \in Nat, NEW v \in Nat,
         c + Cardinality(Coming(sent, n, b)) <= u, d + k <= c + (v - u)
  PROVE  Covered(more, n, b, d, v)
<1>1. PICK x \in Nat, y \in Nat :
        x = Cardinality(Coming(sent, n, b)) /\ y = Cardinality(Coming(more, n, b))
  BY DEF Grown
<1>2. y <= x + k /\ c + x <= u
  BY <1>1 DEF Grown
<1>3. d + y <= v
  BY <1>2
<1> QED
  BY <1>1, <1>3 DEF Grown, Covered

LEMMA BumpKeeps ==
  ASSUME BucketAssumption, CountersHold, NEW p \in Processes, Counters!Bump(p)
  PROVE  CountersHold'
<1>1. PICK n \in Names :
        /\ tally' = [tally EXCEPT ![p][n] = @ + 1]
        /\ flight' = IF isOpen[p] THEN [flight EXCEPT ![p] = Append(@, Plus(n, bucket))] ELSE flight
        /\ bumped' = [bumped EXCEPT ![n][bucket] = @ + 1]
        /\ UNCHANGED <<counts, isOpen, snap, report, bucket>>
  BY DEF Counters!Bump, Counters!Incr, Plus
<1>2. /\ flight \in [Processes -> Seq(Counters!Command)] /\ tally \in [Processes -> [Names -> Nat]]
      /\ bumped \in Cell /\ counts \in Cell
      /\ bucket \in -1..MaxTime /\ bucket \in 0..MaxTime /\ Plus(n, bucket) \in Counters!Command
  <2>1. bucket \in 0..MaxTime
    BY DEF CountersHold, CounterTypes
  <2>2. bucket \in -1..MaxTime
    BY <2>1 DEF BucketAssumption
  <2>3. Plus(n, bucket) \in Counters!Command
    BY <2>2 DEF Plus, Counters!Command, Counters!Buckets
  <2> QED
    BY <2>1, <2>2, <2>3 DEF CountersHold, CounterTypes
<1>3. flight' \in [Processes -> Seq(Counters!Command)]
  <2>1. Append(flight[p], Plus(n, bucket)) \in Seq(Counters!Command)
    BY <1>2
  <2> QED
    BY <1>1, <1>2, <2>1
<1>4. /\ tally' \in [Processes -> [Names -> Nat]]
      /\ \A r \in Processes, m \in Names : tally'[r][m] = IF r = p /\ m = n THEN tally[r][m] + 1 ELSE tally[r][m]
  BY <1>1, <1>2
<1>5. /\ bumped' \in Cell
      /\ \A m \in Names, b \in -1..MaxTime :
           bumped'[m][b] = IF m = n /\ b = bucket THEN bumped[m][b] + 1 ELSE bumped[m][b]
  <2> PICK S : S = -1..MaxTime
    OBVIOUS
  <2>1. bumped \in [Names -> [S -> Nat]] /\ bucket \in S
    BY <1>2 DEF Cell
  <2>2. bumped' \in [Names -> [S -> Nat]]
    <3>1. [bumped[n] EXCEPT ![bucket] = @ + 1] \in [S -> Nat]
      <4>1. bumped[n] \in [S -> Nat]
        BY <2>1
      <4> QED
        BY <2>1, <4>1
    <3>2. bumped' = [bumped EXCEPT ![n] = [bumped[n] EXCEPT ![bucket] = @ + 1]]
      BY <1>1
    <3> QED
      BY <2>1, <3>1, <3>2
  <2>3. \A m \in Names, b \in S :
          bumped'[m][b] = IF m = n /\ b = bucket THEN bumped[m][b] + 1 ELSE bumped[m][b]
    BY <1>1, <2>1
  <2> QED
    BY <2>2, <2>3 DEF Cell
<1>6. \A r \in Processes : IsFiniteSet(Counters!Known(r)')
  <2> TAKE r \in Processes
  <2>1. Counters!Known(r)' \subseteq Counters!Known(r) \cup {n}
    BY <1>4 DEF Counters!Known
  <2>2. IsFiniteSet(Counters!Known(r) \cup {n})
    BY FS_AddElement DEF CountersHold, CounterTypes
  <2> QED
    BY <2>1, <2>2, FS_Subset
<1>7. CounterTypes'
  BY <1>1, <1>3, <1>4, <1>5, <1>6 DEF CountersHold, CounterTypes
<1>8. ASSUME NEW r \in Processes
      PROVE  SnapHolds(flight'[r], snap'[r], counts')
  <2>1. SnapHolds(flight[r], snap[r], counts) /\ snap[r] \in Snap /\ flight[r] \in Seq(Counters!Command)
    BY DEF CountersHold, CounterTypes
  <2>2. SnapHolds(Append(flight[r], Plus(n, bucket)), snap[r], counts)
    BY <1>2, <2>1, AppendKeeps
  <2>3. flight'[r] = flight[r] \/ flight'[r] = Append(flight[r], Plus(n, bucket))
    BY <1>1, <1>2
  <2> QED
    BY <1>1, <2>1, <2>2, <2>3
<1>9. ASSUME NEW m \in Names, NEW b \in -1..MaxTime
      PROVE  Covered(flight', m, b, counts'[m][b], bumped'[m][b])
  <2>1. /\ IsFiniteSet(Coming(flight, m, b)) /\ counts[m][b] + Cardinality(Coming(flight, m, b)) <= bumped[m][b]
        /\ counts[m][b] \in Nat /\ bumped[m][b] \in Nat
    BY DEF CountersHold, Covered, CounterTypes, Cell
  <2>2. Cardinality(Coming(flight, m, b)) \in Nat
    BY <2>1, FS_CardinalityType
  <2>3. CASE ~ isOpen[p]
    <3>1. flight' = flight
      BY <1>1, <2>3
    <3> QED
      BY <1>1, <1>5, <2>1, <2>2, <3>1 DEF Covered
  <2>4. CASE isOpen[p]
    <3>1. flight'[p] = Append(flight[p], Plus(n, bucket)) /\ \A r \in Processes : r # p => flight'[r] = flight[r]
      BY <1>1, <1>2, <2>4
    <3>2. /\ IsFiniteSet(Coming(flight', m, b)) /\ Cardinality(Coming(flight', m, b)) \in Nat
          /\ Cardinality(Coming(flight', m, b))
               <= Cardinality(Coming(flight, m, b)) + (IF m = n /\ b = bucket THEN 1 ELSE 0)
      <4>1. Grown(Coming(flight, m, b), Coming(flight', m, b), IF m = n /\ b = bucket THEN 1 ELSE 0)
        BY <1>2, <1>3, <2>1, <3>1, ComingOfAppend
      <4> QED
        BY <4>1 DEF Grown
    <3> QED
      BY <1>1, <1>5, <2>1, <2>2, <3>2 DEF Covered
  <2> QED
    BY <2>3, <2>4
<1>10. HealthyIsComplete'
  BY <1>1 DEF CountersHold, HealthyIsComplete, Counters!HealthyIsComplete
<1> QED
  BY <1>7, <1>8, <1>9, <1>10 DEF CountersHold

(* A sequence after another.                                               *)
LEMMA Joined ==
  ASSUME NEW T, NEW q \in Seq(T), NEW r \in Seq(T)
  PROVE  /\ Len(q) \in Nat /\ DOMAIN q = 1..Len(q) /\ Len(r) \in Nat /\ DOMAIN r = 1..Len(r)
         /\ q \o r \in Seq(T) /\ DOMAIN (q \o r) = 1..Len(q) + Len(r)
         /\ \A i \in DOMAIN q : (q \o r)[i] = q[i]
         /\ \A i \in DOMAIN (q \o r) :
              i \in DOMAIN q \/ (i - Len(q) \in DOMAIN r /\ (q \o r)[i] = r[i - Len(q)])
         /\ \A i \in DOMAIN r : Len(q) + i \in DOMAIN (q \o r) /\ (q \o r)[Len(q) + i] = r[i]
<1> PICK e : e = q \o r
  OBVIOUS
<1>1. /\ Len(q) \in Nat /\ DOMAIN q = 1..Len(q) /\ Len(r) \in Nat /\ DOMAIN r = 1..Len(r)
      /\ e \in Seq(T) /\ DOMAIN e = 1..Len(q) + Len(r)
  OBVIOUS
<1>2. /\ \A i \in 1..Len(q) : e[i] = q[i]
      /\ \A i \in 1..Len(q) + Len(r) : i > Len(q) => e[i] = r[i - Len(q)]
  OBVIOUS
<1>3. ASSUME NEW i \in DOMAIN e
      PROVE  i \in DOMAIN q \/ (i - Len(q) \in DOMAIN r /\ e[i] = r[i - Len(q)])
  BY <1>1, <1>2
<1>4. ASSUME NEW i \in DOMAIN r
      PROVE  Len(q) + i \in DOMAIN e /\ e[Len(q) + i] = r[i]
  <2>1. Len(q) + i \in 1..Len(q) + Len(r) /\ Len(q) + i > Len(q) /\ (Len(q) + i) - Len(q) = i
    BY <1>1
  <2> QED
    BY <1>1, <1>2, <2>1
<1> QED
  BY <1>1, <1>2, <1>3, <1>4

(* The reads of the names in K, each sent once.                            *)
Lists(r, K, B) ==
  /\ \A i \in DOMAIN r : \E n \in K, b \in {B, B - 1} : r[i] = Get(n, b)
  /\ \A n \in K, b \in {B, B - 1} : \E i \in DOMAIN r : r[i] = Get(n, b)
  /\ \A i, j \in DOMAIN r : r[i] = r[j] => i = j

(* What a snapshot that starts has to find: all that is counted or sent.   *)
Demands(s, q, K, B, count) ==
  \A n \in Names :
    /\ s.got[n] = 0
    /\ n \in K => s.own[n] = count[n][B] + count[n][B - 1]
                   + Cardinality({i \in DOMAIN q : q[i] = Plus(n, B)})
                   + Cardinality({i \in DOMAIN q : q[i] = Plus(n, B - 1)})
    /\ n \notin K => s.own[n] = 0

(* A snapshot asks for every name it knows, once the increments its process
   has sent; none of its reads is under way yet.                           *)
LEMMA ReadsKeep ==
  ASSUME NEW q \in Seq(Counters!Command), NEW r \in Seq(Counters!Command),
         NEW K \in SUBSET Names, NEW B, B \in -1..MaxTime /\ B - 1 \in -1..MaxTime,
         \A i \in DOMAIN q : q[i].op # "GET", Lists(r, K, B),
         NEW s \in Snap, s.active, s.bucket = B, NEW count \in Cell, Demands(s, q, K, B, count)
  PROVE  SnapHolds(q \o r, s, count)
<1> DEFINE e == q \o r
           U(n, b) == {i \in DOMAIN q : q[i] = Plus(n, b)}
<1>0. \A n \in Names : count[n][B] \in Nat /\ count[n][B - 1] \in Nat
  BY DEF Cell
<1>1. /\ Len(q) \in Nat /\ DOMAIN q = 1..Len(q) /\ Len(r) \in Nat /\ DOMAIN r = 1..Len(r)
      /\ e \in Seq(Counters!Command) /\ DOMAIN e = 1..Len(q) + Len(r)
      /\ \A i \in DOMAIN q : e[i] = q[i]
      /\ \A i \in DOMAIN e : i \in DOMAIN q \/ (i - Len(q) \in DOMAIN r /\ e[i] = r[i - Len(q)])
      /\ \A i \in DOMAIN r : Len(q) + i \in DOMAIN e /\ e[Len(q) + i] = r[i]
  BY Joined
<1> HIDE DEF e
<1>2. ReadsBelong(e, s)
  <2> SUFFICES ASSUME NEW i \in DOMAIN e, e[i].op = "GET"
               PROVE  e[i].bucket \in {B, B - 1}
    BY DEF ReadsBelong
  <2>1. i - Len(q) \in DOMAIN r /\ e[i] = r[i - Len(q)]
    BY <1>1
  <2>2. PICK n \in K, b \in {B, B - 1} : e[i] = Get(n, b)
    BY <2>1 DEF Lists
  <2> QED
    BY <2>2 DEF Get
<1>3. \A n, b : Get(n, b).op = "GET" /\ \A k, c : Get(n, b) = Get(k, c) => n = k /\ b = c
  BY DEF Get
<1>4. ASSUME NEW n, NEW b, NEW i \in Asked(e, n, b)
      PROVE  i - Len(q) \in DOMAIN r /\ r[i - Len(q)] = Get(n, b) /\ i \in Nat /\ n \in K
  <2>1. i \in DOMAIN e /\ e[i] = Get(n, b)
    BY DEF Asked
  <2>2. i \notin DOMAIN q
    <3>1. SUFFICES ASSUME i \in DOMAIN q
                   PROVE  FALSE
      OBVIOUS
    <3>2. e[i] = q[i] /\ q[i].op # "GET"
      BY <1>1, <3>1
    <3>3. q[i].op = "GET"
      BY ONLY <1>3, <2>1, <3>2
    <3> QED
      BY ONLY <3>2, <3>3
  <2>3. i - Len(q) \in DOMAIN r /\ r[i - Len(q)] = Get(n, b)
    BY <1>1, <2>1, <2>2
  <2>4. n \in K
    <3>1. PICK k \in K, c \in {B, B - 1} : r[i - Len(q)] = Get(k, c)
      BY <2>3 DEF Lists
    <3> QED
      BY <1>3, <2>3, <3>1
  <2> QED
    BY <1>1, <2>1, <2>3, <2>4
<1>5. ASSUME NEW n, NEW b, NEW i \in Asked(e, n, b), NEW j \in Asked(e, n, b)
      PROVE  i = j
  <2>1. i - Len(q) = j - Len(q) /\ i \in Nat /\ j \in Nat
    BY <1>4 DEF Lists
  <2> QED
    BY <1>1, <2>1
<1>6. ASSUME NEW n \in K, NEW b \in {B, B - 1}
      PROVE  Asked(e, n, b) # {}
  <2>1. PICK i \in DOMAIN r : r[i] = Get(n, b)
    BY DEF Lists
  <2> QED
    BY <1>1, <2>1 DEF Asked
<1>7. ASSUME NEW n, NEW b, NEW i \in Asked(e, n, b)
      PROVE  Cardinality(U(n, b)) \in Nat /\ Cardinality(U(n, b)) <= Cardinality(Before(e, i, n, b))
  <2>1. IsFiniteSet(Before(e, i, n, b)) /\ Cardinality(Before(e, i, n, b)) \in Nat
    BY <1>1, FiniteBefore
  <2>2. \A j \in DOMAIN q : j < i
    BY <1>1, <1>4
  <2>3. U(n, b) \subseteq Before(e, i, n, b)
    BY <1>1, <2>2 DEF Before
  <2> QED
    BY <2>1, <2>3, FS_Subset, FS_CardinalityType
<1>8. ASSUME NEW n \in K
      PROVE  NameHolds(e, s, n, count[n])
  <2> DEFINE u == Cardinality(U(n, B))
             v == Cardinality(U(n, B - 1))
  <2>1. u \in Nat /\ v \in Nat
    <3>1. \E i : i \in Asked(e, n, B)
      BY <1>6
    <3>2. \E i : i \in Asked(e, n, B - 1)
      BY <1>6
    <3> QED
      BY <1>7, <3>1, <3>2
  <2>2. count[n][B] \in Nat /\ count[n][B - 1] \in Nat
    BY <1>0
  <2>3. \A i \in Asked(e, n, B) : Cardinality(Before(e, i, n, B)) \in Nat /\ u <= Cardinality(Before(e, i, n, B))
    BY <1>1, <1>7, FiniteBefore
  <2>4. \A i \in Asked(e, n, B - 1) :
          Cardinality(Before(e, i, n, B - 1)) \in Nat /\ v <= Cardinality(Before(e, i, n, B - 1))
    BY <1>1, <1>7, FiniteBefore
  <2>5. s.own[n] = count[n][B] + count[n][B - 1] + u + v /\ s.got[n] = 0
    BY DEF Demands
  <2> HIDE DEF u, v, U
  <2>6. ReadHolds(e, n, B, count[n][B], 0, count[n][B] + u)
    <3>1. Asked(e, n, B) # {} /\ \A i, j \in Asked(e, n, B) : i = j
      BY <1>5, <1>6
    <3>2. \A i \in Asked(e, n, B) :
            count[n][B] + Cardinality(Before(e, i, n, B)) >= count[n][B] + u
      BY <2>1, <2>2, <2>3
    <3> QED
      BY <2>2, <3>1, <3>2 DEF ReadHolds
  <2>7. ReadHolds(e, n, B - 1, count[n][B - 1], 0, count[n][B - 1] + v)
    <3>1. Asked(e, n, B - 1) # {} /\ \A i, j \in Asked(e, n, B - 1) : i = j
      BY <1>5, <1>6
    <3>2. \A i \in Asked(e, n, B - 1) :
            count[n][B - 1] + Cardinality(Before(e, i, n, B - 1)) >= count[n][B - 1] + v
      BY <2>1, <2>2, <2>4
    <3> QED
      BY <2>2, <3>1, <3>2 DEF ReadHolds
  <2>8. s.own[n] = (count[n][B] + u) + (count[n][B - 1] + v) /\ s.got[n] = 0 + 0
        /\ count[n][B] + u \in Nat /\ count[n][B - 1] + v \in Nat /\ 0 \in Nat
    <3> PICK c \in Nat, d \in Nat : c = count[n][B] /\ d = count[n][B - 1]
      BY <2>2
    <3>1. c + d + u + v = (c + u) + (d + v) /\ c + u \in Nat /\ d + v \in Nat
      BY ONLY <2>1, c \in Nat, d \in Nat
    <3>2. s.own[n] = (c + u) + (d + v) /\ c + u \in Nat /\ d + v \in Nat
      BY <2>5, <3>1
    <3> QED
      BY <2>5, <3>2
  <2> QED
    BY <2>6, <2>7, <2>8 DEF NameHolds
<1>9. ASSUME NEW n \in Names \ K
      PROVE  NameHolds(e, s, n, count[n])
  <2>1. count[n][B] \in Nat /\ count[n][B - 1] \in Nat
    BY <1>0
  <2>2. \A b : Asked(e, n, b) = {}
    BY <1>4
  <2>3. ReadHolds(e, n, B, count[n][B], 0, 0) /\ ReadHolds(e, n, B - 1, count[n][B - 1], 0, 0)
    BY <2>1, <2>2 DEF ReadHolds
  <2>4. s.own[n] = 0 /\ s.got[n] = 0
    BY DEF Demands
  <2>5. 0 = 0 + 0 /\ 0 \in Nat
    OBVIOUS
  <2> QED
    BY <2>3, <2>4, <2>5 DEF NameHolds
<1>10. SnapHolds(e, s, count)
  BY <1>2, <1>8, <1>9 DEF SnapHolds
<1> QED
  BY <1>10 DEF e

LEMMA StartKeeps ==
  ASSUME BucketAssumption, CountersHold, NEW p \in Processes, Counters!StartSnapshot(p)
  PROVE  CountersHold'
<1>1. PICK q, r, K, B :
        q = flight[p] /\ r = Counters!Reads(p) /\ K = Counters!Known(p) /\ B = bucket
  OBVIOUS
<1>2. PICK s :
        s = [active |-> TRUE, bucket |-> B, got |-> Counters!Zero, degraded |-> FALSE,
             own |-> [n \in Names |-> IF n \in K
                                     THEN Counters!Window(counts, bucket)[n] + Counters!Underway(p, n, bucket)
                                          + Counters!Underway(p, n, bucket - 1)
                                     ELSE 0]]
  OBVIOUS
<1>3. /\ ~ snap[p].active
      /\ flight' = [flight EXCEPT ![p] = q \o r] /\ snap' = [snap EXCEPT ![p] = s]
      /\ UNCHANGED <<tally, counts, isOpen, report, bumped, bucket>>
  BY <1>1, <1>2 DEF Counters!StartSnapshot
<1>4. /\ q \in Seq(Counters!Command) /\ r \in Seq(Counters!Command) /\ Lists(r, K, B)
      /\ K \in SUBSET Names /\ counts \in Cell
      /\ flight \in [Processes -> Seq(Counters!Command)] /\ snap \in [Processes -> Snap]
  <2>1. K \in SUBSET Names
    BY <1>1 DEF Counters!Known
  <2>2. r \in Seq(Counters!Command) /\ Lists(r, K, B)
    BY <1>1, ReadsSent DEF CountersHold, Lists
  <2> QED
    BY <1>1, <2>1, <2>2 DEF CountersHold, CounterTypes
<1>5. /\ B \in 0..MaxTime /\ B \in -1..MaxTime /\ B - 1 \in -1..MaxTime
  <2>1. B \in 0..MaxTime /\ MaxTime \in Nat
    BY <1>1 DEF CountersHold, CounterTypes, BucketAssumption
  <2> QED
    BY <2>1
<1>6. \A i \in DOMAIN q : q[i].op # "GET"
  BY <1>1, <1>3 DEF CountersHold, SnapHolds, ReadsBelong
<1>7. \A n, b : Counters!Underway(p, n, b) = Cardinality({i \in DOMAIN q : q[i] = Plus(n, b)})
  BY <1>1, SameCardinality DEF Counters!Underway, Counters!Incr, Plus
<1>8. s \in Snap /\ s.active /\ s.bucket = B /\ Demands(s, q, K, B, counts)
  <2>1. ASSUME NEW n \in Names
        PROVE  /\ counts[n][B] \in Nat /\ counts[n][B - 1] \in Nat
               /\ Counters!Underway(p, n, B) \in Nat /\ Counters!Underway(p, n, B - 1) \in Nat
               /\ Counters!Window(counts, bucket)[n] = counts[n][B] + counts[n][B - 1]
    <3>1. counts[n][B] \in Nat /\ counts[n][B - 1] \in Nat
      BY <1>4, <1>5 DEF Cell
    <3>2. \A b : Cardinality({i \in DOMAIN q : q[i] = Plus(n, b)}) \in Nat
      <4>1. Len(q) \in Nat /\ DOMAIN q = 1..Len(q)
        BY <1>4
      <4>2. IsFiniteSet(DOMAIN q)
        BY <4>1, FS_Interval
      <4> TAKE b
      <4>3. {i \in DOMAIN q : q[i] = Plus(n, b)} \subseteq DOMAIN q
        OBVIOUS
      <4> QED
        BY <4>2, <4>3, FS_Subset, FS_CardinalityType
    <3>3. Counters!Window(counts, bucket)[n] = counts[n][B] + counts[n][B - 1]
      BY <1>1 DEF Counters!Window
    <3> QED
      <4>1. \A b : Counters!Underway(p, n, b) \in Nat
        BY ONLY <1>7, <3>2
      <4> QED
        BY ONLY <3>1, <3>3, <4>1
  <2>2. \A n \in Names :
          s.own[n] = IF n \in K THEN counts[n][B] + counts[n][B - 1] + Counters!Underway(p, n, B)
                                      + Counters!Underway(p, n, B - 1)
                                 ELSE 0
    BY <1>1, <1>2, <2>1
  <2>3. \A n \in Names : s.own[n] \in Nat
    BY <2>1, <2>2
  <2>4. s \in Snap
    <3>1. s.own \in [Names -> Nat] /\ Counters!Zero \in [Names -> Nat]
      BY <1>2, <2>3 DEF Counters!Zero
    <3> QED
      BY <1>2, <1>5, <3>1 DEF Snap
  <2>5. Demands(s, q, K, B, counts)
    BY <1>2, <1>7, <2>2 DEF Demands, Counters!Zero
  <2> QED
    BY <1>2, <2>4, <2>5
<1>9. SnapHolds(q \o r, s, counts)
  BY <1>4, <1>5, <1>6, <1>8, ReadsKeep
<1>10. q \o r \in Seq(Counters!Command)
  BY <1>4
<1>11. CounterTypes'
  <2>1. flight' \in [Processes -> Seq(Counters!Command)] /\ snap' \in [Processes -> Snap]
    BY <1>3, <1>4, <1>8, <1>10
  <2>2. \A t \in Processes : Counters!Known(t)' = Counters!Known(t)
    BY <1>3 DEF Counters!Known
  <2> QED
    BY <1>3, <2>1, <2>2 DEF CountersHold, CounterTypes
<1>12. ASSUME NEW t \in Processes
       PROVE  SnapHolds(flight'[t], snap'[t], counts')
  <2>1. CASE t = p
    BY <1>3, <1>4, <1>9, <2>1
  <2>2. CASE t # p
    <3>1. flight'[t] = flight[t] /\ snap'[t] = snap[t]
      BY <1>3, <1>4, <2>2
    <3> QED
      BY <1>3, <3>1 DEF CountersHold
  <2> QED
    BY <2>1, <2>2
<1>13. ASSUME NEW n \in Names, NEW b \in -1..MaxTime
       PROVE  Covered(flight', n, b, counts'[n][b], bumped'[n][b])
  <2>1. \A i \in DOMAIN (q \o r) : (q \o r)[i] = Plus(n, b) => i \in DOMAIN q
    <3>1. \A i \in DOMAIN r : r[i] # Plus(n, b)
      <4> TAKE i \in DOMAIN r
      <4>1. PICK k \in K, c \in {B, B - 1} : r[i] = Get(k, c)
        BY <1>4 DEF Lists
      <4> QED
        BY <4>1 DEF Get, Plus
    <3> QED
      BY <1>4, <3>1, Joined
  <2>2. \A i \in DOMAIN q : i \in DOMAIN (q \o r) /\ (q \o r)[i] = q[i]
    BY <1>4, Joined
  <2>3. \A t \in Processes, k \in Nat :
          k \in DOMAIN flight'[t] /\ flight'[t][k] = Plus(n, b)
            <=> k \in DOMAIN flight[t] /\ flight[t][k] = Plus(n, b)
    <3> TAKE t \in Processes, k \in Nat
    <3>1. CASE t = p
      <4>1. flight'[t] = q \o r /\ flight[t] = q
        BY <1>1, <1>3, <1>4, <3>1
      <4> QED
        BY <2>1, <2>2, <4>1
    <3>2. CASE t # p
      BY <1>3, <1>4, <3>2
    <3> QED
      BY <3>1, <3>2
  <2>4. Coming(flight', n, b) = Coming(flight, n, b)
    BY <2>3 DEF Coming
  <2> QED
    BY <1>3, <2>4 DEF CountersHold, Covered
<1>14. HealthyIsComplete'
  BY <1>3 DEF CountersHold, HealthyIsComplete, Counters!HealthyIsComplete
<1> QED
  BY <1>11, <1>12, <1>13, <1>14 DEF CountersHold

(* Redis executes the next command of a connection: a read finds no less,
   since what was sent before it is counted now.                           *)
LEMMA NextCommandKeeps ==
  ASSUME NEW q \in Seq(Counters!Command), q # <<>>, NEW n, NEW b, q[1] # Get(n, b),
         NEW c \in Nat, NEW d \in Nat, d = IF q[1] = Plus(n, b) THEN c + 1 ELSE c,
         NEW g \in Nat, NEW o \in Nat, ReadHolds(q, n, b, c, g, o)
  PROVE  ReadHolds(Tail(q), n, b, d, g, o)
<1> DEFINE e == Tail(q)
<1>1. /\ Len(q) \in Nat /\ Len(q) # 0 /\ DOMAIN q = 1..Len(q) /\ DOMAIN e = 1..Len(q) - 1
      /\ e \in Seq(Counters!Command) /\ \A i \in DOMAIN e : i + 1 \in DOMAIN q /\ i \in Nat /\ e[i] = q[i + 1]
  OBVIOUS
<1> HIDE DEF e
<1>2. q[1] # Get(n, b)
  OBVIOUS
<1>3. \A i \in Asked(e, n, b) : i + 1 \in Asked(q, n, b) /\ i \in Nat
  BY <1>1 DEF Asked
<1>4. Asked(e, n, b) = {} => Asked(q, n, b) = {}
  <2> SUFFICES ASSUME NEW i \in Asked(q, n, b) PROVE i - 1 \in Asked(e, n, b)
    OBVIOUS
  <2>1. i \in 1..Len(q) /\ q[i] = Get(n, b) /\ i # 1
    BY <1>1, <1>2 DEF Asked
  <2>2. i - 1 \in DOMAIN e /\ (i - 1) + 1 = i
    BY <1>1, <2>1
  <2> QED
    BY <1>1, <2>1, <2>2 DEF Asked
<1>5. g <= d
  BY DEF ReadHolds
<1>6. Asked(e, n, b) = {} => g >= o
  BY <1>4 DEF ReadHolds
<1>7. ASSUME NEW i \in Asked(e, n, b)
      PROVE  g = 0 /\ d + Cardinality(Before(e, i, n, b)) >= o
  <2>1. i + 1 \in Asked(q, n, b) /\ i \in Nat /\ i + 1 \in DOMAIN q /\ i + 1 # 1 /\ (i + 1) - 1 = i
    BY <1>1, <1>2, <1>3 DEF Asked
  <2>2. g = 0 /\ c + Cardinality(Before(q, i + 1, n, b)) >= o
    BY <2>1 DEF ReadHolds
  <2>3. Cardinality(Before(q, i + 1, n, b))
          <= Cardinality(Before(Tail(q), (i + 1) - 1, n, b)) + (IF q[1] = Plus(n, b) THEN 1 ELSE 0)
    BY <2>1, BeforeOfTail
  <2>4. Cardinality(Before(q, i + 1, n, b)) \in Nat /\ Cardinality(Before(e, i, n, b)) \in Nat
    BY <1>1, FiniteBefore
  <2>6. PICK x \in Nat, y \in Nat : x = Cardinality(Before(q, i + 1, n, b)) /\ y = Cardinality(Before(e, i, n, b))
    BY <2>4
  <2>7. x <= y + (IF q[1] = Plus(n, b) THEN 1 ELSE 0)
    BY <2>1, <2>3, <2>6 DEF e
  <2>8. d + y >= o
    BY <2>2, <2>6, <2>7
  <2> QED
    BY <2>2, <2>6, <2>8
<1>8. \A i, j \in Asked(e, n, b) : i = j
  <2> TAKE i, j \in Asked(e, n, b)
  <2>1. i + 1 = j + 1 /\ i \in Nat /\ j \in Nat
    BY <1>3 DEF ReadHolds
  <2> QED
    BY <2>1
<1> QED
  BY <1>5, <1>6, <1>7, <1>8 DEF ReadHolds, e

LEMMA OthersCountedKeeps ==
  ASSUME NEW q \in Seq(Counters!Command), NEW n, NEW b, NEW c \in Nat, NEW d \in Nat, c <= d,
         NEW g \in Nat, NEW o \in Nat, ReadHolds(q, n, b, c, g, o)
  PROVE  ReadHolds(q, n, b, d, g, o)
<1>1. \A i : Cardinality(Before(q, i, n, b)) \in Nat
  BY FiniteBefore
<1>2. ASSUME NEW i \in Asked(q, n, b)
      PROVE  g = 0 /\ d + Cardinality(Before(q, i, n, b)) >= o
  BY <1>1 DEF ReadHolds
<1>3. g <= d
  BY DEF ReadHolds
<1> QED
  BY <1>2, <1>3 DEF ReadHolds

LEMMA NextReadHolds ==
  ASSUME NEW q \in Seq(Counters!Command), q # <<>>, NEW n, NEW b, q[1] = Get(n, b),
         NEW c \in Nat, NEW g \in Nat, NEW o \in Nat, ReadHolds(q, n, b, c, g, o)
  PROVE  g = 0 /\ ReadHolds(Tail(q), n, b, c, c, o)
<1> DEFINE e == Tail(q)
<1>1. /\ Len(q) \in Nat /\ Len(q) # 0 /\ DOMAIN q = 1..Len(q)
      /\ \A i \in DOMAIN e : i + 1 \in DOMAIN q /\ i \in Nat /\ i + 1 # 1 /\ e[i] = q[i + 1]
  OBVIOUS
<1> HIDE DEF e
<1>2. 1 \in Asked(q, n, b)
  BY <1>1 DEF Asked
<1>3. Asked(e, n, b) = {}
  <2> SUFFICES ASSUME NEW i \in Asked(e, n, b) PROVE FALSE
    OBVIOUS
  <2>1. i + 1 \in Asked(q, n, b) /\ i + 1 # 1
    BY <1>1 DEF Asked
  <2> QED
    BY <1>2, <2>1 DEF ReadHolds
<1>4. Before(q, 1, n, b) = {}
  BY <1>1 DEF Before
<1>5. g = 0 /\ c + Cardinality({}) >= o
  BY <1>2, <1>4 DEF ReadHolds
<1>6. g = 0 /\ c >= o
  BY <1>5, FS_EmptySet
<1>7. c <= c
  OBVIOUS
<1> QED
  BY <1>3, <1>6, <1>7 DEF ReadHolds, e

(* A read is answered.                                                     *)
LEMMA AnswerKeeps ==
  ASSUME BucketAssumption, NEW q \in Seq(Counters!Command), q # <<>>, NEW s \in Snap,
         NEW count \in Cell, SnapHolds(q, s, count), NEW n \in Names, NEW b \in -1..MaxTime,
         q[1] = Get(n, b)
  PROVE  /\ [s EXCEPT !.got[n] = @ + count[n][b]] \in Snap
         /\ SnapHolds(Tail(q), [s EXCEPT !.got[n] = @ + count[n][b]], count)
<1> PICK B : B = s.bucket
  OBVIOUS
<1> PICK x : x = [s EXCEPT !.got[n] = @ + count[n][b]]
  OBVIOUS
<1>1. /\ B \in 0..MaxTime /\ B \in -1..MaxTime /\ B - 1 \in -1..MaxTime
      /\ s.got \in [Names -> Nat] /\ s.own \in [Names -> Nat]
  <2>1. B \in 0..MaxTime /\ s.got \in [Names -> Nat] /\ s.own \in [Names -> Nat]
    BY DEF Snap
  <2> QED
    BY <2>1 DEF BucketAssumption
<1>2. \A m \in Names, k \in -1..MaxTime : count[m][k] \in Nat
  BY DEF Cell
<1>3. /\ x \in Snap /\ x.active = s.active /\ x.degraded = s.degraded /\ x.bucket = B /\ x.own = s.own
      /\ x.got = [s.got EXCEPT ![n] = @ + count[n][b]]
  <2> PICK y : y = [s.got EXCEPT ![n] = @ + count[n][b]]
    OBVIOUS
  <2>1. s.got[n] + count[n][b] \in Nat
    BY <1>1, <1>2
  <2>2. y \in [Names -> Nat]
    BY <1>1, <2>1
  <2>3. x = [s EXCEPT !.got = y]
    OBVIOUS
  <2> QED
    BY <2>2, <2>3 DEF Snap
<1>4. \A m \in Names : x.got[m] = IF m = n THEN s.got[n] + count[n][b] ELSE s.got[m]
  BY <1>1, <1>3
<1>5. /\ Len(q) \in Nat /\ Len(q) # 0 /\ DOMAIN q = 1..Len(q) /\ Tail(q) \in Seq(Counters!Command)
      /\ \A i \in DOMAIN Tail(q) : i + 1 \in DOMAIN q /\ Tail(q)[i] = q[i + 1]
  OBVIOUS
<1>6. ReadsBelong(q, s)
  BY DEF SnapHolds
<1>7. b \in {B, B - 1}
  <2>1. 1 \in DOMAIN q
    BY <1>5
  <2> QED
    BY <1>6, <2>1 DEF ReadsBelong, Get
<1>8. ReadsBelong(Tail(q), x)
  BY <1>3, <1>5, <1>6 DEF ReadsBelong
<1>9. \A m, c : Get(n, b) = Get(m, c) => m = n /\ c = b
  BY DEF Get
<1>10. \A m, c : Get(n, b) # Plus(m, c)
  BY DEF Get, Plus
<1>11. ASSUME NEW m \in Names, NameHolds(q, s, m, count[m])
       PROVE  NameHolds(Tail(q), x, m, count[m])
  <2>1. PICK f, g, o, w \in Nat :
          /\ s.got[m] = f + g /\ s.own[m] = o + w
          /\ ReadHolds(q, m, B, count[m][B], f, o) /\ ReadHolds(q, m, B - 1, count[m][B - 1], g, w)
    BY <1>11 DEF NameHolds
  <2>2. count[m][B] \in Nat /\ count[m][B - 1] \in Nat /\ B # B - 1
    <3>1. B # B - 1
      BY <1>1
    <3> QED
      BY <1>1, <1>2, <3>1
  <2>3. q[1] # Get(m, B) => ReadHolds(Tail(q), m, B, count[m][B], f, o)
    BY <1>10, <2>1, <2>2, NextCommandKeeps
  <2>4. q[1] # Get(m, B - 1) => ReadHolds(Tail(q), m, B - 1, count[m][B - 1], g, w)
    BY <1>10, <2>1, <2>2, NextCommandKeeps
  <2>5. CASE m # n
    BY <1>3, <1>4, <1>9, <2>1, <2>3, <2>4, <2>5 DEF NameHolds
  <2>6. CASE m = n /\ b = B
    <3>1. f = 0 /\ ReadHolds(Tail(q), m, B, count[m][B], count[m][B], o)
      <4>1. q[1] = Get(m, B)
        BY <2>6
      <4> QED
        BY <2>1, <2>2, <4>1, NextReadHolds
    <3>2. ReadHolds(Tail(q), m, B - 1, count[m][B - 1], g, w)
      BY <1>9, <2>2, <2>4, <2>6
    <3>3. x.got[m] = count[m][B] + g
      BY <1>4, <2>1, <2>2, <2>6, <3>1
    <3> QED
      BY <1>3, <2>1, <2>2, <3>1, <3>2, <3>3 DEF NameHolds
  <2>7. CASE m = n /\ b = B - 1
    <3>1. g = 0 /\ ReadHolds(Tail(q), m, B - 1, count[m][B - 1], count[m][B - 1], w)
      BY <2>1, <2>2, <2>7, NextReadHolds
    <3>2. ReadHolds(Tail(q), m, B, count[m][B], f, o)
      BY <1>9, <2>2, <2>3, <2>7
    <3>3. x.got[m] = f + count[m][B - 1]
      BY <1>4, <2>1, <2>2, <2>7, <3>1
    <3> QED
      BY <1>3, <2>1, <2>2, <3>1, <3>2, <3>3 DEF NameHolds
  <2> QED
    BY <1>7, <2>5, <2>6, <2>7
<1>12. SnapHolds(Tail(q), x, count)
  BY <1>3, <1>8, <1>11 DEF SnapHolds
<1> QED
  BY <1>3, <1>12

(* One bucket of one name counts one more.                                 *)
OneMore(count, more, n, b) ==
  \A m \in Names, c \in -1..MaxTime :
    more[m][c] = IF Plus(n, b) = Plus(m, c) THEN count[m][c] + 1 ELSE count[m][c]

(* A connection that has had it executed, or another one.                  *)
Behind(q, e, n, b) == e = q \/ (q # <<>> /\ q[1] = Plus(n, b) /\ e = Tail(q))

(* An increment is counted: seen from its own process, and from another.   *)
LEMMA IncrementKeeps ==
  ASSUME BucketAssumption, NEW q \in Seq(Counters!Command), NEW s \in Snap,
         NEW count \in Cell, SnapHolds(q, s, count), NEW n \in Names, NEW b \in -1..MaxTime,
         NEW more \in Cell, OneMore(count, more, n, b), NEW e, Behind(q, e, n, b)
  PROVE  SnapHolds(e, s, more)
<1> PICK B : B = s.bucket
  OBVIOUS
<1>1. B \in -1..MaxTime /\ B - 1 \in -1..MaxTime
  <2>1. B \in 0..MaxTime
    BY DEF Snap
  <2> QED
    BY <2>1 DEF BucketAssumption
<1>2. \A m \in Names, k \in -1..MaxTime : count[m][k] \in Nat /\ more[m][k] \in Nat
  BY DEF Cell
<1>3. \A m \in Names, c \in -1..MaxTime : count[m][c] <= more[m][c]
  BY <1>2 DEF OneMore
<1>4. \A m, c : Get(m, c) # Plus(n, b)
  BY DEF Get, Plus
<1>5. ASSUME NEW m \in Names, NEW c \in {B, B - 1}, NEW g \in Nat, NEW o \in Nat,
             ReadHolds(q, m, c, count[m][c], g, o)
      PROVE  /\ ReadHolds(q, m, c, more[m][c], g, o)
             /\ q # <<>> /\ q[1] = Plus(n, b) => ReadHolds(Tail(q), m, c, more[m][c], g, o)
  <2>1. c \in -1..MaxTime /\ count[m][c] \in Nat /\ more[m][c] \in Nat /\ count[m][c] <= more[m][c]
    BY <1>1, <1>2, <1>3
  <2>2. ReadHolds(q, m, c, more[m][c], g, o)
    BY <1>5, <2>1, OthersCountedKeeps
  <2>3. ASSUME q # <<>>, q[1] = Plus(n, b)
        PROVE  ReadHolds(Tail(q), m, c, more[m][c], g, o)
    <3>1. more[m][c] = IF q[1] = Plus(m, c) THEN count[m][c] + 1 ELSE count[m][c]
      BY <2>1, <2>3 DEF OneMore
    <3>2. q[1] # Get(m, c)
      BY <1>4, <2>3
    <3> QED
      BY <1>5, <2>1, <2>3, <3>1, <3>2, NextCommandKeeps
  <2> QED
    BY <2>2, <2>3
<1>6. ASSUME NEW m \in Names, NameHolds(q, s, m, count[m])
      PROVE  /\ NameHolds(q, s, m, more[m])
             /\ q # <<>> /\ q[1] = Plus(n, b) => NameHolds(Tail(q), s, m, more[m])
  <2>1. PICK f, g, o, w \in Nat :
          /\ s.got[m] = f + g /\ s.own[m] = o + w
          /\ ReadHolds(q, m, B, count[m][B], f, o) /\ ReadHolds(q, m, B - 1, count[m][B - 1], g, w)
    BY <1>6 DEF NameHolds
  <2>2. /\ ReadHolds(q, m, B, more[m][B], f, o) /\ ReadHolds(q, m, B - 1, more[m][B - 1], g, w)
        /\ q # <<>> /\ q[1] = Plus(n, b) => /\ ReadHolds(Tail(q), m, B, more[m][B], f, o)
                                           /\ ReadHolds(Tail(q), m, B - 1, more[m][B - 1], g, w)
    BY <1>5, <2>1
  <2> QED
    BY <2>1, <2>2 DEF NameHolds
<1>7. q # <<>> => \A i \in DOMAIN Tail(q) : i + 1 \in DOMAIN q /\ Tail(q)[i] = q[i + 1]
  OBVIOUS
<1>8. q # <<>> => ReadsBelong(Tail(q), s)
  BY <1>7 DEF SnapHolds, ReadsBelong
<1> QED
  BY <1>6, <1>8 DEF SnapHolds, Behind

LEMMA ExecuteKeeps ==
  ASSUME BucketAssumption, CountersHold, NEW p \in Processes, Counters!RedisExecute(p)
  PROVE  CountersHold'
<1>1. PICK q, c : q = flight[p] /\ c = q[1]
  OBVIOUS
<1>2. /\ q \in Seq(Counters!Command) /\ q # <<>> /\ c \in Counters!Command
      /\ flight' = [flight EXCEPT ![p] = Tail(q)] /\ Tail(q) \in Seq(Counters!Command)
      /\ flight \in [Processes -> Seq(Counters!Command)] /\ snap \in [Processes -> Snap]
      /\ counts \in Cell /\ bumped \in Cell
      /\ c.op = "INCR" => counts' = [counts EXCEPT ![c.name][c.bucket] = @ + 1] /\ UNCHANGED snap
      /\ c.op # "INCR" => /\ snap' = [snap EXCEPT ![p].got[c.name] = @ + counts[c.name][c.bucket]]
                         /\ UNCHANGED counts
      /\ UNCHANGED <<tally, isOpen, report, bumped, bucket>>
  BY <1>1 DEF Counters!RedisExecute, CountersHold, CounterTypes
<1>3. /\ c.name \in Names /\ c.bucket \in -1..MaxTime /\ c.op \in {"INCR", "GET"}
      /\ c.op = "INCR" => c = Plus(c.name, c.bucket)
      /\ c.op = "GET" => c = Get(c.name, c.bucket)
  BY <1>2 DEF Counters!Command, Counters!Buckets, Plus, Get
<1>4. PICK n \in Names, b \in -1..MaxTime : n = c.name /\ b = c.bucket
  BY <1>3
<1>5. /\ flight' \in [Processes -> Seq(Counters!Command)] /\ flight'[p] = Tail(q)
      /\ \A r \in Processes : r # p => flight'[r] = flight[r]
  BY <1>2
<1>6. \A r \in Processes : Counters!Known(r)' = Counters!Known(r)
  BY <1>2 DEF Counters!Known
<1>7. HealthyIsComplete'
  BY <1>2 DEF CountersHold, HealthyIsComplete, Counters!HealthyIsComplete
<1>8. ASSUME NEW m \in Names, NEW k \in -1..MaxTime
      PROVE  /\ Grown(Coming(flight, m, k), Coming(flight', m, k), IF c = Plus(m, k) THEN -1 ELSE 0)
             /\ counts[m][k] \in Nat /\ bumped[m][k] \in Nat
             /\ counts[m][k] + Cardinality(Coming(flight, m, k)) <= bumped[m][k]
  <2>1. /\ IsFiniteSet(Coming(flight, m, k)) /\ counts[m][k] \in Nat /\ bumped[m][k] \in Nat
        /\ counts[m][k] + Cardinality(Coming(flight, m, k)) <= bumped[m][k]
    BY CoveredNow
  <2>2. Grown(Coming(flight, m, k), Coming(flight', m, k), IF flight[p][1] = Plus(m, k) THEN -1 ELSE 0)
    <3>1. /\ flight \in [Processes -> Seq(Counters!Command)] /\ flight[p] # <<>>
          /\ flight' \in [Processes -> Seq(Counters!Command)] /\ flight'[p] = Tail(flight[p])
      BY ONLY <1>1, <1>2, <1>5
    <3>2. \A r \in Processes : r # p => flight'[r] = flight[r]
      BY ONLY <1>5
    <3>3. IsFiniteSet(Coming(flight, m, k))
      BY ONLY <2>1
    <3> QED
      BY ONLY p \in Processes, <3>1, <3>2, <3>3, ComingOfTail
  <2> QED
    BY <1>1, <2>1, <2>2
<1>9. CASE c.op = "INCR"
  <2>1. counts' \in Cell /\ \A m \in Names, k \in -1..MaxTime :
          counts'[m][k] = IF Plus(n, b) = Plus(m, k) THEN counts[m][k] + 1 ELSE counts[m][k]
    <3> PICK S : S = -1..MaxTime
      OBVIOUS
    <3>1. counts \in [Names -> [S -> Nat]] /\ b \in S /\ counts' = [counts EXCEPT ![n][b] = @ + 1]
      BY <1>2, <1>4, <1>9 DEF Cell
    <3>2. counts' \in [Names -> [S -> Nat]]
      <4>1. counts[n] \in [S -> Nat]
        BY <3>1
      <4>2. [counts[n] EXCEPT ![b] = @ + 1] \in [S -> Nat]
        BY <3>1, <4>1
      <4>3. counts' = [counts EXCEPT ![n] = [counts[n] EXCEPT ![b] = @ + 1]]
        BY <3>1
      <4> QED
        BY <3>1, <4>2, <4>3
    <3>3. \A m \in Names, k \in S :
            counts'[m][k] = IF m = n /\ k = b THEN counts[m][k] + 1 ELSE counts[m][k]
      BY <3>1
    <3>4. \A m, k : Plus(n, b) = Plus(m, k) <=> m = n /\ k = b
      BY DEF Plus
    <3> QED
      BY <3>2, <3>3, <3>4 DEF Cell
  <2>2. snap' = snap /\ c = Plus(n, b)
    BY <1>2, <1>3, <1>4, <1>9
  <2>3. CounterTypes'
    BY <1>2, <1>5, <1>6, <2>1, <2>2 DEF CountersHold, CounterTypes
  <2>4. ASSUME NEW r \in Processes
        PROVE  SnapHolds(flight'[r], snap'[r], counts')
    <3>1. SnapHolds(flight[r], snap[r], counts) /\ snap[r] \in Snap /\ flight[r] \in Seq(Counters!Command)
      BY <1>2 DEF CountersHold
    <3>2. Behind(flight[r], flight'[r], n, b)
      BY <1>1, <1>2, <1>5, <2>2 DEF Behind
    <3>3. counts' \in Cell /\ OneMore(counts, counts', n, b)
      BY <2>1 DEF OneMore
    <3>4. SnapHolds(flight'[r], snap[r], counts')
      BY <1>2, <3>1, <3>2, <3>3, IncrementKeeps
    <3> QED
      BY <2>2, <3>4
  <2>5. ASSUME NEW m \in Names, NEW k \in -1..MaxTime
        PROVE  Covered(flight', m, k, counts'[m][k], bumped'[m][k])
    <3> PICK x \in Int : x = IF c = Plus(m, k) THEN -1 ELSE 0
      OBVIOUS
    <3>1. /\ counts'[m][k] = IF c = Plus(m, k) THEN counts[m][k] + 1 ELSE counts[m][k]
          /\ bumped'[m][k] = bumped[m][k] /\ counts[m][k] \in Nat /\ bumped[m][k] \in Nat
      BY <1>2, <1>8, <2>1, <2>2
    <3>2. /\ counts'[m][k] \in Nat /\ bumped'[m][k] \in Nat
          /\ counts'[m][k] + x <= counts[m][k] + (bumped'[m][k] - bumped[m][k])
      BY <3>1
    <3> QED
      BY <1>8, <3>1, <3>2, StaysCovered
  <2> QED
    BY <1>7, <2>3, <2>4, <2>5 DEF CountersHold
<1>10. CASE c.op # "INCR"
  <2>1. q[1] = Get(n, b) /\ counts' = counts /\ c # Plus(n, b)
    BY <1>1, <1>2, <1>3, <1>4, <1>10 DEF Plus
  <2>2. PICK x : x = [snap[p] EXCEPT !.got[n] = @ + counts[n][b]]
    OBVIOUS
  <2>3. snap' = [snap EXCEPT ![p] = x]
    BY <1>2, <1>4, <1>10, <2>2
  <2>4. SnapHolds(q, snap[p], counts) /\ snap[p] \in Snap
    BY <1>1, <1>2 DEF CountersHold
  <2>5. x \in Snap /\ SnapHolds(Tail(q), x, counts)
    BY <1>2, <2>1, <2>2, <2>4, AnswerKeeps
  <2>6. CounterTypes'
    <3>1. snap' \in [Processes -> Snap]
      BY <1>2, <2>3, <2>5
    <3> QED
      BY <1>2, <1>5, <1>6, <2>1, <3>1 DEF CountersHold, CounterTypes
  <2>7. ASSUME NEW r \in Processes
        PROVE  SnapHolds(flight'[r], snap'[r], counts')
    <3>1. CASE r = p
      BY <1>2, <1>5, <2>1, <2>3, <2>5, <3>1
    <3>2. CASE r # p
      <4>1. flight'[r] = flight[r] /\ snap'[r] = snap[r]
        BY <1>2, <1>5, <2>3, <3>2
      <4> QED
        BY <2>1, <4>1 DEF CountersHold
    <3> QED
      BY <3>1, <3>2
  <2>8. ASSUME NEW m \in Names, NEW k \in -1..MaxTime
        PROVE  Covered(flight', m, k, counts'[m][k], bumped'[m][k])
    <3> PICK y \in Int : y = IF c = Plus(m, k) THEN -1 ELSE 0
      OBVIOUS
    <3>1. counts'[m][k] = counts[m][k] /\ bumped'[m][k] = bumped[m][k]
      BY <1>2, <2>1
    <3>2. counts'[m][k] + y <= counts[m][k] + (bumped'[m][k] - bumped[m][k])
      BY <1>8, <3>1
    <3> QED
      BY <1>8, <3>1, <3>2, StaysCovered
  <2> QED
    BY <1>7, <2>6, <2>7, <2>8 DEF CountersHold
<1> QED
  BY <1>9, <1>10

(* Nothing is left of what a connection has sent.                          *)
LEMMA EmptyKeeps ==
  ASSUME NEW q \in Seq(Counters!Command), NEW s \in Snap, NEW count, SnapHolds(q, s, count),
         \A i \in DOMAIN q : q[i].op # "GET"
  PROVE  SnapHolds(<<>>, s, count)
<1>1. \A n, b : Asked(q, n, b) = {} /\ Asked(<<>>, n, b) = {}
  BY DEF Asked, Get
<1>2. \A n, b, c, g, o : ReadHolds(q, n, b, c, g, o) => ReadHolds(<<>>, n, b, c, g, o)
  BY <1>1 DEF ReadHolds
<1>3. \A n \in Names : NameHolds(q, s, n, count[n]) => NameHolds(<<>>, s, n, count[n])
  BY <1>2 DEF NameHolds
<1>4. ReadsBelong(<<>>, s)
  BY DEF ReadsBelong
<1> QED
  BY <1>3, <1>4 DEF SnapHolds

(* Less under way is covered as well.                                      *)
LEMMA LostKeeps ==
  ASSUME CountersHold, NEW p \in Processes, flight' = [flight EXCEPT ![p] = <<>>],
         UNCHANGED <<counts, bumped>>, NEW n \in Names, NEW b \in -1..MaxTime
  PROVE  Covered(flight', n, b, counts'[n][b], bumped'[n][b])
<1>1. flight'[p] = <<>> /\ \A r \in Processes : r # p => flight'[r] = flight[r]
  BY DEF CountersHold, CounterTypes
<1>2. Coming(flight', n, b) \subseteq Coming(flight, n, b)
  BY <1>1 DEF Coming
<1>3. IsFiniteSet(Coming(flight, n, b))
  BY CoveredNow
<1>4. Grown(Coming(flight, n, b), Coming(flight', n, b), 0)
  <2>1. /\ IsFiniteSet(Coming(flight', n, b)) /\ Cardinality(Coming(flight, n, b)) \in Nat
        /\ Cardinality(Coming(flight', n, b)) <= Cardinality(Coming(flight, n, b))
    BY <1>2, <1>3, FS_Subset, FS_CardinalityType
  <2>2. Cardinality(Coming(flight', n, b)) \in Nat
    BY <2>1, FS_CardinalityType
  <2> QED
    BY <2>1, <2>2 DEF Grown
<1>5. /\ counts[n][b] \in Nat /\ bumped[n][b] \in Nat
      /\ counts[n][b] + Cardinality(Coming(flight, n, b)) <= bumped[n][b]
      /\ counts[n][b] + 0 <= counts[n][b] + (bumped[n][b] - bumped[n][b])
  BY CoveredNow
<1>6. Covered(flight', n, b, counts[n][b], bumped[n][b])
  BY <1>4, <1>5, StaysCovered
<1> QED
  BY <1>6

LEMMA BreakKeeps ==
  ASSUME CountersHold, NEW p \in Processes, Counters!Break(p)
  PROVE  CountersHold'
<1>1. /\ flight' = [flight EXCEPT ![p] = <<>>]
      /\ UNCHANGED <<tally, counts, isOpen, report, bumped, bucket>>
      /\ snap' = IF \E c \in Counters!ToSet(flight[p]) : c.op = "GET"
                 THEN [snap EXCEPT ![p].degraded = TRUE] ELSE snap
      /\ snap \in [Processes -> Snap] /\ flight \in [Processes -> Seq(Counters!Command)]
  BY DEF Counters!Break, CountersHold, CounterTypes
<1>2. \A r \in Processes : Counters!Known(r)' = Counters!Known(r)
  BY <1>1 DEF Counters!Known
<1>3. flight' \in [Processes -> Seq(Counters!Command)]
  BY <1>1
<1>4. snap' \in [Processes -> Snap]
  <2>1. [snap[p] EXCEPT !.degraded = TRUE] \in Snap
    BY <1>1 DEF Snap
  <2> QED
    BY <1>1, <2>1
<1>5. CounterTypes'
  BY <1>1, <1>2, <1>3, <1>4 DEF CountersHold, CounterTypes
<1>6. ASSUME NEW r \in Processes
      PROVE  SnapHolds(flight'[r], snap'[r], counts')
  <2>1. SnapHolds(flight[r], snap[r], counts)
    BY DEF CountersHold
  <2>2. CASE r # p
    BY <1>1, <2>1, <2>2
  <2>3. CASE r = p /\ \E c \in Counters!ToSet(flight[p]) : c.op = "GET"
    <3>1. flight'[r] = <<>> /\ snap'[r].degraded
      BY <1>1, <2>3 DEF Snap
    <3> QED
      BY <3>1 DEF SnapHolds, ReadsBelong
  <2>4. CASE r = p /\ ~ \E c \in Counters!ToSet(flight[p]) : c.op = "GET"
    <3>1. \A i \in DOMAIN flight[p] : flight[p][i].op # "GET"
      BY <2>4 DEF Counters!ToSet
    <3>2. flight'[r] = <<>> /\ snap'[r] = snap[r] /\ flight[r] \in Seq(Counters!Command) /\ snap[r] \in Snap
      BY <1>1, <2>4
    <3> QED
      BY <1>1, <2>1, <2>4, <3>1, <3>2, EmptyKeeps
  <2> QED
    BY <2>2, <2>3, <2>4
<1>7. HealthyIsComplete'
  BY <1>1 DEF CountersHold, HealthyIsComplete, Counters!HealthyIsComplete
<1> QED
  BY <1>1, <1>5, <1>6, <1>7, LostKeeps DEF CountersHold

LEMMA RestartKeeps ==
  ASSUME BucketAssumption, CountersHold, NEW p \in Processes, Counters!Restart(p)
  PROVE  CountersHold'
<1>1. /\ flight' = [flight EXCEPT ![p] = <<>>]
      /\ UNCHANGED <<counts, bumped, bucket>>
      /\ tally' = [tally EXCEPT ![p] = Counters!Zero] /\ isOpen' = [isOpen EXCEPT ![p] = FALSE]
      /\ snap' = [snap EXCEPT ![p] = Counters!NoSnap] /\ report' = [report EXCEPT ![p] = Counters!NoReport]
      /\ CounterTypes
  BY DEF Counters!Restart, CountersHold
<1>2. /\ Counters!NoSnap \in Snap /\ ~ Counters!NoSnap.active
      /\ Counters!NoReport \in Report /\ Counters!NoReport.degraded
      /\ Counters!Zero \in [Names -> Nat]
  BY DEF Counters!NoSnap, Counters!NoReport, Counters!Zero, Snap, Report, BucketAssumption
<1>3. ASSUME NEW r \in Processes
      PROVE  IsFiniteSet(Counters!Known(r)')
  <2>1. Counters!Known(r)' \subseteq Counters!Known(r)
    BY <1>1 DEF Counters!Known, CounterTypes, Counters!Zero
  <2> QED
    BY <1>1, <2>1, FS_Subset DEF CounterTypes
<1>4. /\ flight' \in [Processes -> Seq(Counters!Command)] /\ tally' \in [Processes -> [Names -> Nat]]
      /\ isOpen' \in [Processes -> BOOLEAN] /\ snap' \in [Processes -> Snap]
      /\ report' \in [Processes -> Report]
  BY <1>1, <1>2 DEF CounterTypes
<1>5. CounterTypes'
  BY <1>1, <1>3, <1>4 DEF CounterTypes
<1>6. ASSUME NEW r \in Processes
      PROVE  SnapHolds(flight'[r], snap'[r], counts')
  <2>1. CASE r # p
    BY <1>1, <2>1 DEF CountersHold, CounterTypes
  <2>2. CASE r = p
    <3>1. flight'[r] = <<>> /\ ~ snap'[r].active
      BY <1>1, <1>2, <2>2 DEF CounterTypes
    <3> QED
      BY <3>1 DEF SnapHolds, ReadsBelong
  <2> QED
    BY <2>1, <2>2
<1>7. HealthyIsComplete'
  <2> SUFFICES ASSUME NEW r \in Processes, ~ report'[r].degraded
               PROVE  r # p /\ report'[r] = report[r]
    BY DEF CountersHold, HealthyIsComplete, Counters!HealthyIsComplete
  <2> QED
    BY <1>1, <1>2 DEF CounterTypes
<1> QED
  BY <1>1, <1>5, <1>6, <1>7, LostKeeps DEF CountersHold

(* Every read is answered: what was found is all there had to be, and no
   more than was bumped.                                                   *)
LEMMA AllAnswered ==
  ASSUME BucketAssumption, CountersHold, NEW p \in Processes, snap[p].active, ~ snap[p].degraded,
         \A i \in DOMAIN flight[p] : flight[p][i].op # "GET", NEW n \in Names
  PROVE  /\ snap[p].own[n] <= snap[p].got[n] /\ snap[p].own[n] \in Nat /\ snap[p].got[n] \in Nat
         /\ snap[p].got[n] <= Counters!Window(bumped, snap[p].bucket)[n]
<1>1. PICK B, q : B = snap[p].bucket /\ q = flight[p]
  OBVIOUS
<1>2. B \in -1..MaxTime /\ B - 1 \in -1..MaxTime
  <2>1. B \in 0..MaxTime
    BY <1>1 DEF CountersHold, CounterTypes, Snap
  <2> QED
    BY <2>1 DEF BucketAssumption
<1>3. \A b : Asked(q, n, b) = {}
  BY <1>1 DEF Asked, Get
<1>4. PICK f, g, o, w \in Nat :
        /\ snap[p].got[n] = f + g /\ snap[p].own[n] = o + w
        /\ ReadHolds(q, n, B, counts[n][B], f, o) /\ ReadHolds(q, n, B - 1, counts[n][B - 1], g, w)
  BY <1>1 DEF CountersHold, SnapHolds, NameHolds
<1>5. f <= counts[n][B] /\ g <= counts[n][B - 1] /\ f >= o /\ g >= w
  BY <1>3, <1>4 DEF ReadHolds
<1>6. /\ counts[n][B] \in Nat /\ bumped[n][B] \in Nat /\ counts[n][B] <= bumped[n][B]
      /\ counts[n][B - 1] \in Nat /\ bumped[n][B - 1] \in Nat /\ counts[n][B - 1] <= bumped[n][B - 1]
  <2>1. ASSUME NEW b \in -1..MaxTime
        PROVE  counts[n][b] \in Nat /\ bumped[n][b] \in Nat /\ counts[n][b] <= bumped[n][b]
    <3>1. /\ IsFiniteSet(Coming(flight, n, b)) /\ counts[n][b] \in Nat /\ bumped[n][b] \in Nat
          /\ counts[n][b] + Cardinality(Coming(flight, n, b)) <= bumped[n][b]
      BY CoveredNow
    <3>2. PICK x \in Nat : x = Cardinality(Coming(flight, n, b))
      BY <3>1, FS_CardinalityType
    <3> QED
      BY <3>1, <3>2
  <2> QED
    BY <1>2, <2>1
<1>7. Counters!Window(bumped, snap[p].bucket)[n] = bumped[n][B] + bumped[n][B - 1]
  BY <1>1 DEF Counters!Window
<1>8. o + w <= f + g /\ f + g <= bumped[n][B] + bumped[n][B - 1]
  BY <1>5, <1>6
<1> QED
  BY <1>4, <1>7, <1>8

LEMMA FinishKeeps ==
  ASSUME BucketAssumption, CountersHold, NEW p \in Processes, Counters!FinishSnapshot(p)
  PROVE  CountersHold'
<1>1. PICK x :
        x = [counters |-> Counters!CountersOf(p), degraded |-> snap[p].degraded, tally |-> tally[p],
             low |-> snap[p].own, high |-> Counters!Window(bumped, snap[p].bucket)]
  OBVIOUS
<1>2. /\ snap[p].active /\ \A i \in DOMAIN flight[p] : flight[p][i].op # "GET"
      /\ report' = [report EXCEPT ![p] = x] /\ snap' = [snap EXCEPT ![p] = Counters!NoSnap]
      /\ UNCHANGED <<tally, counts, isOpen, flight, bumped, bucket>>
      /\ CounterTypes
  BY <1>1 DEF Counters!FinishSnapshot, Counters!ToSet, CountersHold
<1>3. Counters!NoSnap \in Snap /\ ~ Counters!NoSnap.active
  BY DEF Counters!NoSnap, Counters!Zero, Snap, BucketAssumption
<1>4. x \in Report
  <2>1. snap[p] \in Snap /\ tally[p] \in [Names -> Nat] /\ bumped \in Cell
    BY <1>2 DEF CounterTypes
  <2>2. Counters!CountersOf(p) \in [Names -> Nat]
    BY <2>1 DEF Counters!CountersOf, Snap
  <2>3. Counters!Window(bumped, snap[p].bucket) \in [Names -> Nat]
    <3> PICK B : B = snap[p].bucket
      OBVIOUS
    <3>1. B \in -1..MaxTime /\ B - 1 \in -1..MaxTime
      <4>1. B \in 0..MaxTime
        BY <2>1 DEF Snap
      <4> QED
        BY <4>1 DEF BucketAssumption
    <3>2. \A n \in Names : bumped[n][B] \in Nat /\ bumped[n][B - 1] \in Nat
      BY <2>1, <3>1 DEF Cell
    <3>3. \A n \in Names : bumped[n][B] + bumped[n][B - 1] \in Nat
      BY <3>2
    <3> QED
      BY <3>3 DEF Counters!Window
  <2> QED
    BY <1>1, <2>1, <2>2, <2>3 DEF Report, Snap
<1>5. \A r \in Processes : Counters!Known(r)' = Counters!Known(r)
  BY <1>2 DEF Counters!Known
<1>6. snap' \in [Processes -> Snap] /\ report' \in [Processes -> Report]
  BY <1>2, <1>3, <1>4 DEF CounterTypes
<1>7. CounterTypes'
  BY <1>2, <1>5, <1>6 DEF CounterTypes
<1>8. ASSUME NEW r \in Processes
      PROVE  SnapHolds(flight'[r], snap'[r], counts')
  <2>1. CASE r # p
    BY <1>2, <2>1 DEF CountersHold, CounterTypes
  <2>2. CASE r = p
    <3>1. flight'[r] = flight[p] /\ ~ snap'[r].active
      BY <1>2, <1>3, <2>2 DEF CounterTypes
    <3> QED
      BY <1>2, <3>1 DEF SnapHolds, ReadsBelong
  <2> QED
    BY <2>1, <2>2
<1>9. ASSUME NEW n \in Names, ~ x.degraded
      PROVE  /\ x.counters[n] >= x.low[n]
             /\ x.counters[n] <= x.high[n] \/ (x.counters[n] = x.tally[n] /\ x.low[n] = 0)
  <2>1. /\ snap[p].own[n] <= snap[p].got[n] /\ snap[p].own[n] \in Nat /\ snap[p].got[n] \in Nat
        /\ snap[p].got[n] <= Counters!Window(bumped, snap[p].bucket)[n]
    BY <1>1, <1>2, <1>9, AllAnswered
  <2>2. x.counters[n] = IF snap[p].got[n] = 0 THEN tally[p][n] ELSE snap[p].got[n]
    BY <1>1, <1>9 DEF Counters!CountersOf
  <2>3. /\ x.low[n] = snap[p].own[n] /\ x.tally[n] = tally[p][n]
        /\ x.high[n] = Counters!Window(bumped, snap[p].bucket)[n] /\ tally[p][n] \in Nat
    BY <1>1, <1>2 DEF CounterTypes
  <2> QED
    BY <2>1, <2>2, <2>3
<1>10. HealthyIsComplete'
  <2> SUFFICES ASSUME NEW r \in Processes, ~ report'[r].degraded, NEW n \in Names
               PROVE  /\ report'[r].counters[n] >= report'[r].low[n]
                      /\ \/ report'[r].counters[n] <= report'[r].high[n]
                         \/ report'[r].counters[n] = report'[r].tally[n] /\ report'[r].low[n] = 0
    BY DEF HealthyIsComplete, Counters!HealthyIsComplete
  <2>1. CASE r = p
    BY <1>2, <1>9, <2>1 DEF CounterTypes
  <2>2. CASE r # p
    BY <1>2, <2>2 DEF CounterTypes, CountersHold, HealthyIsComplete, Counters!HealthyIsComplete
  <2> QED
    BY <2>1, <2>2
<1>11. \A n \in Names, b \in -1..MaxTime : Covered(flight', n, b, counts'[n][b], bumped'[n][b])
  BY <1>2 DEF CountersHold
<1> QED
  BY <1>7, <1>8, <1>10, <1>11 DEF CountersHold

(* What is left: a snapshot without Redis, and a connection.               *)
LEMMA OthersKeep ==
  ASSUME BucketAssumption, CountersHold, NEW p \in Processes,
         Counters!SnapshotClosed(p) \/ Counters!Connect(p)
  PROVE  CountersHold'
<1>1. UNCHANGED <<tally, counts, flight, snap, bumped>> /\ CounterTypes
  BY DEF Counters!SnapshotClosed, Counters!Connect, CountersHold
<1>2. \A r \in Processes : Counters!Known(r)' = Counters!Known(r)
  BY <1>1 DEF Counters!Known
<1>3. isOpen' \in [Processes -> BOOLEAN] /\ bucket' \in 0..MaxTime
  BY DEF Counters!SnapshotClosed, Counters!Connect, CountersHold, CounterTypes, BucketAssumption
<1>4. /\ report' \in [Processes -> Report]
      /\ \A r \in Processes : report'[r] = report[r] \/ report'[r].degraded
  <2>1. CASE Counters!SnapshotClosed(p)
    <3>1. PICK x : /\ x = [counters |-> tally[p], degraded |-> TRUE, tally |-> tally[p],
                          low |-> Counters!Zero, high |-> Counters!Zero]
                  /\ report' = [report EXCEPT ![p] = x]
      BY <2>1 DEF Counters!SnapshotClosed
    <3>2. x \in Report /\ x.degraded
      BY <1>1, <3>1 DEF CounterTypes, Report, Counters!Zero
    <3> QED
      BY <1>1, <3>1, <3>2 DEF CounterTypes
  <2>2. CASE Counters!Connect(p)
    BY <1>1, <2>2 DEF Counters!Connect, CounterTypes
  <2> QED
    BY <2>1, <2>2
<1>5. CounterTypes'
  BY <1>1, <1>2, <1>3, <1>4 DEF CounterTypes
<1>6. HealthyIsComplete'
  BY <1>4 DEF CountersHold, HealthyIsComplete, Counters!HealthyIsComplete
<1> QED
  BY <1>1, <1>5, <1>6 DEF CountersHold

LEMMA CounterStep ==
  ASSUME BucketAssumption, CountersHold, [Counters!Next]_counterVars
  PROVE  CountersHold'
<1>1. CASE UNCHANGED counterVars
  <2>1. \A p \in Processes : Counters!Known(p)' = Counters!Known(p)
    BY <1>1 DEF counterVars, Counters!Known
  <2> QED
    BY <1>1, <2>1 DEF counterVars, CountersHold, CounterTypes, HealthyIsComplete, Counters!HealthyIsComplete
<1>2. CASE Counters!Tick
  <2>1. UNCHANGED <<tally, counts, flight, snap, bumped, report, isOpen>> /\ bucket' \in 0..MaxTime
    BY <1>2 DEF Counters!Tick, CountersHold, CounterTypes, BucketAssumption
  <2>2. \A p \in Processes : Counters!Known(p)' = Counters!Known(p)
    BY <2>1 DEF Counters!Known
  <2> QED
    BY <2>1, <2>2 DEF CountersHold, CounterTypes, HealthyIsComplete, Counters!HealthyIsComplete
<1> QED
  BY <1>1, <1>2, BumpKeeps, StartKeeps, ExecuteKeeps, BreakKeeps, FinishKeeps, OthersKeep, RestartKeeps
     DEF Counters!Next

-----------------------------------------------------------------------------
(* LatencyWindow.  A set of natural numbers that is not empty has a least
   element.                                                                *)
LEMMA LeastExists ==
  ASSUME NEW T, T \subseteq Nat, T # {}
  PROVE  \E i \in T : \A j \in T : i <= j
<1> DEFINE R == OpToRel(<, Nat)
<1>1. IsWellFoundedOn(R, Nat)
  BY NatLessThanWellFounded
<1>2. \A i, j \in Nat : j < i => <<j, i>> \in R
  BY DEF OpToRel
<1> HIDE DEF R
<1>3. PICK i \in T : \A j \in T : ~ (<<j, i>> \in R)
  BY <1>1, WFMin
<1>4. \A j \in T : ~ (j < i)
  BY <1>2, <1>3, Zenon
<1> QED
  BY <1>4

(* A sample has a time.                                                    *)
LEMMA SampleTime ==
  ASSUME MaxTime \in Nat, NEW w \in Seq(Latency!Sample), NEW i \in 1..Len(w)
  PROVE  w[i].at \in Nat /\ w[i].ms \in Latencies
<1>1. w[i] \in Latency!Sample
  OBVIOUS
<1> QED
  BY <1>1 DEF Latency!Sample

(* A sequence of samples without its first d.                              *)
Rest(w, v, d) ==
  /\ w \in Seq(Latency!Sample) /\ v \in Seq(Latency!Sample)
  /\ d \in 0..Len(w) /\ Len(v) = Len(w) - d
  /\ \A i \in 1..Len(v) : v[i] = w[d + i]

LEMMA RestOf ==
  ASSUME NEW w \in Seq(Latency!Sample), NEW d \in 0..Len(w)
  PROVE  Rest(w, SubSeq(w, d + 1, Len(w)), d)
<1> PICK n \in Nat : n = Len(w)
  OBVIOUS
<1>1. SubSeq(w, d + 1, n) \in Seq(Latency!Sample) /\ Len(SubSeq(w, d + 1, n)) = n - d
  BY SubSeqProperties
<1>2. \A i \in 1..n - d : SubSeq(w, d + 1, n)[i] = w[d + i]
  BY SubSeqProperties
<1> QED
  BY <1>1, <1>2 DEF Rest

LEMMA RestOfRest ==
  ASSUME NEW w, NEW v, NEW u, NEW d, NEW e, Rest(w, v, d), Rest(v, u, e)
  PROVE  Rest(w, u, d + e)
<1>0. w \in Seq(Latency!Sample) /\ v \in Seq(Latency!Sample) /\ u \in Seq(Latency!Sample)
  BY DEF Rest
<1> PICK n \in Nat, k \in Nat, l \in Nat : n = Len(w) /\ k = Len(v) /\ l = Len(u)
  BY <1>0
<1>1. /\ d \in 0..n /\ k = n - d /\ e \in 0..k /\ l = k - e
      /\ \A i \in 1..k : v[i] = w[d + i]
      /\ \A i \in 1..l : u[i] = v[e + i]
  BY DEF Rest
<1>2. d + e \in 0..n /\ l = n - (d + e) /\ \A i \in 1..l : e + i \in 1..k /\ d + (e + i) = (d + e) + i
  BY <1>1
<1>3. \A i \in 1..l : u[i] = w[(d + e) + i]
  BY <1>1, <1>2
<1> QED
  BY <1>2, <1>3 DEF Rest

LEMMA RestOfAppend ==
  ASSUME NEW w, NEW v, NEW d, Rest(w, v, d), NEW s \in Latency!Sample
  PROVE  Rest(Append(w, s), Append(v, s), d)
<1> PICK n \in Nat, k \in Nat : n = Len(w) /\ k = Len(v)
  BY DEF Rest
<1>1. d \in 0..n /\ k = n - d /\ \A i \in 1..k : v[i] = w[d + i]
  BY DEF Rest
<1>2. /\ Append(w, s) \in Seq(Latency!Sample) /\ Len(Append(w, s)) = n + 1
      /\ \A i \in 1..n : Append(w, s)[i] = w[i]
      /\ Append(w, s)[n + 1] = s
  BY DEF Rest
<1>3. /\ Append(v, s) \in Seq(Latency!Sample) /\ Len(Append(v, s)) = k + 1
      /\ \A i \in 1..k : Append(v, s)[i] = v[i]
      /\ Append(v, s)[k + 1] = s
  BY DEF Rest
<1>4. ASSUME NEW i \in 1..k + 1
      PROVE  Append(v, s)[i] = Append(w, s)[d + i]
  <2>1. CASE i = k + 1
    <3>1. d + i = n + 1
      BY <1>1, <2>1
    <3> QED
      BY <1>2, <1>3, <2>1, <3>1
  <2>2. CASE i # k + 1
    <3>1. i \in 1..k /\ d + i \in 1..n
      BY <1>1, <2>2
    <3> QED
      BY <1>1, <1>2, <1>3, <3>1
  <2> QED
    BY <2>1, <2>2
<1>5. d \in 0..n + 1 /\ k + 1 = (n + 1) - d
  BY <1>1
<1> QED
  BY <1>2, <1>3, <1>4, <1>5 DEF Rest

(* What is cut by age are samples before the cutoff.                       *)
LEMMA EvictedSamples ==
  ASSUME MaxTime \in Nat, NEW w \in Seq(Latency!Sample), NEW cutoff \in Int
  PROVE  \E d \in 0..Len(w) :
           /\ Rest(w, Latency!EvictAged(w, cutoff), d)
           /\ \A i \in 1..d : w[i].at < cutoff
<1> PICK n \in Nat : n = Len(w)
  OBVIOUS
<1> DEFINE fresh == {i \in DOMAIN w : w[i].at >= cutoff}
<1>1. DOMAIN w = 1..n /\ \A i \in 1..n : w[i].at \in Nat /\ (i \notin fresh => w[i].at < cutoff)
  BY SampleTime
<1>2. CASE fresh = {}
  <2>1. Latency!EvictAged(w, cutoff) = <<>>
    BY <1>2 DEF Latency!EvictAged
  <2>2. \A i \in 1..n : w[i].at < cutoff
    BY <1>1, <1>2
  <2>3. Rest(w, <<>>, n)
    BY DEF Rest
  <2>4. n \in 0..n
    OBVIOUS
  <2> QED
    BY <2>1, <2>2, <2>3, <2>4
<1>3. CASE fresh # {}
  <2>1. fresh \subseteq Nat
    BY <1>1
  <2>2. PICK i \in fresh : \A j \in fresh : i <= j
    BY <1>3, <2>1, LeastExists
  <2> PICK m : m = Latency!Min(fresh)
    OBVIOUS
  <2>3. m \in fresh /\ \A j \in fresh : m <= j
    BY <2>2 DEF Latency!Min
  <2>4. Latency!EvictAged(w, cutoff) = SubSeq(w, m, n)
    BY <1>3 DEF Latency!EvictAged
  <2>5. m \in 1..n
    BY <1>1, <2>3
  <2>6. \A j \in 1..m - 1 : j \in 1..n /\ ~ (m <= j)
    BY <2>5
  <2>7. \A j \in 1..m - 1 : w[j].at < cutoff
    BY <1>1, <2>3, <2>6
  <2> HIDE DEF fresh
  <2>8. m - 1 \in 0..n /\ (m - 1) + 1 = m
    BY <2>5
  <2>9. Rest(w, SubSeq(w, m, n), m - 1)
    BY <2>8, RestOf
  <2> QED
    BY <2>4, <2>7, <2>8, <2>9
<1> QED
  BY <1>2, <1>3

(* The cap cuts nothing, or down to the last MaxSamples.                   *)
LEMMA CappedSamples ==
  ASSUME MaxSamples \in Nat, NEW w \in Seq(Latency!Sample)
  PROVE  \E d \in 0..Len(w) :
           /\ Rest(w, Latency!LastSamples(w), d)
           /\ Len(w) - d <= MaxSamples
           /\ d = 0 \/ d = Len(w) - MaxSamples
<1> PICK n \in Nat : n = Len(w)
  OBVIOUS
<1> PICK d : d = Latency!Max({0, n - MaxSamples})
  OBVIOUS
<1>1. \E x \in {0, n - MaxSamples} : \A y \in {0, n - MaxSamples} : x >= y
  OBVIOUS
<1>2. d \in {0, n - MaxSamples} /\ \A y \in {0, n - MaxSamples} : d >= y
  BY <1>1 DEF Latency!Max
<1>3. d \in 0..n /\ n - d <= MaxSamples /\ (d = 0 \/ d = n - MaxSamples)
  BY <1>2
<1>4. Latency!LastSamples(w) = SubSeq(w, d + 1, n)
  BY DEF Latency!LastSamples
<1>5. Rest(w, SubSeq(w, d + 1, n), d)
  BY <1>3, RestOf
<1> QED
  BY <1>3, <1>4, <1>5

(* The window is what arrived without the first; those were too old, or    *)
(* not among the last MaxSamples.                                          *)
Cut == Len(arrived) - Len(window)

WindowInv ==
  /\ Latency!TypeOK
  /\ Rest(arrived, window, Cut)
  /\ \A i \in 1..Len(arrived) : arrived[i].at <= clock
  /\ \A i \in 1..Cut : i <= Len(arrived) - MaxSamples \/ arrived[i].at < clock - WindowAge

WindowAssumption == MaxSamples \in Nat /\ MaxTime \in Nat /\ WindowAge \in Nat /\ Latencies \subseteq Int

LEMMA InitWindow == ASSUME WindowAssumption, Latency!Init PROVE WindowInv
<1>1. Latency!TypeOK /\ window = <<>> /\ arrived = <<>> /\ Len(arrived) = 0
  BY DEF Latency!Init, Latency!TypeOK, WindowAssumption
<1>2. Rest(<<>>, <<>>, 0)
  BY DEF Rest
<1> QED
  BY <1>1, <1>2 DEF WindowInv, Cut

(* The age of a window is measured from a time that has been.              *)
LEMMA ReferenceHasBeen ==
  ASSUME WindowAssumption, WindowInv, NEW at \in 0..clock
  PROVE  Latency!Reference(at) \in Int /\ Latency!Reference(at) <= clock
<1>1. clock \in Nat /\ window \in Seq(Latency!Sample)
  BY DEF WindowInv, Latency!TypeOK
<1>2. CASE window = <<>>
  BY <1>1, <1>2 DEF Latency!Reference
<1>3. CASE window # <<>>
  <2> PICK n \in Nat : n = Len(window)
    BY <1>1
  <2>1. n >= 1 /\ 1 \in 1..n /\ n \in 1..n
    BY <1>1, <1>3
  <2>2. \A i \in 1..n : window[i].at \in Nat /\ window[i].at <= clock
    <3>1. \A i \in 1..n : window[i] = arrived[Cut + i] /\ Cut + i \in 1..Len(arrived)
      BY DEF WindowInv, Rest, Cut
    <3>2. \A i \in 1..n : window[i].at \in Nat
      BY <1>1, SampleTime DEF WindowAssumption
    <3> QED
      BY <3>1, <3>2 DEF WindowInv
  <2> PICK a \in Nat, b \in Nat : a = window[1].at /\ b = window[n].at /\ a <= clock /\ b <= clock
    BY <2>1, <2>2
  <2>3. \E x \in {at, a, b} : \A y \in {at, a, b} : x >= y
    BY <1>1
  <2>4. Latency!Max({at, a, b}) \in {at, a, b}
    BY <2>3 DEF Latency!Max
  <2>5. Latency!Reference(at) = Latency!Max({at, a, b})
    BY <1>3 DEF Latency!Reference
  <2> QED
    BY <1>1, <2>4, <2>5
<1> QED
  BY <1>2, <1>3

LEMMA Dropped ==
  ASSUME NEW n \in Nat, NEW k \in Nat, NEW m, k <= n, m = n - k
  PROVE  n - m = k
OBVIOUS

LEMMA Younger ==
  ASSUME NEW x \in Nat, NEW cutoff \in Int, NEW t \in Int, NEW age \in Int,
         x < cutoff, cutoff <= t - age
  PROVE  x < t - age
OBVIOUS

LEMMA Enough ==
  ASSUME NEW q \in Int, NEW r \in Nat, NEW c \in Nat, 100 * r >= q, (r - 1) + 1 <= c
  PROVE  100 * c >= q
OBVIOUS

LEMMA TooFew ==
  ASSUME NEW q \in Int, NEW r \in Nat, NEW c \in Nat, 100 * (r - 1) < q, c <= r - 1
  PROVE  100 * c < q
OBVIOUS

LEMMA ObserveKeeps ==
  ASSUME WindowAssumption, WindowInv, Latency!Observe
  PROVE  WindowInv'
<1>1. PICK at \in {t \in 0..clock : clock - t <= Skew}, ms \in Latencies :
        /\ window' = Latency!LastSamples(Latency!EvictAged(Append(window, [at |-> at, ms |-> ms]),
                                                          Latency!Reference(at) - WindowAge))
        /\ arrived' = Append(arrived, [at |-> at, ms |-> ms]) /\ UNCHANGED clock
  BY DEF Latency!Observe
<1> PICK s : s = [at |-> at, ms |-> ms]
  OBVIOUS
<1> PICK cutoff : cutoff = Latency!Reference(at) - WindowAge
  OBVIOUS
<1>2. clock \in 0..MaxTime /\ clock \in Nat /\ at \in 0..clock
  BY DEF WindowInv, Latency!TypeOK, WindowAssumption
<1>3. cutoff \in Int /\ cutoff <= clock - WindowAge
  BY <1>2, ReferenceHasBeen DEF WindowAssumption
<1>4. s \in Latency!Sample /\ s.at <= clock
  BY <1>2 DEF Latency!Sample, WindowAssumption
<1> DEFINE all == Append(arrived, s)
<1> DEFINE more == Append(window, s)
<1>5. Rest(all, more, Cut)
  BY <1>4, RestOfAppend DEF WindowInv
<1> DEFINE late == Latency!EvictAged(more, cutoff)
<1>6. more \in Seq(Latency!Sample)
  BY <1>5 DEF Rest
<1> DEFINE kept == Latency!LastSamples(late)
<1>7. window' = kept /\ arrived' = all /\ clock' = clock
  BY <1>1
<1>8. /\ Len(all) = Len(arrived) + 1 /\ \A i \in 1..Len(arrived) : all[i] = arrived[i]
      /\ all[Len(arrived) + 1] = s
  BY <1>4 DEF WindowInv, Latency!TypeOK
<1> HIDE DEF all, more
<1>9. PICK d \in 0..Len(more) : Rest(more, late, d) /\ \A i \in 1..d : more[i].at < cutoff
  BY <1>3, <1>6, EvictedSamples DEF WindowAssumption
<1> HIDE DEF late
<1>10. PICK e \in 0..Len(late) : Rest(late, kept, e) /\ Len(late) - e <= MaxSamples
                                /\ (e = 0 \/ e = Len(late) - MaxSamples)
  BY <1>9, CappedSamples DEF WindowAssumption, Rest
<1> HIDE DEF kept
<1> PICK n \in Nat, c \in Nat : n = Len(arrived) /\ c = Cut
  BY DEF WindowInv, Latency!TypeOK, Rest
<1>0. n \in Nat /\ c \in Nat /\ n = Len(arrived) /\ c = Cut
  OBVIOUS
<1>11. Rest(all, kept, c + d + e)
  BY <1>0, <1>5, <1>9, <1>10, RestOfRest
<1>12. d \in Nat /\ e \in Nat /\ Len(kept) = (n + 1) - (c + d + e) /\ Len(kept) <= MaxSamples
       /\ c + d + e <= n + 1 /\ Len(kept) \in Nat
  <2>1. /\ Len(kept) = Len(all) - (c + d + e) /\ c + d + e \in 0..Len(all)
        /\ kept \in Seq(Latency!Sample)
    BY ONLY <1>11 DEF Rest
  <2>2. Len(late) \in Nat /\ Len(kept) = Len(late) - e /\ d \in Nat /\ e \in Nat
    BY ONLY <1>9, <1>10 DEF Rest
  <2>3. Len(all) = n + 1 /\ Len(late) - e <= MaxSamples /\ Len(kept) \in Nat
    BY <1>0, <1>8, <1>10, <2>1
  <2> QED
    BY ONLY <1>0, <2>1, <2>2, <2>3
<1>13. Len(all) - Len(kept) = c + d + e
  <2>1. Len(all) = n + 1 /\ n + 1 \in Nat
    BY <1>0, <1>8
  <2>2. c + d + e \in Nat
    BY ONLY <1>0, <1>12
  <2>3. (n + 1) - Len(kept) = c + d + e
    BY ONLY <1>12, <2>1, <2>2, Dropped
  <2> QED
    BY <2>1, <2>3, Zenon
<1>14. Latency!TypeOK'
  <2>1. all \in Seq(Latency!Sample) /\ kept \in Seq(Latency!Sample)
    BY <1>11 DEF Rest
  <2> QED
    BY <1>2, <1>7, <1>12, <2>1 DEF Latency!TypeOK
<1>15. \A i \in 1..n + 1 : all[i].at <= clock
  <2>1. \A i \in 1..n : all[i].at <= clock
    BY <1>8 DEF WindowInv
  <2>2. \A i \in 1..n + 1 : i \in 1..n \/ i = n + 1
    OBVIOUS
  <2> QED
    BY <1>4, <1>8, <2>1, <2>2
<1>16. ASSUME NEW i \in 1..c + d + e
       PROVE  i <= (n + 1) - MaxSamples \/ all[i].at < clock - WindowAge
  <2>1. CASE e # 0
    <3>1. Len(kept) = MaxSamples
      <4>1. Len(kept) = Len(late) - e /\ e = Len(late) - MaxSamples /\ late \in Seq(Latency!Sample)
        BY <1>10, <2>1 DEF Rest
      <4>2. Len(late) \in Nat /\ MaxSamples \in Nat
        BY <4>1 DEF WindowAssumption
      <4> QED
        BY <4>1, <4>2, <2>1, <1>12, Dropped
    <3>2. i <= (n + 1) - Len(kept)
      BY ONLY <1>12, i \in 1..c + d + e, n \in Nat, c \in Nat
    <3> QED
      BY <3>1, <3>2, Zenon
  <2>2. CASE e = 0 /\ i <= c
    <3>1. i \in 1..c /\ i \in 1..n
      BY <1>12, <2>2 DEF WindowInv, Rest
    <3>2. i <= n - MaxSamples \/ arrived[i].at < clock - WindowAge
      BY <3>1 DEF WindowInv
    <3> QED
      BY <1>8, <3>1, <3>2 DEF WindowAssumption
  <2>3. CASE e = 0 /\ ~ (i <= c)
    <3>1. i - c \in 1..d /\ c + (i - c) = i /\ i - c \in 1..Len(more)
      BY <1>9, <1>12, <2>3
    <3>2. more[i - c] = all[i]
      BY <1>5, <3>1 DEF Rest
    <3>3. more[i - c].at < cutoff /\ more[i - c].at \in Nat
      BY <1>6, <1>9, <3>1, SampleTime DEF WindowAssumption
    <3> QED
      <4>1. WindowAge \in Int /\ clock \in Int
        BY <1>2 DEF WindowAssumption
      <4> QED
        <5>1. more[i - c].at < clock - WindowAge
          BY ONLY <1>3, <3>3, <4>1, Younger
        <5> QED
          BY <3>2, <5>1, Zenon
  <2> QED
    BY <2>1, <2>2, <2>3
<1> QED
  BY <1>7, <1>8, <1>11, <1>13, <1>14, <1>15, <1>16 DEF WindowInv, Cut

LEMMA WindowStep ==
  ASSUME WindowAssumption, WindowInv, [Latency!Next]_windowVars
  PROVE  WindowInv'
<1>1. CASE UNCHANGED windowVars
  BY <1>1 DEF windowVars, WindowInv, Cut, Latency!TypeOK
<1>2. CASE Latency!Tick
  <2>1. clock \in Nat /\ clock' = clock + 1 /\ UNCHANGED <<window, arrived>> /\ arrived \in Seq(Latency!Sample)
        /\ clock < MaxTime
    BY <1>2 DEF Latency!Tick, WindowInv, Latency!TypeOK
  <2>2. \A i \in 1..Len(arrived) : arrived[i].at \in Nat
    BY <2>1, SampleTime DEF WindowAssumption
  <2>3. \A i \in 1..Len(arrived) : arrived[i].at <= clock + 1
    BY <2>1, <2>2 DEF WindowInv
  <2>4. \A i \in 1..Cut : i \in 1..Len(arrived)
    BY DEF WindowInv, Rest
  <2>5. \A i \in 1..Cut : i <= Len(arrived) - MaxSamples \/ arrived[i].at < (clock + 1) - WindowAge
    BY <2>1, <2>2, <2>4 DEF WindowInv, WindowAssumption
  <2>6. Latency!TypeOK'
    BY <2>1 DEF WindowInv, Latency!TypeOK, WindowAssumption
  <2> QED
    BY <2>1, <2>3, <2>5, <2>6 DEF WindowInv, Cut
<1>3. CASE Latency!Observe
  BY <1>3, ObserveKeeps
<1> QED
  BY <1>1, <1>2, <1>3 DEF Latency!Next

(* What comes before each of some places is a strict total order of them.  *)
Orders(before) ==
  /\ IsFiniteSet(DOMAIN before)
  /\ \A i \in DOMAIN before : before[i] \subseteq DOMAIN before /\ i \notin before[i]
  /\ \A i, j \in DOMAIN before : j \in before[i] => before[j] \subseteq before[i]
  /\ \A i, j \in DOMAIN before : i = j \/ i \in before[j] \/ j \in before[i]

(* As many places come before one as its rank says.                        *)
LEMMA RanksExist ==
  ASSUME NEW before, Orders(before), NEW n \in Nat, n = Cardinality(DOMAIN before)
  PROVE  /\ \A i, j \in DOMAIN before : j \in before[i] => Cardinality(before[j]) < Cardinality(before[i])
         /\ \A i \in DOMAIN before : Cardinality(before[i]) \in 0..n - 1
         /\ \A k \in 1..n : \E i \in DOMAIN before : Cardinality(before[i]) = k - 1
<1> PICK S : S = DOMAIN before
  OBVIOUS
<1>1. IsFiniteSet(S) /\ \A i \in S : before[i] \subseteq S /\ i \in S /\ i \notin before[i]
  BY DEF Orders
<1>2. ASSUME NEW i \in S
      PROVE  /\ IsFiniteSet(before[i]) /\ Cardinality(before[i]) \in Nat
             /\ IsFiniteSet(before[i] \cup {i})
             /\ Cardinality(before[i] \cup {i}) = Cardinality(before[i]) + 1
  <2>1. IsFiniteSet(before[i])
    BY <1>1, FS_Subset
  <2> QED
    BY <1>1, <2>1, FS_CardinalityType, FS_AddElement
<1>3. ASSUME NEW i \in S, NEW j \in S, j \in before[i]
      PROVE  Cardinality(before[j]) < Cardinality(before[i])
  <2>1. before[j] \cup {j} \subseteq before[i]
    BY <1>3 DEF Orders
  <2>2. Cardinality(before[j] \cup {j}) <= Cardinality(before[i])
    BY <1>2, <2>1, FS_Subset
  <2> PICK c \in Nat, d \in Nat : c = Cardinality(before[j]) /\ d = Cardinality(before[i])
    BY <1>2
  <2>3. c + 1 <= d
    BY <1>2, <2>2
  <2> QED
    BY <2>3
<1>4. ASSUME NEW i \in S
      PROVE  Cardinality(before[i]) \in 0..n - 1
  <2>1. Cardinality(before[i] \cup {i}) <= n
    BY <1>1, FS_Subset
  <2> PICK c \in Nat : c = Cardinality(before[i])
    BY <1>2
  <2>2. c + 1 <= n
    BY <1>2, <2>1
  <2> QED
    BY <2>2
<1>5. ASSUME NEW k \in 1..n
      PROVE  \E i \in S : Cardinality(before[i]) = k - 1
  <2> PICK rank : rank = [i \in S |-> Cardinality(before[i]) + 1]
    OBVIOUS
  <2>1. rank \in [S -> 1..n]
    BY <1>4
  <2>2. \A i, j \in S : rank[i] = rank[j] => i = j
    <3>1. ASSUME NEW i \in S, NEW j \in S, rank[i] = rank[j], i # j
          PROVE  FALSE
      <4> PICK c \in Nat, d \in Nat : c = Cardinality(before[i]) /\ d = Cardinality(before[j])
        BY <1>2
      <4>1. c = d
        BY <3>1
      <4>2. i \in before[j] \/ j \in before[i]
        BY <3>1 DEF Orders
      <4>3. c < d \/ d < c
        BY <1>3, <4>2
      <4> QED
        BY <4>1, <4>3
    <3> QED
      BY <3>1
  <2>3. rank \in Injection(S, 1..n)
    BY <2>1, <2>2 DEF Injection, IsInjective
  <2>4. IsFiniteSet(1..n) /\ Cardinality(1..n) = n
    BY FS_Interval
  <2>5. rank \in Surjection(S, 1..n)
    BY <2>3, <2>4, FS_Injection
  <2>6. PICK i \in S : rank[i] = k
    BY <2>5 DEF Surjection
  <2> PICK c \in Nat : c = Cardinality(before[i])
    BY <1>2
  <2>7. c + 1 = k
    BY <2>6
  <2>8. c = k - 1
    BY <2>7
  <2> QED
    BY <2>8
<1> QED
  BY <1>3, <1>4, <1>5

(* Places further on are as many.                                          *)
LEMMA ShiftCounts ==
  ASSUME NEW S, IsFiniteSet(S), S \subseteq Nat, NEW d \in Nat
  PROVE  Cardinality({i + d : i \in S}) = Cardinality(S)
<1> PICK T : T = {i + d : i \in S}
  OBVIOUS
<1> PICK f : f = [i \in S |-> i + d]
  OBVIOUS
<1>1. f \in [S -> T] /\ \A i, j \in S : f[i] = f[j] => i = j
  OBVIOUS
<1>2. \A t \in T : \E i \in S : f[i] = t
  OBVIOUS
<1>3. f \in Bijection(S, T)
  BY <1>1, <1>2 DEF Bijection, Injection, Surjection, IsInjective
<1>4. ExistsBijection(S, T)
  BY <1>3 DEF ExistsBijection
<1> QED
  BY <1>4, FS_Bijection

(* The rank of a percentile is among the ranks.                            *)
IsRank(r, p, n) ==
  /\ r \in 1..n /\ 100 * r >= p * n /\ 100 * (r - 1) < p * n
  /\ Latency!Min({n, Latency!Max({0, r - 1}) + 1}) = r

LEMMA RankIsThere ==
  ASSUME NEW n \in Nat \ {0}, NEW p \in {50, 99}
  PROVE  IsRank(Latency!Rank(p, n), p, n)
<1> PICK r : r = Latency!Rank(p, n)
  OBVIOUS
<1>1. r \in 1..n /\ 100 * r >= p * n /\ 100 * (r - 1) < p * n
  <2>1. CASE p = 50
    <3>1. r = (50 * n + 99) \div 100
      BY <2>1 DEF Latency!Rank
    <3> QED
      BY <2>1, <3>1
  <2>2. CASE p = 99
    <3>1. r = (99 * n + 99) \div 100
      BY <2>2 DEF Latency!Rank
    <3> QED
      BY <2>2, <3>1
  <2> QED
    BY <2>1, <2>2
<1>2. Latency!Max({0, r - 1}) = r - 1
  <2>1. r - 1 \in {0, r - 1} /\ \A y \in {0, r - 1} : r - 1 >= y
    BY <1>1
  <2>2. \A x \in {0, r - 1} : (\A y \in {0, r - 1} : x >= y) => x = r - 1
    BY <1>1
  <2> QED
    BY <2>1, <2>2 DEF Latency!Max
<1>3. Latency!Min({n, r}) = r
  <2>1. r \in {n, r} /\ \A y \in {n, r} : r <= y
    BY <1>1
  <2>2. \A x \in {n, r} : (\A y \in {n, r} : x <= y) => x = r
    BY <1>1
  <2> QED
    BY <2>1, <2>2 DEF Latency!Min
<1>4. (r - 1) + 1 = r
  BY <1>1
<1> QED
  BY <1>1, <1>2, <1>3, <1>4 DEF IsRank

(* The live samples of a sequence whose latency is at most v.              *)
Within(w, v) == {i \in Latency!Fresh(w) : w[i].ms <= v}

LEMMA PercentileIsRank ==
  ASSUME WindowAssumption, NEW w \in Seq(Latency!Sample), NEW n \in Nat \ {0},
         n = Cardinality(Latency!Fresh(w)), NEW p \in {50, 99}
  PROVE  /\ 100 * Cardinality(Within(w, Latency!Percentile(w, p))) >= p * n
         /\ \A i \in Latency!Fresh(w) :
              w[i].ms < Latency!Percentile(w, p) => 100 * Cardinality(Within(w, w[i].ms)) < p * n
<1> PICK live : live = Latency!Fresh(w)
  OBVIOUS
<1> PICK len \in Nat : len = Len(w)
  OBVIOUS
<1>1. live \subseteq 1..len /\ IsFiniteSet(live) /\ Cardinality(live) = n
  <2>1. live \subseteq 1..len
    BY DEF Latency!Fresh
  <2>2. IsFiniteSet(1..len)
    BY FS_Interval
  <2> QED
    BY <2>1, <2>2, FS_Subset
<1> PICK ms : ms = [i \in live |-> w[i].ms]
  OBVIOUS
<1>2. \A i \in live : i \in Nat /\ ms[i] \in Int /\ ms[i] = w[i].ms
  <2>1. ASSUME NEW i \in 1..len
        PROVE  i \in Nat /\ w[i].ms \in Int
    <3>1. w[i].ms \in Latencies
      BY SampleTime DEF WindowAssumption
    <3>2. i \in Nat
      OBVIOUS
    <3>3. w[i].ms \in Int
      BY <3>1 DEF WindowAssumption
    <3> QED
      BY <3>2, <3>3
  <2> QED
    BY <1>1, <2>1
<1>3. PICK before : before = [i \in live |-> {j \in live : w[j].ms < w[i].ms \/ (w[j].ms = w[i].ms /\ j < i)}]
  OBVIOUS
<1>4. DOMAIN before = live /\
      \A i, j \in live : j \in before[i] <=> (ms[j] < ms[i] \/ (ms[j] = ms[i] /\ j < i))
  BY <1>2, <1>3
<1>5. \A i \in live : before[i] \subseteq live
  BY <1>3
<1>6. Orders(before)
  <2>1. \A i \in live : i \notin before[i]
    BY <1>2, <1>4
  <2>2. ASSUME NEW i \in live, NEW j \in before[i], NEW m \in before[j]
        PROVE  m \in before[i]
    <3>1. j \in live /\ m \in live
      BY <1>5, <2>2
    <3>2. (ms[j] < ms[i] \/ (ms[j] = ms[i] /\ j < i)) /\ (ms[m] < ms[j] \/ (ms[m] = ms[j] /\ m < j))
      BY <1>4, <2>2, <3>1
    <3>3. ms[m] < ms[i] \/ (ms[m] = ms[i] /\ m < i)
      BY <1>2, <3>1, <3>2
    <3> QED
      BY <1>4, <3>1, <3>3
  <2>3. \A i, j \in live : i = j \/ i \in before[j] \/ j \in before[i]
    <3>1. \A i, j \in live : \/ i = j
                              \/ ms[i] < ms[j] \/ (ms[i] = ms[j] /\ i < j)
                              \/ ms[j] < ms[i] \/ (ms[j] = ms[i] /\ j < i)
      BY <1>2
    <3> QED
      BY <1>4, <3>1
  <2> QED
    BY <1>1, <1>4, <1>5, <2>1, <2>2, <2>3 DEF Orders
<1> PICK r : r = Latency!Rank(p, n)
  OBVIOUS
<1>7. r \in 1..n /\ 100 * r >= p * n /\ 100 * (r - 1) < p * n
      /\ Latency!Min({n, Latency!Max({0, r - 1}) + 1}) = r
  <2>1. IsRank(r, p, n)
    BY RankIsThere
  <2> QED
    BY ONLY <2>1 DEF IsRank
<1>8. PICK i : i = CHOOSE m \in live : Cardinality(before[m]) = r - 1
  OBVIOUS
<1>9. i \in live /\ Cardinality(before[i]) = r - 1
  <2>1. \E m \in live : Cardinality(before[m]) = r - 1
    <3>1. \A k \in 1..n : \E m \in DOMAIN before : Cardinality(before[m]) = k - 1
      BY <1>1, <1>4, <1>6, RanksExist
    <3> QED
      BY <1>4, <1>7, <3>1
  <2> QED
    BY <1>8, <2>1
<1>10. Latency!Percentile(w, p) = ms[i]
  <2>1. \A T : Latency!Cardinality(T) = Cardinality(T)
    BY DEF Latency!Cardinality, Cardinality
  <2>2. Latency!Sorted(w) = [k \in 1..n |-> w[CHOOSE m \in live : Latency!Cardinality(before[m]) = k - 1].ms]
    BY <1>1, <1>3, <2>1 DEF Latency!Sorted
  <2>3. (CHOOSE m \in live : Latency!Cardinality(before[m]) = r - 1) = i
    BY <1>8, <2>1
  <2>4. Latency!Sorted(w)[r] = w[i].ms
    <3>1. \A k \in 1..n : Latency!Sorted(w)[k]
                           = w[CHOOSE m \in live : Latency!Cardinality(before[m]) = k - 1].ms
      BY <2>2
    <3>2. Latency!Sorted(w)[r] = w[CHOOSE m \in live : Latency!Cardinality(before[m]) = r - 1].ms
      BY <1>7, <3>1, Zenon
    <3> QED
      BY <2>3, <3>2
  <2>5. Latency!Percentile(w, p) = Latency!Sorted(w)[r]
    BY <1>1, <1>7, <2>1 DEF Latency!Percentile
  <2> QED
    BY <1>2, <1>9, <2>4, <2>5
<1>11. IsFiniteSet(before[i]) /\ i \notin before[i] /\ i \in Nat
  BY <1>1, <1>2, <1>4, <1>5, <1>6, <1>9, FS_Subset DEF Orders
<1>12. \A v : IsFiniteSet(Within(w, v)) /\ Cardinality(Within(w, v)) \in Nat
  <2>1. \A v : Within(w, v) \subseteq live
    BY DEF Within
  <2> QED
    BY <1>1, <2>1, FS_Subset, FS_CardinalityType
<1>13. 100 * Cardinality(Within(w, ms[i])) >= p * n
  <2>1. before[i] \cup {i} \subseteq Within(w, ms[i])
    <3>1. \A j \in before[i] : j \in live /\ ms[j] <= ms[i]
      BY <1>2, <1>4, <1>5, <1>9
    <3>2. \A j \in live : ms[j] <= ms[i] => j \in Within(w, ms[i])
      BY <1>2 DEF Within
    <3>3. i \in live /\ ms[i] <= ms[i]
      BY <1>2, <1>9
    <3> QED
      BY <3>1, <3>2, <3>3
  <2>2. Cardinality(before[i] \cup {i}) = (r - 1) + 1
    <3>1. Cardinality(before[i] \cup {i}) = Cardinality(before[i]) + 1
      BY <1>11, FS_AddElement
    <3> QED
      BY <1>9, <3>1
  <2> PICK c \in Nat : c = Cardinality(Within(w, ms[i]))
    BY <1>12
  <2>3. (r - 1) + 1 <= c
    <3>1. IsFiniteSet(Within(w, ms[i]))
      BY <1>12, Zenon
    <3>2. Cardinality(before[i] \cup {i}) <= Cardinality(Within(w, ms[i]))
      BY ONLY <2>1, <3>1, FS_Subset
    <3> QED
      BY <2>2, <3>2, Zenon
  <2>4. 100 * c >= p * n
    <3>1. p * n \in Int /\ r \in Nat /\ 100 * r >= p * n
      BY <1>7
    <3> QED
      BY ONLY <2>3, <3>1, c \in Nat, Enough
  <2> QED
    BY <2>4, Zenon
<1>14. ASSUME NEW j \in live, ms[j] < ms[i]
       PROVE  100 * Cardinality(Within(w, ms[j])) < p * n
  <2>1. Within(w, ms[j]) \subseteq before[i]
    <3>1. ASSUME NEW m \in Within(w, ms[j])
          PROVE  m \in before[i]
      <4>1. m \in live /\ ms[m] <= ms[j]
        BY <1>2, <3>1 DEF Within
      <4>2. ms[m] < ms[i]
        BY <1>2, <1>9, <1>14, <4>1
      <4> QED
        BY <1>4, <1>9, <4>1, <4>2
    <3> QED
      BY <3>1
  <2> PICK c \in Nat : c = Cardinality(Within(w, ms[j]))
    BY <1>12
  <2>2. c <= r - 1
    <3>1. IsFiniteSet(before[i]) /\ Cardinality(before[i]) = r - 1
      BY <1>9, <1>11
    <3>2. Cardinality(Within(w, ms[j])) <= Cardinality(before[i])
      BY ONLY <2>1, <3>1, FS_Subset
    <3> QED
      BY <3>1, <3>2, Zenon
  <2>3. 100 * c < p * n
    <3>1. p * n \in Int /\ r \in Nat /\ 100 * (r - 1) < p * n
      BY <1>7
    <3> QED
      BY ONLY <2>2, <3>1, c \in Nat, TooFew
  <2> QED
    BY <2>3, Zenon
<1>15. ms[i] = Latency!Percentile(w, p) /\ live = Latency!Fresh(w) /\ \A j \in live : ms[j] = w[j].ms
  BY <1>2, <1>10
<1> QED
  BY ONLY <1>13, <1>14, <1>15

(* The live samples of the window are those of the last MaxSamples.        *)
LEMMA WindowRanks == WindowAssumption /\ WindowInv => Latency!NearestRank
<1> SUFFICES ASSUME WindowAssumption, WindowInv
             PROVE  Latency!NearestRank
  OBVIOUS
<1> PICK live : live = {i \in Latency!Fresh(arrived) : i > Len(arrived) - MaxSamples}
  OBVIOUS
<1> PICK S : S = Latency!Fresh(window)
  OBVIOUS
<1>0. arrived \in Seq(Latency!Sample) /\ window \in Seq(Latency!Sample) /\ Cut \in 0..Len(arrived)
  BY DEF WindowInv, Latency!TypeOK, Rest
<1> PICK n \in Nat, k \in Nat, d \in Nat : n = Len(arrived) /\ k = Len(window) /\ d = Cut
  BY <1>0
<1>1. /\ arrived \in Seq(Latency!Sample) /\ window \in Seq(Latency!Sample)
      /\ d <= n /\ k = n - d /\ k <= MaxSamples
      /\ \A i \in 1..k : window[i] = arrived[d + i]
      /\ \A i \in 1..d : i <= n - MaxSamples \/ arrived[i].at < clock - WindowAge
  BY DEF WindowInv, Latency!TypeOK, Rest
<1>2. S = {i \in 1..k : window[i].at >= clock - WindowAge}
  <2>1. window \in Seq(Latency!Sample)
    BY <1>1
  <2>2. DOMAIN window = 1..k
    BY <2>1
  <2> QED
    BY <2>2 DEF Latency!Fresh
<1>3. live = {i \in 1..n : arrived[i].at >= clock - WindowAge /\ i > n - MaxSamples}
  BY <1>1 DEF Latency!Fresh
<1>4. \A i \in 1..n : arrived[i].at \in Nat
  BY <1>1, SampleTime DEF WindowAssumption
<1>5. ASSUME NEW i \in live
      PROVE  i \in Nat /\ i - d \in S /\ (i - d) + d = i
  <2>1. i \in 1..n /\ i > n - MaxSamples /\ arrived[i].at >= clock - WindowAge
    BY <1>3
  <2>2. clock - WindowAge \in Int
    BY DEF WindowInv, Latency!TypeOK, WindowAssumption
  <2>3. i \notin 1..d
    BY <1>1, <1>4, <2>1, <2>2 DEF WindowAssumption
  <2>4. i - d \in 1..k /\ d + (i - d) = i
    BY <1>1, <2>1, <2>3
  <2> QED
    BY <1>1, <1>2, <2>1, <2>4
<1>6. ASSUME NEW i \in S
      PROVE  i \in Nat /\ i + d \in live /\ window[i] = arrived[i + d]
  <2>1. i \in 1..k /\ d + i = i + d /\ i + d \in 1..n /\ i + d > n - MaxSamples
    BY <1>1, <1>2 DEF WindowAssumption
  <2> QED
    BY <1>1, <1>2, <1>3, <2>1
<1> DEFINE AtMost(v) == {i \in live : arrived[i].ms <= v}
<1>7. IsFiniteSet(S) /\ S \subseteq Nat
  <2>1. IsFiniteSet(1..k) /\ S \subseteq 1..k
    BY <1>2, FS_Interval
  <2> QED
    BY <2>1, FS_Subset
<1>8. Cardinality(live) = Cardinality(S)
  <2>1. live = {i + d : i \in S}
    BY <1>5, <1>6
  <2> QED
    BY ONLY <1>7, <2>1, d \in Nat, ShiftCounts
<1>9. ASSUME NEW v
      PROVE  Cardinality(AtMost(v)) = Cardinality(Within(window, v))
  <2> PICK Q : Q = Within(window, v)
    OBVIOUS
  <2>1. Q = {i \in S : window[i].ms <= v}
    BY DEF Within
  <2>2. AtMost(v) = {i + d : i \in Q}
    BY <1>5, <1>6, <2>1
  <2>3. IsFiniteSet(Q) /\ Q \subseteq Nat
    BY <1>7, <2>1, FS_Subset
  <2> QED
    <3>1. Cardinality({i + d : i \in Q}) = Cardinality(Q)
      BY ONLY <2>3, d \in Nat, ShiftCounts
    <3>2. Q = Within(window, v)
      OBVIOUS
    <3> QED
      BY <2>2, <3>1, <3>2, Zenon
<1>10. (live = {}) = (S = {})
  BY <1>5, <1>6
<1>11. ASSUME live # {}, NEW p \in {50, 99}
       PROVE  LET v == Latency!Percentile(window, p) IN
              /\ 100 * Cardinality(AtMost(v)) >= p * Cardinality(live)
              /\ \A i \in live : arrived[i].ms < v =>
                   100 * Cardinality(AtMost(arrived[i].ms)) < p * Cardinality(live)
  <2> PICK v : v = Latency!Percentile(window, p)
    OBVIOUS
  <2>1. Cardinality(S) \in Nat \ {0}
    BY <1>7, <1>10, <1>11, FS_CardinalityType, FS_EmptySet
  <2>2. /\ 100 * Cardinality(Within(window, v)) >= p * Cardinality(S)
        /\ \A i \in S : window[i].ms < v => 100 * Cardinality(Within(window, window[i].ms)) < p * Cardinality(S)
    BY <1>1, <2>1, PercentileIsRank
  <2>3. ASSUME NEW i \in live, arrived[i].ms < v
        PROVE  100 * Cardinality(AtMost(arrived[i].ms)) < p * Cardinality(live)
    <3>1. i - d \in S /\ window[i - d] = arrived[i]
      BY <1>5, <1>6
    <3> QED
      BY <1>8, <1>9, <2>2, <2>3, <3>1
  <2> QED
    BY <1>8, <1>9, <2>2, <2>3
<1>12. \A T : Latency!Cardinality(T) = Cardinality(T)
  BY DEF Latency!Cardinality, Cardinality
<1> QED
  BY <1>10, <1>11, <1>12 DEF Latency!NearestRank

-----------------------------------------------------------------------------
(* The bounds of the limiters' run.                                        *)
MythBounds ==
  /\ ledger \in 0..MaxEntries + 6
  /\ \A l \in Myth!Limiters : hits[l] <= MaxHits /\ resets[l] <= LastSeason + LimitWindow

LEMMA MythBoundsStep ==
  ASSUME LimiterAssumption, MaxHits \in Nat \ {0}, MaxEntries \in Nat, LimitersHold, MythBounds,
         [Myth!Next]_mythVars
  PROVE  MythBounds'
<1>1. CASE UNCHANGED mythVars \/ Myth!Tick
  BY <1>1 DEF mythVars, Myth!Tick, MythBounds
<1>2. ASSUME NEW e, ledger < MaxEntries, Myth!Transition(e)
      PROVE  MythBounds'
  BY <1>2 DEF Myth!Transition, MythBounds
<1>3. CASE ledger < MaxEntries /\ Myth!ProcessTelemetry
  BY <1>2, <1>3 DEF Myth!ProcessTelemetry
<1>4. CASE ledger < MaxEntries /\ Myth!GreatConvergence
  <2>1. Cardinality({"ARCHIVE", "SENTINEL", "WANDERER", "SHADE", "HEALER"}) = 5
    <3>1. IsFiniteSet({"ARCHIVE"}) /\ Cardinality({"ARCHIVE"}) = 1
      BY FS_Singleton
    <3>2. IsFiniteSet({"ARCHIVE"} \cup {"SENTINEL"}) /\ Cardinality({"ARCHIVE"} \cup {"SENTINEL"}) = 2
      BY <3>1, FS_AddElement
    <3>3. /\ IsFiniteSet({"ARCHIVE", "SENTINEL"} \cup {"WANDERER"})
          /\ Cardinality({"ARCHIVE", "SENTINEL"} \cup {"WANDERER"}) = 3
      <4>1. {"ARCHIVE"} \cup {"SENTINEL"} = {"ARCHIVE", "SENTINEL"}
        OBVIOUS
      <4> QED
        BY <3>2, <4>1, FS_AddElement
    <3>4. /\ IsFiniteSet({"ARCHIVE", "SENTINEL", "WANDERER"} \cup {"SHADE"})
          /\ Cardinality({"ARCHIVE", "SENTINEL", "WANDERER"} \cup {"SHADE"}) = 4
      <4>1. {"ARCHIVE", "SENTINEL"} \cup {"WANDERER"} = {"ARCHIVE", "SENTINEL", "WANDERER"}
        OBVIOUS
      <4> QED
        BY <3>3, <4>1, FS_AddElement
    <3>5. Cardinality({"ARCHIVE", "SENTINEL", "WANDERER", "SHADE"} \cup {"HEALER"}) = 5
      <4>1. {"ARCHIVE", "SENTINEL", "WANDERER"} \cup {"SHADE"} = {"ARCHIVE", "SENTINEL", "WANDERER", "SHADE"}
        OBVIOUS
      <4> QED
        BY <3>4, <4>1, FS_AddElement
    <3>6. {"ARCHIVE", "SENTINEL", "WANDERER", "SHADE"} \cup {"HEALER"}
            = {"ARCHIVE", "SENTINEL", "WANDERER", "SHADE", "HEALER"}
      OBVIOUS
    <3> QED
      BY <3>5, <3>6
  <2>2. Myth!Cardinality(Myth!Archetypes) = 5
    BY <2>1 DEF Myth!Archetypes, Myth!Cardinality, Cardinality
  <2>3. ledger' = ledger + 1 + 5 + 1 /\ UNCHANGED <<hits, resets>>
    BY <1>4, <2>2 DEF Myth!GreatConvergence
  <2> QED
    BY <1>4, <2>3 DEF MythBounds
<1>5. ASSUME NEW L \in SUBSET Myth!Limiters, Myth!Request(L)
      PROVE  MythBounds'
  <2> DEFINE Met == {l \in L : l = "api" \/ Myth!Passes("api")}
  <2>1. /\ \A l \in Met : Myth!Ended(l) \/ hits[l] < MaxHits
        /\ hits' = [l \in Myth!Limiters |-> IF l \in Met THEN Myth!Count(l) ELSE hits[l]]
        /\ resets' = [l \in Myth!Limiters |->
                       IF l \in Met /\ Myth!Ended(l) THEN season + LimitWindow ELSE resets[l]]
        /\ ledger' = ledger
    BY <1>5 DEF Myth!Request
  <2> HIDE DEF Met
  <2>2. season \in Nat /\ season <= LastSeason /\ LimitWindow \in Nat /\ LastSeason \in Nat
    BY DEF LimitersHold, Seen, LimiterAssumption
  <2>3. ASSUME NEW l \in Myth!Limiters
        PROVE  hits'[l] <= MaxHits /\ resets'[l] <= LastSeason + LimitWindow
    <3>1. hits[l] \in Nat /\ hits[l] <= MaxHits /\ resets[l] \in Nat /\ resets[l] <= LastSeason + LimitWindow
      BY DEF LimitersHold, MythBounds
    <3>2. hits'[l] <= MaxHits
      BY <2>1, <3>1 DEF Myth!Count
    <3>3. resets'[l] <= LastSeason + LimitWindow
      BY <2>1, <2>2, <3>1
    <3> QED
      BY <3>2, <3>3
  <2> QED
    BY <2>1, <2>3 DEF MythBounds
<1>6. {"api"} \in SUBSET Myth!Limiters /\ Myth!Limiters \in SUBSET Myth!Limiters
  BY DEF Myth!Limiters
<1> QED
  BY <1>1, <1>2, <1>3, <1>4, <1>5, <1>6 DEF Myth!Next

LEMMA InitMythBounds ==
  ASSUME LimiterAssumption, MaxHits \in Nat, MaxEntries \in Nat, Myth!Init
  PROVE  MythBounds
  BY DEF Myth!Init, MythBounds, LimiterAssumption

LEMMA MythTypes == LimitersHold /\ MythBounds => Myth!TypeOK
<1> SUFFICES ASSUME LimitersHold, MythBounds PROVE Myth!TypeOK
  OBVIOUS
<1>1. strictness \in 5..10 /\ epoch \in Myth!Epochs
  BY StrictnessIsKnown DEF LimitersHold
<1>2. \A l \in Myth!Limiters : hits[l] \in 0..MaxHits /\ resets[l] \in 0..LastSeason + LimitWindow
  BY DEF LimitersHold, MythBounds
<1> QED
  BY <1>1, <1>2 DEF MythBounds, Myth!TypeOK

LEMMA CounterTypesOK == CountersHold => Counters!TypeOK
  BY DEF CountersHold, CounterTypes, Counters!TypeOK, Snap, Cell, Counters!Buckets

-----------------------------------------------------------------------------
(* All of them together: the others are where they started while one moves. *)
GovernanceAssumption ==
  /\ LimiterAssumption /\ BucketAssumption /\ WindowAssumption
  /\ MaxHits \in Nat \ {0} /\ MaxEntries \in Nat

GovernanceInv == TrailInv /\ CountersHold /\ WindowInv /\ LimitersHold /\ MythBounds

LEMMA InitGovernance ==
  ASSUME GovernanceAssumption, GovernanceInit
  PROVE  GovernanceInv
<1>1. TrailInv
  BY InitInv DEF GovernanceInit
<1>2. CountersHold /\ WindowInv /\ LimitersHold /\ MythBounds
  BY InitCounters, InitWindow, InitLimiters, InitMythBounds
     DEF GovernanceAssumption, GovernanceInit
<1> QED
  BY <1>1, <1>2 DEF GovernanceInv

LEMMA GovernanceStep ==
  ASSUME GovernanceAssumption, GovernanceInv,
         [GovernanceNext]_<<vars, counterVars, windowVars, mythVars>>
  PROVE  GovernanceInv'
<1>1. /\ [Next]_vars /\ [Counters!Next]_counterVars
      /\ [Latency!Next]_windowVars /\ [Myth!Next]_mythVars
  BY DEF GovernanceNext
<1>2. TrailInv'
  BY <1>1, NextInv DEF GovernanceInv
<1>3. CountersHold'
  BY <1>1, CounterStep DEF GovernanceInv, GovernanceAssumption
<1>4. WindowInv'
  BY <1>1, WindowStep DEF GovernanceInv, GovernanceAssumption
<1>5. LimitersHold'
  BY <1>1, MythStep DEF GovernanceInv, GovernanceAssumption
<1>6. MythBounds'
  BY <1>1, MythBoundsStep DEF GovernanceInv, GovernanceAssumption
<1> QED
  BY <1>2, <1>3, <1>4, <1>5, <1>6 DEF GovernanceInv

LEMMA GovernanceAlways ==
  ASSUME GovernanceAssumption
  PROVE  GovernanceSpec => []GovernanceInv
<1>1. GovernanceInit => GovernanceInv
  BY InitGovernance
<1>2. GovernanceInv /\ [GovernanceNext]_<<vars, counterVars, windowVars, mythVars>>
        => GovernanceInv'
  BY GovernanceStep
<1> QED
  BY <1>1, <1>2, PTL DEF GovernanceSpec

(* Type correctness of the trail, the counters, the window and the limits. *)
THEOREM RecordsAreTyped ==
  ASSUME GovernanceAssumption
  PROVE  GovernanceSpec => []GovernanceTypeOK
<1>1. GovernanceInv => GovernanceTypeOK
  BY CounterTypesOK, MythTypes DEF GovernanceInv, TrailInv, WindowInv, GovernanceTypeOK
<1> QED
  BY <1>1, GovernanceAlways, PTL

(* getMetricsCounters: however many processes bump, snapshot, lose their
   connections and start again, a snapshot that is not marked degraded has
   found all that its process had counted before it asked, and nothing that
   nobody bumped.                                                          *)
THEOREM SnapshotsAreComplete ==
  ASSUME GovernanceAssumption
  PROVE  GovernanceSpec => []HealthyIsComplete
<1>1. GovernanceInv => HealthyIsComplete
  BY DEF GovernanceInv, CountersHold
<1> QED
  BY <1>1, GovernanceAlways, PTL

(* metricsCounters.ts:123: whatever times samples carry, p50 and p99 are the
   nearest-rank percentiles of the live ones among the last MaxSamples that
   arrived.                                                                *)
THEOREM PercentilesAreRanks ==
  ASSUME GovernanceAssumption
  PROVE  GovernanceSpec => []NearestRank
<1>1. GovernanceInv => NearestRank
  BY WindowRanks DEF GovernanceAssumption, GovernanceInv, NearestRank
<1> QED
  BY <1>1, GovernanceAlways, PTL

(* The limiters: whatever the limits and the length of the window, and
   wherever in an epoch a stretch of that length is put, it serves twice
   the epoch's limit at most.                                              *)
THEOREM EpochsAreBounded ==
  ASSUME GovernanceAssumption
  PROVE  GovernanceSpec => []EpochBound
<1>1. GovernanceAssumption /\ GovernanceInv => EpochBound
  BY LimitersBound DEF GovernanceAssumption, GovernanceInv
<1>2. GovernanceInv => EpochBound
  BY <1>1
<1> QED
  BY <1>2, GovernanceAlways, PTL

-----------------------------------------------------------------------------
(* AuditTrail once more: what verify() says of a trail nobody has changed, and of the first
   change to it. *)
Linked(s) ==
  \A i \in 1..Len(s) :
    /\ s[i].prevHash = IF i = 1 THEN Genesis ELSE s[i - 1].entryHash
    /\ s[i].entryHash = Hash(s[i].prevHash, s[i].timestamp, s[i].sequence, s[i].event)

Untouched == Linked(records) /\ \A i \in 1..Len(records) : records[i].sequence = i - 1

UntouchedInv == changes = 0 => Untouched

LEMMA LinkedVerifies ==
  ASSUME TrailInv, Linked(records)
  PROVE  Verify
<1>1. DOMAIN records = 1..Len(records)
  BY DEF TrailInv, TypeOK
<1>2. Tampered = {}
  BY <1>1 DEF Tampered, Linked, PrevHash
<1> QED
  BY <1>2 DEF Verify, FirstTamperedSequence

LEMMA UntouchedStep ==
  ASSUME TrailInv, UntouchedInv, [Next]_vars
  PROVE  UntouchedInv'
<1>1. CASE UNCHANGED vars
  BY <1>1 DEF vars, UntouchedInv, Untouched, Linked
<1>2. CASE EditRecord \/ RemoveRecord \/ ReorderRecords
  <2>1. changes' = changes + 1 /\ changes \in Nat
    BY <1>2 DEF EditRecord, RemoveRecord, ReorderRecords, Change, TrailInv, TypeOK
  <2> QED
    BY <2>1 DEF UntouchedInv
<1>3. CASE AppendRecord
  <2>1. changes' = changes
    BY <1>3 DEF AppendRecord
  <2> SUFFICES ASSUME Untouched PROVE Untouched'
    BY <2>1 DEF UntouchedInv
  <2>2. PICK r : /\ records' = Append(records, r)
                 /\ r.sequence = Len(records) /\ r.prevHash = LastHash
                 /\ r.entryHash = Hash(r.prevHash, r.timestamp, r.sequence, r.event)
    <3>1. PICK event \in Events, now \in Times : records' = Append(records, SealRecord(event, now))
      BY <1>3 DEF AppendRecord
    <3> PICK r : r = SealRecord(event, now)
      OBVIOUS
    <3>2. /\ r.sequence = Len(records) /\ r.prevHash = LastHash
          /\ r.entryHash = Hash(r.prevHash, r.timestamp, r.sequence, r.event)
      BY DEF SealRecord
    <3> QED
      BY <3>1, <3>2
  <2> PICK s, t : s = records /\ t = records'
    OBVIOUS
  <2>3. PICK n \in Nat : /\ n = Len(s) /\ Len(t) = n + 1 /\ t[n + 1] = r
                         /\ \A i \in 1..n : t[i] = s[i]
    BY <2>2 DEF TrailInv, TypeOK
  <2>4. LastHash = IF n = 0 THEN Genesis ELSE s[n].entryHash
    BY <2>3 DEF LastHash, TrailInv, TypeOK
  <2>5. ASSUME NEW i \in 1..Len(t)
        PROVE  /\ t[i].prevHash = IF i = 1 THEN Genesis ELSE t[i - 1].entryHash
               /\ t[i].entryHash = Hash(t[i].prevHash, t[i].timestamp, t[i].sequence, t[i].event)
               /\ t[i].sequence = i - 1
    <3>1. CASE i \in 1..n
      <4>1. t[i] = s[i] /\ (i # 1 => t[i - 1] = s[i - 1])
        BY <2>3, <3>1
      <4>2. /\ s[i].prevHash = IF i = 1 THEN Genesis ELSE s[i - 1].entryHash
            /\ s[i].entryHash = Hash(s[i].prevHash, s[i].timestamp, s[i].sequence, s[i].event)
            /\ s[i].sequence = i - 1
        BY <2>3, <3>1 DEF Untouched, Linked
      <4> QED
        BY <4>1, <4>2
    <3>2. CASE i = n + 1
      <4>1. t[i] = r /\ (i # 1 => t[i - 1] = s[n] /\ n # 0) /\ (i = 1 => n = 0)
        BY <2>3, <3>2
      <4>2. r.prevHash = IF i = 1 THEN Genesis ELSE t[i - 1].entryHash
        BY <2>2, <2>4, <4>1
      <4>3. r.sequence = i - 1
        BY <2>2, <2>3, <3>2
      <4> QED
        BY <2>2, <4>1, <4>2, <4>3
    <3> QED
      BY <2>3, <3>1, <3>2
  <2> QED
    BY <2>5 DEF Untouched, Linked
<1> QED
  BY <1>1, <1>2, <1>3 DEF Next

(* No two records of an untouched trail follow the same one. *)
LEMMA Misplaced ==
  ASSUME CollisionFree, NEW s, NEW t, Linked(s), Linked(t), Len(s) \in Nat,
         \A i \in 1..Len(s) : s[i].sequence = i - 1,
         NEW a \in 1..Len(s), NEW b \in 1..Len(s), a # b,
         a \in 1..Len(t), t[a] = s[b], a # 1 => t[a - 1] = s[a - 1]
  PROVE  FALSE
<1>1. s[b].prevHash = IF a = 1 THEN Genesis ELSE s[a - 1].entryHash
  BY DEF Linked
<1>2. s[b].prevHash = IF b = 1 THEN Genesis ELSE s[b - 1].entryHash
  BY DEF Linked
<1>3. ASSUME NEW i \in 1..Len(s)
      PROVE  s[i].entryHash # Genesis
  <2>1. s[i].entryHash = Hash(s[i].prevHash, s[i].timestamp, s[i].sequence, s[i].event)
    BY DEF Linked
  <2> QED
    BY <2>1, NoCollision
<1>4. ASSUME NEW i \in 1..Len(s), NEW j \in 1..Len(s), s[i].entryHash = s[j].entryHash
      PROVE  i = j
  <2>1. Hash(s[i].prevHash, s[i].timestamp, s[i].sequence, s[i].event)
          = Hash(s[j].prevHash, s[j].timestamp, s[j].sequence, s[j].event)
    BY <1>4 DEF Linked
  <2>2. s[i].sequence = s[j].sequence
    BY <2>1, NoCollision
  <2>3. s[i].sequence = i - 1 /\ s[j].sequence = j - 1
    OBVIOUS
  <2>4. i \in Int /\ j \in Int
    OBVIOUS
  <2>5. i - 1 = j - 1
    BY <2>2, <2>3, Zenon
  <2> QED
    BY ONLY <2>4, <2>5
<1>5. CASE a = 1
  <2>1. b # 1 /\ b - 1 \in 1..Len(s)
    BY <1>5
  <2> QED
    BY <1>1, <1>2, <1>3, <1>5, <2>1
<1>6. CASE a # 1 /\ b = 1
  <2>1. a - 1 \in 1..Len(s)
    BY <1>6
  <2> QED
    BY <1>1, <1>2, <1>3, <1>6, <2>1
<1>7. CASE a # 1 /\ b # 1
  <2>1. a - 1 \in 1..Len(s) /\ b - 1 \in 1..Len(s) /\ a - 1 # b - 1
    BY <1>7
  <2> QED
    BY <1>1, <1>2, <1>4, <1>7, <2>1
<1> QED
  BY <1>5, <1>6, <1>7

(* One field of one record. *)
LEMMA EditIsSeen ==
  ASSUME CollisionFree, TrailInv, Untouched, EditRecord, Linked(records')
  PROVE  records' = records
<1> DEFINE R == Record(Nat \cup EditedSequences)
<1>1. records \in Seq(R)
  BY DEF TrailInv, TypeOK
<1>2. PICK i \in DOMAIN records : \E q :
        /\ records' = [records EXCEPT ![i] = q]
        /\ \/ \E e : q = [records[i] EXCEPT !.event = e]
           \/ \E e : q = [records[i] EXCEPT !.timestamp = e]
           \/ \E e : q = [records[i] EXCEPT !.sequence = e]
           \/ \E e : q = [records[i] EXCEPT !.prevHash = e]
           \/ \E e : q = [records[i] EXCEPT !.entryHash = e]
  BY DEF EditRecord
<1> PICK r : r = records[i]
  OBVIOUS
<1>20. PICK q :
        /\ records' = [records EXCEPT ![i] = q]
        /\ \/ \E e : q = [r EXCEPT !.event = e]
           \/ \E e : q = [r EXCEPT !.timestamp = e]
           \/ \E e : q = [r EXCEPT !.sequence = e]
           \/ \E e : q = [r EXCEPT !.prevHash = e]
           \/ \E e : q = [r EXCEPT !.entryHash = e]
  BY <1>2
<1>3. r \in R /\ i \in 1..Len(records) /\ records'[i] = q /\ Len(records') = Len(records)
  BY <1>1, <1>20
<1>4. /\ r.entryHash = Hash(r.prevHash, r.timestamp, r.sequence, r.event)
      /\ q.entryHash = Hash(q.prevHash, q.timestamp, q.sequence, q.event)
  BY <1>3 DEF Untouched, Linked
<1> HIDE DEF R
<1>5. q = r
  <2>1. r.entryHash = q.entryHash =>
          /\ r.prevHash = q.prevHash /\ r.timestamp = q.timestamp
          /\ r.sequence = q.sequence /\ r.event = q.event
    <3> SUFFICES ASSUME r.entryHash = q.entryHash
                 PROVE  /\ r.prevHash = q.prevHash /\ r.timestamp = q.timestamp
                        /\ r.sequence = q.sequence /\ r.event = q.event
      OBVIOUS
    <3>1. Hash(r.prevHash, r.timestamp, r.sequence, r.event)
            = Hash(q.prevHash, q.timestamp, q.sequence, q.event)
      BY <1>4, Zenon
    <3> QED
      BY <3>1, NoCollision
  <2>2. /\ DOMAIN r = {"event", "timestamp", "sequence", "prevHash", "entryHash"}
        /\ r = [x \in DOMAIN r |-> r[x]]
    BY <1>3 DEF R, Record
  <2>3. CASE \E e : q = [r EXCEPT !.event = e]
    <3>1. PICK e : q = [r EXCEPT !.event = e]
      BY <2>3
    <3>2. q.event = e /\ q.entryHash = r.entryHash
      BY <2>2, <3>1
    <3> QED
      BY <2>1, <2>2, <3>1, <3>2
  <2>4. CASE \E e : q = [r EXCEPT !.timestamp = e]
    <3>1. PICK e : q = [r EXCEPT !.timestamp = e]
      BY <2>4
    <3>2. q.timestamp = e /\ q.entryHash = r.entryHash
      BY <2>2, <3>1
    <3> QED
      BY <2>1, <2>2, <3>1, <3>2
  <2>5. CASE \E e : q = [r EXCEPT !.sequence = e]
    <3>1. PICK e : q = [r EXCEPT !.sequence = e]
      BY <2>5
    <3>2. q.sequence = e /\ q.entryHash = r.entryHash
      BY <2>2, <3>1
    <3> QED
      BY <2>1, <2>2, <3>1, <3>2
  <2>6. CASE \E e : q = [r EXCEPT !.prevHash = e]
    <3>1. PICK e : q = [r EXCEPT !.prevHash = e]
      BY <2>6
    <3>2. q.prevHash = e /\ q.entryHash = r.entryHash
      BY <2>2, <3>1
    <3> QED
      BY <2>1, <2>2, <3>1, <3>2
  <2>7. CASE \E e : q = [r EXCEPT !.entryHash = e]
    <3>1. PICK e : q = [r EXCEPT !.entryHash = e]
      BY <2>7
    <3>2. /\ q.entryHash = e /\ q.prevHash = r.prevHash /\ q.timestamp = r.timestamp
          /\ q.sequence = r.sequence /\ q.event = r.event
      BY <2>2, <3>1
    <3>3. e = r.entryHash
      BY <1>4, <3>2
    <3> QED
      BY <2>2, <3>1, <3>3
  <2> QED
    BY <1>20, <2>3, <2>4, <2>5, <2>6, <2>7
<1> QED
  BY <1>1, <1>20, <1>5

(* A record that is missing, unless it is the last. *)
LEMMA RemovalIsSeen ==
  ASSUME CollisionFree, TrailInv, Untouched, RemoveRecord, Linked(records')
  PROVE  records' = SubSeq(records, 1, Len(records) - 1)
<1> DEFINE R == Record(Nat \cup EditedSequences)
<1> PICK s \in Seq(R) : s = records
  BY DEF TrailInv, TypeOK
<1> PICK t : t = records'
  OBVIOUS
<1> HIDE DEF R
<1>1. PICK i \in 1..Len(s) : t = SubSeq(s, 1, i - 1) \o SubSeq(s, i + 1, Len(s))
  <2>1. PICK i \in DOMAIN records : records' = RemoveAt(records, i)
    BY DEF RemoveRecord
  <2>2. t = SubSeq(s, 1, i - 1) \o SubSeq(s, i + 1, Len(s)) /\ i \in 1..Len(s)
    BY <2>1 DEF RemoveAt
  <2> QED
    BY <2>2
<1> PICK n \in Nat : n = Len(s)
  OBVIOUS
<1> PICK u, v : u = SubSeq(s, 1, i - 1) /\ v = SubSeq(s, i + 1, n)
  OBVIOUS
<1>2. /\ u \in Seq(R) /\ Len(u) = i - 1 /\ \A k \in 1..i - 1 : u[k] = s[k]
      /\ v \in Seq(R) /\ Len(v) = n - i /\ \A k \in 1..n - i : v[k] = s[k + i]
  <2>1. i \in 1..n /\ n = Len(s) /\ s \in Seq(R) /\ n \in Nat
    BY <1>1
  <2>2. SubSeq(s, 1, i - 1) \in Seq(R) /\ SubSeq(s, i + 1, n) \in Seq(R)
    BY ONLY <2>1
  <2>3. Len(SubSeq(s, 1, i - 1)) = i - 1 /\ Len(SubSeq(s, i + 1, n)) = n - i
    BY ONLY <2>1
  <2>4. \A k \in 1..i - 1 : SubSeq(s, 1, i - 1)[k] = s[k]
    BY ONLY <2>1
  <2>5. \A k \in 1..n - i : SubSeq(s, i + 1, n)[k] = s[k + i]
    BY ONLY <2>1
  <2> QED
    BY <2>2, <2>3, <2>4, <2>5, Zenon
<1>3. CASE i = n
  <2>1. v = <<>>
    BY <1>2, <1>3
  <2> QED
    BY <1>1, <1>2, <1>3, <2>1
<1>4. CASE i # n
  <2>1. i \in 1..n /\ i + 1 \in 1..n /\ i + 1 # i
    BY <1>1, <1>4
  <2>2. t = u \o v
    BY <1>1
  <2>3. /\ Len(t) = Len(u) + Len(v) /\ \A k \in 1..Len(u) : t[k] = u[k]
        /\ \A k \in 1..Len(v) : t[Len(u) + k] = v[k]
    <3>1. u \in Seq(R) /\ v \in Seq(R)
      BY <1>2
    <3>2. /\ Len(t) = Len(u) + Len(v) /\ Len(u) \in Nat /\ Len(v) \in Nat
          /\ \A k \in 1..Len(u) + Len(v) : t[k] = IF k <= Len(u) THEN u[k] ELSE v[k - Len(u)]
      BY ONLY <2>2, <3>1, ConcatProperties, LenProperties
    <3>3. ASSUME NEW k \in 1..Len(v) PROVE t[Len(u) + k] = v[k]
      <4>1. /\ Len(u) + k \in 1..Len(u) + Len(v) /\ ~(Len(u) + k <= Len(u))
            /\ (Len(u) + k) - Len(u) = k
        BY ONLY <3>2, k \in 1..Len(v)
      <4>2. t[Len(u) + k] = v[(Len(u) + k) - Len(u)]
        BY <3>2, <4>1, Zenon
      <4> QED
        BY <4>1, <4>2, Zenon
    <3>4. ASSUME NEW k \in 1..Len(u) PROVE t[k] = u[k]
      <4>1. k \in 1..Len(u) + Len(v) /\ k <= Len(u)
        BY ONLY <3>2, k \in 1..Len(u)
      <4> QED
        BY <3>2, <4>1, Zenon
    <3> QED
      BY <3>2, <3>3, <3>4, Zenon
  <2>4. t[i] = s[i + 1] /\ (i # 1 => t[i - 1] = s[i - 1])
    <3>1. t[i] = v[1]
      <4>1. 1 \in 1..Len(v) /\ Len(u) + 1 = i
        <5>1. Len(u) = i - 1 /\ Len(v) = n - i
          BY <1>2, Zenon
        <5>2. 1 \in 1..(n - i) /\ (i - 1) + 1 = i
          BY ONLY n \in Nat, <2>1
        <5> QED
          BY <5>1, <5>2, Zenon
      <4>2. \A k \in 1..Len(v) : t[Len(u) + k] = v[k]
        BY <2>3, Zenon
      <4>3. t[Len(u) + 1] = v[1]
        BY <4>1, <4>2, Zenon
      <4> QED
        BY <4>1, <4>3, Zenon
    <3>2. v[1] = s[i + 1]
      <4>1. /\ \A k \in 1..n - i : v[k] = s[k + i]
            /\ n \in Nat /\ i \in 1..n /\ i + 1 \in 1..n
        BY <1>2, <2>1
      <4>2. 1 \in 1..n - i /\ 1 + i = i + 1
        BY ONLY <4>1
      <4> QED
        BY ONLY <4>1, <4>2
    <3>3. i # 1 => t[i - 1] = u[i - 1] /\ u[i - 1] = s[i - 1]
      <4>1. /\ \A k \in 1..i - 1 : u[k] = s[k]
            /\ \A k \in 1..Len(u) : t[k] = u[k]
            /\ Len(u) = i - 1 /\ n \in Nat /\ i \in 1..n
        BY <1>2, <2>1, <2>3
      <4> QED
        BY ONLY <4>1
    <3> QED
      BY <3>1, <3>2, <3>3
  <2>5. i \in 1..Len(t) /\ i \in 1..Len(s) /\ i + 1 \in 1..Len(s) /\ Len(s) \in Nat
    <3>1. Len(t) = (i - 1) + (n - i) /\ Len(s) = n
      BY <1>2, <2>3, Zenon
    <3>2. i \in 1..(i - 1) + (n - i) /\ i \in 1..n /\ i + 1 \in 1..n /\ n \in Nat
      BY ONLY <2>1, n \in Nat
    <3> QED
      BY <3>1, <3>2, Zenon
  <2>6. Linked(s) /\ Linked(t) /\ \A k \in 1..Len(s) : s[k].sequence = k - 1
    BY DEF Untouched
  <2> QED
    BY ONLY CollisionFree, <2>1, <2>4, <2>5, <2>6, Misplaced
<1> QED
  BY <1>3, <1>4

(* Two records that have changed places. *)
LEMMA ReorderIsSeen ==
  ASSUME CollisionFree, TrailInv, Untouched, ReorderRecords, Linked(records')
  PROVE  records' = records
<1> DEFINE R == Record(Nat \cup EditedSequences)
<1> PICK s \in Seq(R) : s = records
  BY DEF TrailInv, TypeOK
<1> PICK t : t = records'
  OBVIOUS
<1> HIDE DEF R
<1>1. PICK i, j \in 1..Len(s) : t = [s EXCEPT ![i] = s[j], ![j] = s[i]]
  <2>1. PICK i, j \in DOMAIN records :
          records' = [records EXCEPT ![i] = records[j], ![j] = records[i]]
    BY DEF ReorderRecords
  <2>2. i \in 1..Len(s) /\ j \in 1..Len(s) /\ t = [s EXCEPT ![i] = s[j], ![j] = s[i]]
    BY <2>1
  <2> QED
    BY <2>2
<1>2. /\ Len(s) \in Nat /\ Len(t) = Len(s)
      /\ \A k \in 1..Len(s) : t[k] = IF k = j THEN s[i] ELSE IF k = i THEN s[j] ELSE s[k]
  BY <1>1
<1>3. Linked(s) /\ Linked(t) /\ \A k \in 1..Len(s) : s[k].sequence = k - 1
  BY DEF Untouched
<1>4. CASE i < j
  <2>1. t[i] = s[j] /\ (i # 1 => t[i - 1] = s[i - 1]) /\ i # j
    BY <1>2, <1>4
  <2> QED
    BY <1>2, <1>3, <2>1, Misplaced
<1>5. CASE j < i
  <2>1. t[j] = s[i] /\ (j # 1 => t[j - 1] = s[j - 1]) /\ i # j
    BY <1>2, <1>5
  <2> QED
    BY <1>2, <1>3, <2>1, Misplaced
<1>6. CASE i = j
  BY <1>1, <1>6
<1> QED
  BY <1>4, <1>5, <1>6

(* What Verify says of the trail after the step. *)
LEMMA VerifiedIsLinked ==
  ASSUME EditedSequences \subseteq Nat, TrailInv', Verify'
  PROVE  Linked(records')
<1>1. records' \in Seq(Record(Nat \cup EditedSequences)') /\ DOMAIN records' = 1..Len(records')
  BY DEF TrailInv, TypeOK
<1>2. ASSUME NEW i \in DOMAIN records'
      PROVE  records'[i].sequence \in Nat
  <2>1. records'[i] \in Record(Nat \cup EditedSequences)'
    BY <1>1
  <2> QED
    BY <2>1 DEF Record
<1>3. Tampered' \subseteq DOMAIN records'
  BY DEF Tampered
<1>4. Tampered' = {}
  BY <1>2, <1>3 DEF Verify, FirstTamperedSequence
<1> QED
  BY <1>1, <1>4 DEF Tampered, Linked, PrevHash

(* The first change to the trail, when it is more than the loss of its last record. *)
ChangeIsSeen ==
  changes = 0 /\ changes' # 0 =>
    ~Verify' \/ records' \in {records, SubSeq(records, 1, Len(records) - 1)}

(* auditTrail.ts:71, verify(), "False on any tampering": a trail that was only appended to
   verifies, and the first change to it, the edit of a field, a record taken out or two that
   have changed places, makes it fail, unless the record taken out was the last: that the end
   of a trail is missing, no hash tells. *)
THEOREM VerdictsAreRight ==
  ASSUME CollisionFree, EditedSequences \subseteq Nat
  PROVE  Spec => [](changes = 0 => Verify) /\ [][ChangeIsSeen]_vars
<1>1. Init => UntouchedInv
  BY DEF Init, UntouchedInv, Untouched, Linked
<1>2. TrailInv /\ [Next]_vars => TrailInv'
  BY NextInv
<1>3. TrailInv /\ UntouchedInv /\ [Next]_vars => UntouchedInv'
  BY UntouchedStep
<1>4. TrailInv /\ UntouchedInv => (changes = 0 => Verify)
  BY LinkedVerifies DEF UntouchedInv, Untouched
<1>5. TrailInv /\ TrailInv' /\ UntouchedInv /\ [Next]_vars => ChangeIsSeen
  <2> SUFFICES ASSUME TrailInv, TrailInv', UntouchedInv, [Next]_vars, changes = 0, changes' # 0, Verify'
               PROVE  records' \in {records, SubSeq(records, 1, Len(records) - 1)}
    BY DEF ChangeIsSeen
  <2>1. Untouched /\ Linked(records')
    BY VerifiedIsLinked DEF UntouchedInv
  <2>2. EditRecord \/ RemoveRecord \/ ReorderRecords
    BY DEF Next, vars, AppendRecord
  <2> QED
    BY <2>1, <2>2, EditIsSeen, RemovalIsSeen, ReorderIsSeen
<1> QED
  BY InitInv, <1>1, <1>2, <1>3, <1>4, <1>5, PTL DEF Spec
=============================================================================
