---------------------------- MODULE StorageProofs ----------------------------
(***************************************************************************)
(* Theorems about what nodes store and sign, of MCStorage and the          *)
(* components in it.                                                       *)
(***************************************************************************)
EXTENDS MCStorage, FiniteSetTheorems, WellFoundedInduction, TLAPS

(* BlindQuota.  The pairs that stand for one value are as many as it.      *)
LEMMA ColumnCounts ==
  ASSUME NEW x, NEW n \in Nat
  PROVE  IsFiniteSet({x} \X (1..n)) /\ Cardinality({x} \X (1..n)) = n
<1>1. IsFiniteSet({x}) /\ Cardinality({x}) = 1
  BY FS_Singleton
<1>2. IsFiniteSet(1..n) /\ Cardinality(1..n) = IF 1 > n THEN 0 ELSE n - 1 + 1
  BY FS_Interval
<1>3. Cardinality(1..n) = n
  BY <1>2
<1>4. /\ IsFiniteSet({x} \X (1..n))
      /\ Cardinality({x} \X (1..n)) = Cardinality({x}) * Cardinality(1..n)
  BY <1>1, <1>2, FS_Product
<1> QED
  BY <1>1, <1>3, <1>4

(* A sum over a finite set is a natural number.               *)
LEMMA TotalIsNatural ==
  ASSUME NEW f, IsFiniteSet(DOMAIN f), \A x \in DOMAIN f : f[x] \in Nat
  PROVE  /\ Total(f) \in Nat
         /\ IsFiniteSet(UNION {{x} \X (1..f[x]) : x \in DOMAIN f})
<1> DEFINE T == {{x} \X (1..f[x]) : x \in DOMAIN f}
           g == [x \in DOMAIN f |-> {x} \X (1..f[x])]
<1>1. g \in Surjection(DOMAIN f, T)
  BY DEF Surjection
<1>2. IsFiniteSet(T)
  BY <1>1, FS_Surjection
<1>3. \A x \in DOMAIN f : IsFiniteSet({x} \X (1..f[x]))
  BY ColumnCounts
<1>4. IsFiniteSet(UNION T)
  BY <1>2, <1>3, FS_UNION
<1> QED
  BY <1>4, FS_CardinalityType DEF Total

(* One argument more adds its value.                                       *)
LEMMA TotalMore ==
  ASSUME NEW f, NEW g, NEW x,
         IsFiniteSet(DOMAIN g), \A y \in DOMAIN g : g[y] \in Nat /\ f[y] = g[y],
         x \notin DOMAIN g, DOMAIN f = DOMAIN g \cup {x}, f[x] \in Nat
  PROVE  Total(f) = Total(g) + f[x]
<1> DEFINE F == UNION {{y} \X (1..f[y]) : y \in DOMAIN f}
           G == UNION {{y} \X (1..g[y]) : y \in DOMAIN g}
           N == {x} \X (1..f[x])
<1>1. F = G \cup N
  OBVIOUS
<1>2. G \cap N = {}
  OBVIOUS
<1>4. IsFiniteSet(N) /\ Cardinality(N) = f[x]
  BY ColumnCounts
<1>5. IsFiniteSet(G) /\ Cardinality(G) \in Nat
  BY TotalIsNatural DEF Total
<1>6. Cardinality(G \cup N) = Cardinality(G) + Cardinality(N) - Cardinality(G \cap N)
  BY <1>4, <1>5, FS_Union
<1> HIDE DEF F, G, N
<1>7. Cardinality(F) = Cardinality(G) + f[x]
  BY <1>1, <1>2, <1>4, <1>5, <1>6, FS_EmptySet
<1> QED
  BY <1>7 DEF Total, F, G

(* A sum of values of at most m is at most m for each of them.             *)
LEMMA TotalAtMost ==
  ASSUME NEW f, IsFiniteSet(DOMAIN f), NEW m \in Nat, \A x \in DOMAIN f : f[x] \in 0..m
  PROVE  Total(f) <= Cardinality(DOMAIN f) * m
<1> DEFINE F == UNION {{x} \X (1..f[x]) : x \in DOMAIN f}
<1>1. F \in SUBSET ((DOMAIN f) \X (1..m))
  OBVIOUS
<1>2. IsFiniteSet(1..m) /\ Cardinality(1..m) = m
  BY FS_Interval
<1>3. /\ IsFiniteSet((DOMAIN f) \X (1..m))
      /\ Cardinality((DOMAIN f) \X (1..m)) = Cardinality(DOMAIN f) * m
  BY <1>2, FS_Product
<1> HIDE DEF F
<1>4. Cardinality(F) <= Cardinality((DOMAIN f) \X (1..m))
  BY <1>1, <1>3, FS_Subset
<1> QED
  BY <1>3, <1>4 DEF Total, F

-----------------------------------------------------------------------------
(* What the blocks of a set take from pipeline p, what the writers at a    *)
(* step were admitted for, and what one record counts for.                 *)
StoredIn(S, p) == Total([b \in {b \in S : b.pipe = p} |-> b.size])
Under(s, p) ==
  Total([w \in {w \in Writers : writer[w].step = s /\ writer[w].pipe = p} |-> writer[w].size])
SizeFor(p, b) == IF b.pipe = p THEN b.size ELSE 0
Weight(q, s, p) == IF q.step = s THEN SizeFor(p, q) ELSE 0
Giving(q, p) == IF q.step = "release" THEN SizeFor(p, q.block) ELSE 0

WriterTyped(q) ==
  /\ q.step \in WriterSteps
  /\ q.step # "idle" =>
       q.pipe \in Pipelines /\ q.size \in Sizes /\ q.origin \in {"LOCAL", "PEER"}

(* Until it has given back the bytes of its block, a compaction that runs  *)
(* alone holds one that is listed, and after deleteOne one that is not.    *)
CompTyped(q) ==
  /\ q.step \in CompSteps
  /\ q.step \in {"remove", "delete", "release"} => q.block \in Block /\ q.block.at <= count
  /\ q.step \in {"remove", "delete"} => q.block \in blocks
  /\ q.step = "release" => q.block \notin blocks

QuotaTyped ==
  /\ ledger \in [Pipelines -> Int]
  /\ blocks \subseteq Block /\ IsFiniteSet(blocks)
  /\ removed \subseteq Block
  /\ count \in 0..MaxBlocks
  /\ \A b \in blocks \cup removed : b.at <= count
  /\ failed \in BOOLEAN
  /\ DOMAIN writer = Writers /\ writer = [w \in Writers |-> writer[w]]
  /\ \A w \in Writers :
       DOMAIN writer[w] = {"step", "pipe", "size", "origin"} /\ WriterTyped(writer[w])
  /\ DOMAIN comp = Compactors /\ comp = [c \in Compactors |-> comp[c]]
  /\ \A c \in Compactors :
       DOMAIN comp[c] = {"step", "todo", "block"} /\ CompTyped(comp[c])

(* The ledger is never behind what is listed, being listed and given back. *)
Balanced ==
  \A p \in Pipelines :
    /\ ledger[p] >= Stored(p) + Unlisted(p) + Unreleased(p)
    /\ ~failed => ledger[p] = Stored(p) + Unlisted(p) + Unreleased(p)

ObjectsThere ==
  ~failed => \A b \in blocks \cap removed :
    \E c \in Compactors : comp[c].step = "delete" /\ comp[c].block = b

(* What was checked and is not yet in the ledger counts, too.              *)
WithinQuota ==
  \A p \in Pipelines :
    ledger[p] + Under("ledger", p) <= Quota + (Cardinality(Writers) - 1) * Max(Sizes)

QuotaInv == QuotaTyped /\ Balanced /\ ObjectsThere /\ WithinQuota

(* The bounds mean something, and no compaction starts while another runs. *)
QuotaHypotheses ==
  /\ IsFiniteSet(Writers) /\ Writers # {}
  /\ \E m \in Sizes : \A n \in Sizes : n <= m
  /\ \A c, d \in Compactors : c = d

LEMMA TotalOfNothing ==
  ASSUME NEW f, DOMAIN f = {}
  PROVE  Total(f) = 0
<1>1. UNION {{x} \X (1..f[x]) : x \in DOMAIN f} = {}
  OBVIOUS
<1> QED
  BY <1>1, FS_EmptySet DEF Total

(* The sum over the writers, and over all but one of them.                 *)
All(r, s, p) == Total([v \in {v \in Writers : r[v].step = s /\ r[v].pipe = p} |-> r[v].size])
Others(r, w, s, p) ==
  Total([v \in {v \in Writers \ {w} : r[v].step = s /\ r[v].pipe = p} |-> r[v].size])

LEMMA WriterSplits ==
  ASSUME IsFiniteSet(Writers), NEW r, NEW w \in Writers, NEW s, NEW p,
         \A v \in Writers : r[v].step = s => r[v].size \in Nat
  PROVE  /\ All(r, s, p) = Others(r, w, s, p) + Weight(r[w], s, p)
         /\ Others(r, w, s, p) \in Nat
<1> DEFINE D == {v \in Writers : r[v].step = s /\ r[v].pipe = p}
           E == {v \in Writers \ {w} : r[v].step = s /\ r[v].pipe = p}
           f == [v \in D |-> r[v].size]
           g == [v \in E |-> r[v].size]
<1>1. IsFiniteSet(E)
  BY FS_Subset
<1>2. /\ DOMAIN f = D /\ DOMAIN g = E
      /\ \A v \in E : g[v] \in Nat /\ f[v] = g[v]
  OBVIOUS
<1>3. CASE w \in D
  <2>1. D = E \cup {w} /\ w \notin E /\ f[w] \in Nat /\ f[w] = Weight(r[w], s, p)
    BY <1>3 DEF Weight, SizeFor
  <2> HIDE DEF D, E, f, g
  <2>2. Total(f) = Total(g) + f[w] /\ Total(g) \in Nat
    BY <1>1, <1>2, <2>1, TotalMore, TotalIsNatural
  <2> QED
    BY <2>1, <2>2 DEF All, Others, D, E, f, g
<1>4. CASE w \notin D
  <2>1. D = E /\ f = g /\ Weight(r[w], s, p) = 0
    BY <1>4 DEF Weight, SizeFor
  <2> HIDE DEF D, E, f, g
  <2>2. Total(f) = Total(g) /\ Total(g) \in Nat
    BY <1>1, <1>2, <2>1, TotalIsNatural
  <2>3. Total(f) = Total(g) + 0 /\ Total(g) \in Nat
    BY <2>2
  <2> QED
    BY <2>1, <2>3 DEF All, Others, D, E, f, g
<1> QED
  BY <1>3, <1>4

(* One block more.                                                         *)
LEMMA StoredMore ==
  ASSUME NEW S, IsFiniteSet(S), NEW b, b \notin S, b.size \in Nat,
         \A a \in S : a.size \in Nat, NEW p
  PROVE  StoredIn(S \cup {b}, p) = StoredIn(S, p) + SizeFor(p, b) /\ StoredIn(S, p) \in Nat
<1> DEFINE D == {a \in S \cup {b} : a.pipe = p}
           E == {a \in S : a.pipe = p}
           f == [a \in D |-> a.size]
           g == [a \in E |-> a.size]
<1>1. IsFiniteSet(E)
  BY FS_Subset
<1>2. /\ DOMAIN f = D /\ DOMAIN g = E
      /\ \A v \in E : g[v] \in Nat /\ f[v] = g[v]
  OBVIOUS
<1>3. CASE b.pipe = p
  <2>1. D = E \cup {b} /\ b \notin E /\ f[b] \in Nat /\ f[b] = SizeFor(p, b)
    BY <1>3 DEF SizeFor
  <2> HIDE DEF D, E, f, g
  <2>2. Total(f) = Total(g) + f[b] /\ Total(g) \in Nat
    BY <1>1, <1>2, <2>1, TotalMore, TotalIsNatural
  <2> QED
    BY <2>1, <2>2 DEF StoredIn, D, E, f, g
<1>4. CASE b.pipe # p
  <2>1. D = E /\ f = g /\ SizeFor(p, b) = 0
    BY <1>4 DEF SizeFor
  <2> HIDE DEF D, E, f, g
  <2>2. Total(f) = Total(g) /\ Total(g) \in Nat
    BY <1>1, <1>2, <2>1, TotalIsNatural
  <2>3. Total(f) = Total(g) + 0 /\ Total(g) \in Nat
    BY <2>2
  <2> QED
    BY <2>1, <2>3 DEF StoredIn, D, E, f, g
<1> QED
  BY <1>3, <1>4

(* One compaction that runs alone gives back what it holds.                *)
Returned(r, p) ==
  Total([c \in {c \in Compactors : r[c].step = "release" /\ r[c].block.pipe = p} |->
           r[c].block.size])

LEMMA AloneReturns ==
  ASSUME NEW r, NEW c \in Compactors, \A d \in Compactors : d = c, NEW p,
         r[c].step = "release" => r[c].block.size \in Nat
  PROVE  Returned(r, p) = Giving(r[c], p)
<1> DEFINE D == {d \in Compactors : r[d].step = "release" /\ r[d].block.pipe = p}
           f == [d \in D |-> r[d].block.size]
<1>1. CASE c \in D
  <2> DEFINE g == [d \in {} |-> 0]
  <2>1. /\ DOMAIN f = DOMAIN g \cup {c} /\ c \notin DOMAIN g /\ DOMAIN g = {}
        /\ f[c] \in Nat /\ f[c] = Giving(r[c], p)
    BY <1>1 DEF Giving, SizeFor
  <2> HIDE DEF D, f, g
  <2>2. Total(f) = Total(g) + f[c] /\ Total(g) = 0
    BY <2>1, TotalMore, TotalOfNothing, FS_EmptySet
  <2> QED
    BY <2>1, <2>2 DEF Returned, f, D
<1>2. CASE c \notin D
  <2>1. DOMAIN f = {} /\ Giving(r[c], p) = 0
    BY <1>2 DEF Giving, SizeFor
  <2> HIDE DEF D, f
  <2> QED
    BY <2>1, TotalOfNothing DEF Returned, f, D
<1> QED
  BY <1>1, <1>2

(* What the sums are sums of.                                              *)
LEMMA SizesAreNatural ==
  ASSUME QuotaTyped
  PROVE  /\ \A b \in blocks : b.size \in Nat
         /\ \A w \in Writers : writer[w].step # "idle" => writer[w].size \in Nat
         /\ \A c \in Compactors : comp[c].step = "release" => comp[c].block.size \in Nat
BY QuotaAssumption DEF QuotaTyped, WriterTyped, CompTyped, Block

LEMMA SumsAreNatural ==
  ASSUME QuotaHypotheses, QuotaTyped
  PROVE  \A p \in Pipelines :
           /\ ledger[p] \in Int /\ Stored(p) \in Nat /\ Unlisted(p) \in Nat
           /\ Unreleased(p) \in Nat /\ Under("ledger", p) \in Nat
<1> SUFFICES ASSUME NEW p \in Pipelines
             PROVE  /\ ledger[p] \in Int /\ Stored(p) \in Nat /\ Unlisted(p) \in Nat
                    /\ Unreleased(p) \in Nat /\ Under("ledger", p) \in Nat
  OBVIOUS
<1>1. ledger[p] \in Int
  BY DEF QuotaTyped
<1>2. Stored(p) \in Nat
  <2> DEFINE f == [b \in {b \in blocks : b.pipe = p} |-> b.size]
  <2>1. IsFiniteSet(DOMAIN f)
    BY FS_Subset DEF QuotaTyped
  <2>2. \A b \in DOMAIN f : f[b] \in Nat
    BY SizesAreNatural
  <2> QED
    BY <2>1, <2>2, TotalIsNatural DEF Stored
<1>3. ASSUME NEW s \in {"ledger", "manifest"}
      PROVE  Under(s, p) \in Nat
  <2> DEFINE f == [w \in {w \in Writers : writer[w].step = s /\ writer[w].pipe = p} |->
                     writer[w].size]
  <2>1. IsFiniteSet(DOMAIN f)
    BY FS_Subset DEF QuotaHypotheses
  <2>2. \A w \in DOMAIN f : f[w] \in Nat
    BY SizesAreNatural
  <2> QED
    BY <2>1, <2>2, TotalIsNatural DEF Under
<1>4. Unreleased(p) \in Nat
  <2> DEFINE D == {c \in Compactors : comp[c].step = "release" /\ comp[c].block.pipe = p}
             f == [c \in D |-> comp[c].block.size]
  <2>1. IsFiniteSet(D)
    <3>1. CASE D = {}
      BY <3>1, FS_EmptySet
    <3>2. ASSUME NEW c \in D
          PROVE  IsFiniteSet(D)
      <4>1. D = {c}
        BY <3>2 DEF QuotaHypotheses
      <4> QED
        BY <4>1, FS_Singleton
    <3> QED
      BY <3>1, <3>2
  <2>2. \A c \in D : f[c] \in Nat
    BY SizesAreNatural
  <2> QED
    BY <2>1, <2>2, TotalIsNatural DEF Unreleased
<1> QED
  BY <1>1, <1>2, <1>3, <1>4 DEF Unlisted, Under

LEMMA LargestSize ==
  ASSUME QuotaHypotheses
  PROVE  /\ Max(Sizes) \in Sizes /\ Max(Sizes) \in Nat /\ \A n \in Sizes : n <= Max(Sizes)
         /\ Cardinality(Writers) \in Nat /\ Cardinality(Writers) >= 1
<1>1. \E m \in Sizes : \A n \in Sizes : m >= n
  BY QuotaAssumption DEF QuotaHypotheses
<1>2. Max(Sizes) \in Sizes /\ \A n \in Sizes : Max(Sizes) >= n
  BY <1>1 DEF Max
<1>3. Cardinality(Writers) \in Nat /\ Cardinality(Writers) # 0
  BY FS_CardinalityType, FS_EmptySet DEF QuotaHypotheses
<1>4. Sizes \subseteq Nat
  BY QuotaAssumption
<1>5. Max(Sizes) \in Nat /\ \A n \in Sizes : n <= Max(Sizes)
  BY <1>2, <1>4
<1> QED
  BY <1>2, <1>3, <1>5

(* A step of one writer moves what it holds from one sum to another.       *)
LEMMA WriterMoves ==
  ASSUME QuotaHypotheses, QuotaTyped, NEW w \in Writers, NEW q,
         DOMAIN q = {"step", "pipe", "size", "origin"}, WriterTyped(q),
         writer' = [writer EXCEPT ![w] = q]
  PROVE  /\ DOMAIN writer' = Writers /\ writer' = [v \in Writers |-> writer'[v]]
         /\ \A v \in Writers :
              DOMAIN writer'[v] = {"step", "pipe", "size", "origin"} /\ WriterTyped(writer'[v])
         /\ \A p \in Pipelines :
              /\ Unlisted(p)' \in Nat /\ Under("ledger", p)' \in Nat
              /\ Unlisted(p)' + Weight(writer[w], "manifest", p)
                   = Unlisted(p) + Weight(q, "manifest", p)
              /\ Under("ledger", p)' + Weight(writer[w], "ledger", p)
                   = Under("ledger", p) + Weight(q, "ledger", p)
              /\ Under("ledger", p)' = Others(writer, w, "ledger", p) + Weight(q, "ledger", p)
<1>1. \A v \in Writers : writer'[v] = IF v = w THEN q ELSE writer[v]
  BY DEF QuotaTyped
<1>2. DOMAIN writer' = Writers /\ writer' = [v \in Writers |-> writer'[v]]
  BY DEF QuotaTyped
<1>3. \A v \in Writers :
        DOMAIN writer'[v] = {"step", "pipe", "size", "origin"} /\ WriterTyped(writer'[v])
  BY <1>1 DEF QuotaTyped
<1>4. ASSUME NEW p \in Pipelines, NEW s \in {"ledger", "manifest"}
      PROVE  /\ Under(s, p)' \in Nat
             /\ Under(s, p)' + Weight(writer[w], s, p) = Under(s, p) + Weight(q, s, p)
             /\ Under(s, p)' = Others(writer, w, s, p) + Weight(q, s, p)
  <2>1. /\ \A v \in Writers : writer[v].step = s => writer[v].size \in Nat
        /\ \A v \in Writers : writer'[v].step = s => writer'[v].size \in Nat
    BY <1>3, QuotaAssumption DEF QuotaTyped, WriterTyped
  <2>2. /\ Under(s, p) = Others(writer, w, s, p) + Weight(writer[w], s, p)
        /\ Others(writer, w, s, p) \in Nat
    BY <2>1, WriterSplits DEF Under, All, QuotaHypotheses
  <2>3. Under(s, p)' = Others(writer', w, s, p) + Weight(q, s, p)
    <3> DEFINE r == writer'
    <3>1. IsFiniteSet(Writers) /\ \A v \in Writers : r[v].step = s => r[v].size \in Nat
      BY <2>1 DEF QuotaHypotheses
    <3> HIDE DEF r
    <3>2. All(r, s, p) = Others(r, w, s, p) + Weight(r[w], s, p)
      BY ONLY <3>1, w \in Writers, WriterSplits
    <3> QED
      BY <1>1, <3>2 DEF Under, All, r
  <2>4. Others(writer', w, s, p) = Others(writer, w, s, p)
    <3>1. {v \in Writers \ {w} : writer'[v].step = s /\ writer'[v].pipe = p}
            = {v \in Writers \ {w} : writer[v].step = s /\ writer[v].pipe = p}
      BY <1>1
    <3>2. [v \in {v \in Writers \ {w} : writer'[v].step = s /\ writer'[v].pipe = p} |->
             writer'[v].size]
            = [v \in {v \in Writers \ {w} : writer[v].step = s /\ writer[v].pipe = p} |->
                 writer[v].size]
      BY <1>1, <3>1
    <3> QED
      BY <3>2 DEF Others
  <2>5. Weight(writer[w], s, p) \in Nat /\ Weight(q, s, p) \in Nat
    BY <1>1, <2>1 DEF Weight, SizeFor
  <2> QED
    BY <2>2, <2>3, <2>4, <2>5
<1> QED
  BY <1>2, <1>3, <1>4 DEF Unlisted, Under

(* A step of the only compaction.                                          *)
LEMMA CompMoves ==
  ASSUME QuotaHypotheses, QuotaTyped, NEW c \in Compactors, NEW q,
         DOMAIN q = {"step", "todo", "block"}, CompTyped(q)',
         comp' = [comp EXCEPT ![c] = q]
  PROVE  /\ DOMAIN comp' = Compactors /\ comp' = [d \in Compactors |-> comp'[d]]
         /\ \A d \in Compactors :
              d = c /\ comp'[d] = q /\ DOMAIN comp'[d] = {"step", "todo", "block"}
                /\ CompTyped(comp[d])'
         /\ \A p \in Pipelines :
              /\ Unreleased(p) = Giving(comp[c], p) /\ Unreleased(p)' = Giving(q, p)
              /\ Giving(comp[c], p) \in Nat /\ Giving(q, p) \in Nat
<1>1. \A d \in Compactors : d = c /\ comp'[d] = q
  BY DEF QuotaTyped, QuotaHypotheses
<1>2. DOMAIN comp' = Compactors /\ comp' = [d \in Compactors |-> comp'[d]]
  BY DEF QuotaTyped
<1>3. /\ comp[c].step = "release" => comp[c].block.size \in Nat
      /\ q.step = "release" => q.block.size \in Nat
  BY QuotaAssumption DEF QuotaTyped, CompTyped, Block
<1>4. ASSUME NEW p \in Pipelines
      PROVE  /\ Unreleased(p) = Giving(comp[c], p) /\ Unreleased(p)' = Giving(q, p)
             /\ Giving(comp[c], p) \in Nat /\ Giving(q, p) \in Nat
  <2>1. Unreleased(p) = Returned(comp, p) /\ Unreleased(p)' = Returned(comp', p)
    BY DEF Unreleased, Returned
  <2>2. Returned(comp, p) = Giving(comp[c], p)
    BY ONLY <1>1, <1>3, AloneReturns, c \in Compactors
  <2> PICK r : r = comp'
    OBVIOUS
  <2>3. r[c] = q /\ (r[c].step = "release" => r[c].block.size \in Nat)
    BY <1>1, <1>3
  <2>4. Returned(r, p) = Giving(r[c], p)
    BY ONLY <1>1, <2>3, AloneReturns, c \in Compactors
  <2>5. Returned(comp', p) = Giving(q, p)
    BY <2>3, <2>4
  <2> QED
    BY <1>3, <2>1, <2>2, <2>5 DEF Giving, SizeFor
<1> QED
  BY <1>1, <1>2, <1>4

LEMMA OthersAtMost ==
  ASSUME QuotaHypotheses, QuotaTyped, NEW w \in Writers, NEW p
  PROVE  /\ Others(writer, w, "ledger", p) \in Nat
         /\ Others(writer, w, "ledger", p) <= (Cardinality(Writers) - 1) * Max(Sizes)
<1> DEFINE D == {v \in Writers \ {w} : writer[v].step = "ledger" /\ writer[v].pipe = p}
           f == [v \in D |-> writer[v].size]
<1>1. IsFiniteSet(Writers \ {w}) /\ Cardinality(Writers \ {w}) = Cardinality(Writers) - 1
  BY FS_RemoveElement DEF QuotaHypotheses
<1>2. /\ IsFiniteSet(D) /\ Cardinality(D) <= Cardinality(Writers) - 1
      /\ Cardinality(D) \in Nat
  BY <1>1, FS_Subset, FS_CardinalityType
<1>3. \A v \in D : f[v] \in 0..Max(Sizes)
  <2> TAKE v \in D
  <2>1. f[v] \in Sizes
    BY DEF QuotaTyped, WriterTyped
  <2>2. f[v] \in Nat
    BY <2>1, QuotaAssumption
  <2> QED
    BY <2>1, <2>2, LargestSize
<1>4. Max(Sizes) \in Nat
  BY LargestSize
<1>5. DOMAIN f = D
  OBVIOUS
<1> HIDE DEF D, f
<1>6. Total(f) <= Cardinality(D) * Max(Sizes)
  BY <1>2, <1>3, <1>4, <1>5, TotalAtMost
<1>7. Total(f) \in Nat
  <2>1. \A v \in D : f[v] \in Nat
    BY <1>3
  <2> QED
    BY <1>2, <1>5, <2>1, TotalIsNatural
<1>8. Cardinality(Writers) - 1 \in Nat
  BY LargestSize
<1>9. \A a, b, m \in Nat : a <= b => a * m <= b * m
  OBVIOUS
<1>10. Cardinality(D) * Max(Sizes) <= (Cardinality(Writers) - 1) * Max(Sizes)
  BY <1>2, <1>4, <1>8, <1>9
<1>11. /\ Cardinality(D) * Max(Sizes) \in Nat
       /\ (Cardinality(Writers) - 1) * Max(Sizes) \in Nat
  BY <1>2, <1>4, <1>8
<1>12. Others(writer, w, "ledger", p) = Total(f)
  BY DEF Others, D, f
<1> QED
  BY <1>6, <1>7, <1>10, <1>11, <1>12

-----------------------------------------------------------------------------
LEMMA InitQuota ==
  ASSUME QuotaHypotheses, Init
  PROVE  QuotaInv
<1>1. QuotaTyped
  <2>1. WriterTyped(IdleWriter) /\ DOMAIN IdleWriter = {"step", "pipe", "size", "origin"}
    BY DEF IdleWriter, WriterTyped, WriterSteps
  <2>2. CompTyped(IdleComp) /\ DOMAIN IdleComp = {"step", "todo", "block"}
    BY DEF IdleComp, CompTyped, CompSteps
  <2>3. IsFiniteSet(blocks)
    BY FS_EmptySet DEF Init
  <2>4. ledger \in [Pipelines -> Int] /\ count \in 0..MaxBlocks
    BY QuotaAssumption DEF Init
  <2> QED
    BY <2>1, <2>2, <2>3, <2>4 DEF Init, QuotaTyped
<1>2. ASSUME NEW p \in Pipelines
      PROVE  /\ ledger[p] = 0 /\ Stored(p) = 0 /\ Unlisted(p) = 0
             /\ Unreleased(p) = 0 /\ Under("ledger", p) = 0
  <2>1. Stored(p) = 0
    BY TotalOfNothing DEF Init, Stored
  <2>2. Unlisted(p) = 0
    BY TotalOfNothing DEF Init, Unlisted, IdleWriter
  <2>3. Under("ledger", p) = 0
    BY TotalOfNothing DEF Init, Under, IdleWriter
  <2>4. Unreleased(p) = 0
    BY TotalOfNothing DEF Init, Unreleased, IdleComp
  <2> QED
    BY <2>1, <2>2, <2>3, <2>4 DEF Init
<1>3. Quota \in Nat /\ (Cardinality(Writers) - 1) * Max(Sizes) \in Nat
  <2>1. Cardinality(Writers) - 1 \in Nat /\ Max(Sizes) \in Nat
    BY LargestSize
  <2> QED
    BY <2>1, QuotaAssumption
<1>4. Balanced /\ WithinQuota
  BY <1>2, <1>3 DEF Balanced, WithinQuota
<1>5. ObjectsThere
  BY DEF Init, ObjectsThere
<1> QED
  BY <1>1, <1>4, <1>5 DEF QuotaInv

(* Steps of a writer that leave the database alone.                        *)
LEMMA WriterKeeps ==
  ASSUME QuotaHypotheses, QuotaInv, NEW w \in Writers, NEW q,
         DOMAIN q = {"step", "pipe", "size", "origin"}, WriterTyped(q),
         writer' = [writer EXCEPT ![w] = q],
         UNCHANGED <<ledger, blocks, removed, count, comp>>,
         failed' \in BOOLEAN, failed => failed',
         q.step # "manifest", writer[w].step = "manifest" => failed',
         q.step = "ledger" => FitsQuota(q.pipe, q.size)
  PROVE  QuotaInv'
<1>0. QuotaTyped
  BY DEF QuotaInv
<1>1. QuotaTyped'
  <2>1. \A c \in Compactors : CompTyped(comp[c])' <=> CompTyped(comp[c])
    BY DEF CompTyped
  <2> QED
    BY <1>0, <2>1, WriterMoves DEF QuotaTyped
<1>2. \A p \in Pipelines : Stored(p)' = Stored(p) /\ Unreleased(p)' = Unreleased(p)
  BY DEF Stored, Unreleased
<1>6. \A p \in Pipelines :
        /\ Unlisted(p)' \in Nat /\ Under("ledger", p)' \in Nat
        /\ Unlisted(p)' + Weight(writer[w], "manifest", p)
             = Unlisted(p) + Weight(q, "manifest", p)
        /\ Under("ledger", p)' + Weight(writer[w], "ledger", p)
             = Under("ledger", p) + Weight(q, "ledger", p)
        /\ Under("ledger", p)' = Others(writer, w, "ledger", p) + Weight(q, "ledger", p)
  BY <1>0, WriterMoves, Zenon
<1>3. Balanced'
  <2> SUFFICES ASSUME NEW p \in Pipelines
               PROVE  /\ ledger[p] >= Stored(p) + Unlisted(p)' + Unreleased(p)
                      /\ ~failed' => ledger[p] = Stored(p) + Unlisted(p)' + Unreleased(p)
    BY <1>2 DEF Balanced
  <2>1. /\ ledger[p] \in Int /\ Stored(p) \in Nat /\ Unreleased(p) \in Nat /\ Unlisted(p) \in Nat
        /\ ledger[p] >= Stored(p) + Unlisted(p) + Unreleased(p)
        /\ ~failed => ledger[p] = Stored(p) + Unlisted(p) + Unreleased(p)
    BY <1>0, SumsAreNatural DEF QuotaInv, Balanced
  <2>2. /\ Unlisted(p)' \in Nat
        /\ Unlisted(p)' + Weight(writer[w], "manifest", p) = Unlisted(p) + Weight(q, "manifest", p)
    BY <1>6
  <2>3. /\ Weight(q, "manifest", p) = 0 /\ Weight(writer[w], "manifest", p) \in Nat
        /\ ~failed' => Weight(writer[w], "manifest", p) = 0
    BY <1>0, SizesAreNatural DEF Weight, SizeFor
  <2> QED
    BY <2>1, <2>2, <2>3
<1>4. ObjectsThere'
  BY DEF QuotaInv, ObjectsThere
<1>5. WithinQuota'
  <2> SUFFICES ASSUME NEW p \in Pipelines, NEW B,
                      B = (Cardinality(Writers) - 1) * Max(Sizes)
               PROVE  ledger[p] + Under("ledger", p)' <= Quota + B
    BY DEF WithinQuota
  <2>1. /\ ledger[p] \in Int /\ Under("ledger", p) \in Nat /\ Quota \in Nat
        /\ ledger[p] + Under("ledger", p) <= Quota + B
    BY <1>0, SumsAreNatural, QuotaAssumption DEF QuotaInv, WithinQuota
  <2>2. /\ Under("ledger", p)' \in Nat
        /\ Under("ledger", p)' + Weight(writer[w], "ledger", p)
             = Under("ledger", p) + Weight(q, "ledger", p)
        /\ Under("ledger", p)' = Others(writer, w, "ledger", p) + Weight(q, "ledger", p)
    BY <1>6
  <2>3. Others(writer, w, "ledger", p) \in Nat /\ Others(writer, w, "ledger", p) <= B
    BY <1>0, OthersAtMost
  <2>4. B \in Nat
    <3>1. Cardinality(Writers) - 1 \in Nat /\ Max(Sizes) \in Nat
      BY LargestSize
    <3> QED
      BY <3>1
  <2>5. Weight(writer[w], "ledger", p) \in Nat
    BY <1>0, SizesAreNatural DEF Weight, SizeFor
  <2>6. CASE Weight(q, "ledger", p) = 0
    BY <2>1, <2>2, <2>4, <2>5, <2>6
  <2>7. CASE Weight(q, "ledger", p) # 0
    <3>1. q.step = "ledger" /\ q.pipe = p /\ Weight(q, "ledger", p) = q.size
      BY <2>7 DEF Weight, SizeFor
    <3>2. ledger[p] + q.size <= Quota /\ q.size \in Nat
      BY <3>1, QuotaAssumption DEF FitsQuota, WriterTyped
    <3> QED
      BY <2>1, <2>2, <2>3, <2>4, <3>1, <3>2
  <2> QED
    BY <2>6, <2>7
<1> QED
  BY <1>1, <1>3, <1>4, <1>5 DEF QuotaInv

LEMMA ChecksKeep ==
  ASSUME QuotaHypotheses, QuotaInv, NEW w \in Writers,
         Admit(w) \/ CheckPipeline(w) \/ WriterFails(w)
  PROVE  QuotaInv'
<1>0. /\ failed \in BOOLEAN
      /\ DOMAIN writer[w] = {"step", "pipe", "size", "origin"} /\ WriterTyped(writer[w])
  BY DEF QuotaInv, QuotaTyped
<1>1. CASE Admit(w)
  <2>1. PICK p \in Pipelines, n \in Sizes, o \in {"LOCAL", "PEER"} :
          writer' = [writer EXCEPT ![w] = [step |-> "pipeline", pipe |-> p, size |-> n,
                                           origin |-> o]]
    BY <1>1 DEF Admit
  <2> DEFINE q == [step |-> "pipeline", pipe |-> p, size |-> n, origin |-> o]
  <2>2. /\ DOMAIN q = {"step", "pipe", "size", "origin"} /\ q.step = "pipeline"
        /\ WriterTyped(q) /\ writer' = [writer EXCEPT ![w] = q]
    BY <2>1 DEF WriterTyped, WriterSteps
  <2>3. /\ UNCHANGED <<ledger, blocks, removed, count, comp>> /\ failed' = failed
        /\ writer[w].step = "idle"
    BY <1>1 DEF Admit
  <2> HIDE DEF q
  <2> QED
    BY <1>0, <2>2, <2>3, WriterKeeps
<1>2. CASE CheckPipeline(w)
  <2> DEFINE q == IF FitsQuota(writer[w].pipe, writer[w].size)
                  THEN [writer[w] EXCEPT !.step = "ledger"] ELSE IdleWriter
  <2>1. /\ UNCHANGED <<ledger, blocks, removed, count, comp>> /\ failed' = failed
        /\ writer[w].step = "pipeline" /\ writer' = [writer EXCEPT ![w] = q]
    BY <1>2 DEF CheckPipeline
  <2>2. /\ DOMAIN q = {"step", "pipe", "size", "origin"} /\ WriterTyped(q)
        /\ q.step # "manifest" /\ (q.step = "ledger" => FitsQuota(q.pipe, q.size))
    <3>1. CASE FitsQuota(writer[w].pipe, writer[w].size)
      <4> DEFINE n == [writer[w] EXCEPT !.step = "ledger"]
      <4>1. /\ DOMAIN n = {"step", "pipe", "size", "origin"} /\ n.step = "ledger"
            /\ n.pipe = writer[w].pipe /\ n.size = writer[w].size /\ n.origin = writer[w].origin
        BY <1>0
      <4>2. q = n
        BY <3>1
      <4> HIDE DEF n, q
      <4> QED
        BY <1>0, <2>1, <3>1, <4>1, <4>2 DEF WriterTyped, WriterSteps
    <3>2. CASE ~FitsQuota(writer[w].pipe, writer[w].size)
      BY <3>2 DEF IdleWriter, WriterTyped, WriterSteps
    <3> QED
      BY <3>1, <3>2
  <2> HIDE DEF q
  <2> QED
    BY <1>0, <2>1, <2>2, WriterKeeps
<1>3. CASE WriterFails(w)
  <2>1. /\ UNCHANGED <<ledger, blocks, removed, count, comp>> /\ failed' = TRUE
        /\ writer' = [writer EXCEPT ![w] = IdleWriter]
    BY <1>3 DEF WriterFails
  <2>2. /\ DOMAIN IdleWriter = {"step", "pipe", "size", "origin"} /\ WriterTyped(IdleWriter)
        /\ IdleWriter.step = "idle"
    BY DEF IdleWriter, WriterTyped, WriterSteps
  <2> QED
    BY <1>0, <2>1, <2>2, WriterKeeps
<1> QED
  BY <1>1, <1>2, <1>3

(* The bytes move from what was checked to the ledger.                     *)
LEMMA AddKeeps ==
  ASSUME QuotaHypotheses, QuotaInv, NEW w \in Writers, AddToLedger(w)
  PROVE  QuotaInv'
<1> DEFINE q == [writer[w] EXCEPT !.step = "manifest"]
<1>0. QuotaTyped
  BY DEF QuotaInv
<1>1. /\ UNCHANGED <<blocks, removed, count, comp, failed>> /\ writer[w].step = "ledger"
      /\ ledger' = [ledger EXCEPT ![writer[w].pipe] = @ + writer[w].size]
      /\ writer' = [writer EXCEPT ![w] = q]
  BY DEF AddToLedger
<1>2. /\ DOMAIN q = {"step", "pipe", "size", "origin"} /\ WriterTyped(q)
      /\ q.step = "manifest" /\ q.pipe = writer[w].pipe /\ q.size = writer[w].size
      /\ writer[w].pipe \in Pipelines /\ writer[w].size \in Nat
  <2>1. DOMAIN writer[w] = {"step", "pipe", "size", "origin"} /\ WriterTyped(writer[w])
    BY <1>0 DEF QuotaTyped
  <2>2. /\ DOMAIN q = {"step", "pipe", "size", "origin"} /\ q.step = "manifest"
        /\ q.pipe = writer[w].pipe /\ q.size = writer[w].size /\ q.origin = writer[w].origin
    BY <2>1
  <2> HIDE DEF q
  <2> QED
    BY <1>1, <2>1, <2>2, QuotaAssumption DEF WriterTyped, WriterSteps
<1> HIDE DEF q
<1>3. \A p \in Pipelines :
        /\ ledger[p] \in Int
        /\ ledger'[p] = ledger[p] + (IF p = writer[w].pipe THEN writer[w].size ELSE 0)
  BY <1>0, <1>1 DEF QuotaTyped
<1>4. QuotaTyped'
  <2>1. \A c \in Compactors : CompTyped(comp[c])' <=> CompTyped(comp[c])
    BY <1>1 DEF CompTyped
  <2>2. ledger' \in [Pipelines -> Int]
    BY <1>0, <1>1, <1>2 DEF QuotaTyped
  <2> QED
    BY <1>0, <1>1, <1>2, <2>1, <2>2, WriterMoves DEF QuotaTyped
<1>5. \A p \in Pipelines :
        /\ Unlisted(p)' \in Nat /\ Under("ledger", p)' \in Nat
        /\ Unlisted(p)' + Weight(writer[w], "manifest", p)
             = Unlisted(p) + Weight(q, "manifest", p)
        /\ Under("ledger", p)' + Weight(writer[w], "ledger", p)
             = Under("ledger", p) + Weight(q, "ledger", p)
        /\ Under("ledger", p)' = Others(writer, w, "ledger", p) + Weight(q, "ledger", p)
  <2>1. /\ DOMAIN q = {"step", "pipe", "size", "origin"} /\ WriterTyped(q)
        /\ writer' = [writer EXCEPT ![w] = q]
    BY <1>1, <1>2
  <2> QED
    BY <1>0, <2>1, WriterMoves, Zenon
<1>6. \A p \in Pipelines :
        /\ Weight(writer[w], "manifest", p) = 0 /\ Weight(q, "ledger", p) = 0
        /\ Weight(writer[w], "ledger", p) = IF p = writer[w].pipe THEN writer[w].size ELSE 0
        /\ Weight(q, "manifest", p) = IF p = writer[w].pipe THEN writer[w].size ELSE 0
  BY <1>1, <1>2 DEF Weight, SizeFor
<1>7. \A p \in Pipelines : Stored(p)' = Stored(p) /\ Unreleased(p)' = Unreleased(p)
  BY <1>1 DEF Stored, Unreleased
<1>8. Balanced'
  <2> SUFFICES ASSUME NEW p \in Pipelines
               PROVE  /\ ledger'[p] >= Stored(p) + Unlisted(p)' + Unreleased(p)
                      /\ ~failed' => ledger'[p] = Stored(p) + Unlisted(p)' + Unreleased(p)
    BY <1>7 DEF Balanced
  <2>1. /\ ledger[p] \in Int /\ Stored(p) \in Nat /\ Unreleased(p) \in Nat /\ Unlisted(p) \in Nat
        /\ ledger[p] >= Stored(p) + Unlisted(p) + Unreleased(p)
        /\ ~failed => ledger[p] = Stored(p) + Unlisted(p) + Unreleased(p)
    BY <1>0, SumsAreNatural DEF QuotaInv, Balanced
  <2> QED
    BY <1>1, <1>2, <1>3, <1>5, <1>6, <2>1
<1>9. ObjectsThere'
  BY <1>1 DEF QuotaInv, ObjectsThere
<1>10. WithinQuota'
  <2> SUFFICES ASSUME NEW p \in Pipelines
               PROVE  ledger'[p] + Under("ledger", p)' = ledger[p] + Under("ledger", p)
    BY DEF WithinQuota, QuotaInv
  <2>1. Under("ledger", p) \in Nat
    BY <1>0, SumsAreNatural
  <2> QED
    BY <1>2, <1>3, <1>5, <1>6, <2>1
<1> QED
  BY <1>4, <1>8, <1>9, <1>10 DEF QuotaInv

(* What was not listed is: the new block is nobody's.                      *)
LEMMA InsertKeeps ==
  ASSUME QuotaHypotheses, QuotaInv, NEW w \in Writers, InsertBlock(w)
  PROVE  QuotaInv'
<1> DEFINE b == [at |-> count + 1, pipe |-> writer[w].pipe, size |-> writer[w].size,
                 origin |-> writer[w].origin]
<1>0. QuotaTyped
  BY DEF QuotaInv
<1>1. /\ UNCHANGED <<ledger, removed, comp, failed>> /\ writer[w].step = "manifest"
      /\ count' = count + 1 /\ count < MaxBlocks /\ blocks' = blocks \cup {b}
      /\ writer' = [writer EXCEPT ![w] = IdleWriter]
  BY DEF InsertBlock
<1>2. /\ b \in Block /\ b.at = count + 1 /\ b.size = writer[w].size /\ b.pipe = writer[w].pipe
      /\ b.size \in Nat /\ count \in Nat /\ MaxBlocks \in Nat
      /\ \A a \in Block : a.at \in Nat
  BY <1>0, <1>1, QuotaAssumption DEF QuotaTyped, WriterTyped, Block
<1> HIDE DEF b
<1>3. b \notin blocks /\ b \notin removed
  BY <1>0, <1>2 DEF QuotaTyped
<1>4. /\ DOMAIN IdleWriter = {"step", "pipe", "size", "origin"} /\ WriterTyped(IdleWriter)
      /\ IdleWriter.step = "idle"
  BY DEF IdleWriter, WriterTyped, WriterSteps
<1>5. QuotaTyped'
  <2>1. \A c \in Compactors : CompTyped(comp[c])'
    <3> TAKE c \in Compactors
    <3>1. CompTyped(comp[c])
      BY <1>0 DEF QuotaTyped
    <3> QED
      BY <1>1, <1>2, <3>1 DEF CompTyped
  <2>2. IsFiniteSet(blocks') /\ blocks' \subseteq Block
    BY <1>0, <1>1, <1>2, FS_AddElement DEF QuotaTyped
  <2>3. count' \in 0..MaxBlocks /\ \A a \in blocks' \cup removed' : a.at <= count'
    BY <1>0, <1>1, <1>2 DEF QuotaTyped
  <2> QED
    BY <1>0, <1>1, <1>4, <2>1, <2>2, <2>3, WriterMoves DEF QuotaTyped
<1>6. \A p \in Pipelines :
        /\ Unlisted(p)' \in Nat /\ Under("ledger", p)' \in Nat
        /\ Unlisted(p)' + Weight(writer[w], "manifest", p)
             = Unlisted(p) + Weight(IdleWriter, "manifest", p)
        /\ Under("ledger", p)' + Weight(writer[w], "ledger", p)
             = Under("ledger", p) + Weight(IdleWriter, "ledger", p)
        /\ Under("ledger", p)' = Others(writer, w, "ledger", p) + Weight(IdleWriter, "ledger", p)
  <2>1. /\ DOMAIN IdleWriter = {"step", "pipe", "size", "origin"} /\ WriterTyped(IdleWriter)
        /\ writer' = [writer EXCEPT ![w] = IdleWriter]
    BY <1>1, <1>4
  <2> QED
    BY <1>0, <2>1, WriterMoves, Zenon
<1>7. \A p \in Pipelines :
        /\ Weight(writer[w], "manifest", p) = SizeFor(p, b)
        /\ Weight(IdleWriter, "manifest", p) = 0 /\ Weight(IdleWriter, "ledger", p) = 0
        /\ Weight(writer[w], "ledger", p) = 0 /\ SizeFor(p, b) \in Nat
  BY <1>1, <1>2, <1>4 DEF Weight, SizeFor
<1>8. \A p \in Pipelines : Stored(p)' = Stored(p) + SizeFor(p, b)
  <2> TAKE p \in Pipelines
  <2>1. IsFiniteSet(blocks) /\ \A a \in blocks : a.size \in Nat
    BY <1>0, SizesAreNatural DEF QuotaTyped
  <2>2. StoredIn(blocks \cup {b}, p) = StoredIn(blocks, p) + SizeFor(p, b)
    BY <1>2, <1>3, <2>1, StoredMore
  <2> QED
    BY <1>1, <2>2 DEF Stored, StoredIn
<1>9. \A p \in Pipelines : Unreleased(p)' = Unreleased(p) /\ ledger'[p] = ledger[p]
  BY <1>1 DEF Unreleased
<1>10. Balanced'
  <2> SUFFICES ASSUME NEW p \in Pipelines
               PROVE  Stored(p)' + Unlisted(p)' = Stored(p) + Unlisted(p)
    BY <1>1, <1>9 DEF Balanced, QuotaInv
  <2>1. Stored(p) \in Nat /\ Unlisted(p) \in Nat
    BY <1>0, SumsAreNatural
  <2> QED
    BY <1>6, <1>7, <1>8, <2>1
<1>11. ObjectsThere'
  BY <1>1, <1>3 DEF QuotaInv, ObjectsThere
<1>12. WithinQuota'
  <2> SUFFICES ASSUME NEW p \in Pipelines
               PROVE  Under("ledger", p)' = Under("ledger", p)
    BY <1>9 DEF WithinQuota, QuotaInv
  <2>1. Under("ledger", p) \in Nat
    BY <1>0, SumsAreNatural
  <2> QED
    BY <1>6, <1>7, <2>1
<1> QED
  BY <1>5, <1>10, <1>11, <1>12 DEF QuotaInv

-----------------------------------------------------------------------------
(* Steps of a compaction that leave the database alone.                    *)
LEMMA CompKeeps ==
  ASSUME QuotaHypotheses, QuotaInv, NEW c \in Compactors, NEW q,
         DOMAIN q = {"step", "todo", "block"}, CompTyped(q),
         comp' = [comp EXCEPT ![c] = q],
         UNCHANGED <<ledger, blocks, removed, count, writer>>,
         failed' \in BOOLEAN, failed => failed',
         q.step # "release", comp[c].step \in {"delete", "release"} => failed'
  PROVE  QuotaInv'
<1>0. QuotaTyped
  BY DEF QuotaInv
<1>1. CompTyped(q)'
  BY DEF CompTyped
<1>2. /\ DOMAIN comp' = Compactors /\ comp' = [d \in Compactors |-> comp'[d]]
      /\ \A d \in Compactors :
           d = c /\ comp'[d] = q /\ DOMAIN comp'[d] = {"step", "todo", "block"}
             /\ CompTyped(comp[d])'
      /\ \A p \in Pipelines :
           /\ Unreleased(p) = Giving(comp[c], p) /\ Unreleased(p)' = Giving(q, p)
           /\ Giving(comp[c], p) \in Nat /\ Giving(q, p) \in Nat
  BY <1>0, <1>1, CompMoves, Zenon
<1>3. QuotaTyped'
  BY <1>0, <1>2 DEF QuotaTyped
<1>4. \A p \in Pipelines : Giving(q, p) = 0 /\ (~failed' => Giving(comp[c], p) = 0)
  BY DEF Giving
<1>5. \A p \in Pipelines : Stored(p)' = Stored(p) /\ Unlisted(p)' = Unlisted(p)
                            /\ Under("ledger", p)' = Under("ledger", p)
  BY DEF Stored, Unlisted, Under
<1>6. Balanced'
  <2> SUFFICES ASSUME NEW p \in Pipelines
               PROVE  /\ ledger[p] >= Stored(p) + Unlisted(p) + Unreleased(p)'
                      /\ ~failed' => ledger[p] = Stored(p) + Unlisted(p) + Unreleased(p)'
    BY <1>5 DEF Balanced
  <2>1. /\ ledger[p] \in Int /\ Stored(p) \in Nat /\ Unreleased(p) \in Nat /\ Unlisted(p) \in Nat
        /\ ledger[p] >= Stored(p) + Unlisted(p) + Unreleased(p)
        /\ ~failed => ledger[p] = Stored(p) + Unlisted(p) + Unreleased(p)
    BY <1>0, SumsAreNatural DEF QuotaInv, Balanced
  <2>2. Unreleased(p)' = 0 /\ (~failed' => Unreleased(p) = 0)
    BY <1>2, <1>4
  <2> QED
    BY <2>1, <2>2
<1>7. ObjectsThere'
  BY <1>2 DEF QuotaInv, ObjectsThere
<1>8. WithinQuota'
  BY <1>5 DEF QuotaInv, WithinQuota
<1> QED
  BY <1>3, <1>6, <1>7, <1>8 DEF QuotaInv

LEMMA DenyKeeps ==
  ASSUME QuotaHypotheses, QuotaInv, NEW w \in Writers, Deny(w)
  PROVE  QuotaInv'
<1>1. PICK c \in Compactors :
        comp[c].step = "idle" /\ comp' = [comp EXCEPT ![c].step = "candidates"]
  BY DEF Deny
<1> DEFINE q == [comp[c] EXCEPT !.step = "candidates"]
<1>2. DOMAIN comp[c] = {"step", "todo", "block"} /\ failed \in BOOLEAN
  BY DEF QuotaInv, QuotaTyped
<1>3. DOMAIN q = {"step", "todo", "block"} /\ q.step = "candidates"
  BY <1>2
<1>4. comp' = [comp EXCEPT ![c] = q]
  BY <1>1
<1>5. UNCHANGED <<ledger, blocks, removed, count, writer, failed>>
  BY DEF Deny
<1> HIDE DEF q
<1>6. CompTyped(q)
  BY <1>3 DEF CompTyped, CompSteps
<1> QED
  BY <1>1, <1>2, <1>3, <1>4, <1>5, <1>6, CompKeeps

LEMMA FindKeeps ==
  ASSUME QuotaHypotheses, QuotaInv, NEW c \in Compactors,
         ReadCandidates(c) \/ FindBlock(c) \/ CompactionFails(c)
  PROVE  QuotaInv'
<1>0. /\ DOMAIN comp[c] = {"step", "todo", "block"} /\ CompTyped(comp[c])
      /\ failed \in BOOLEAN /\ blocks \subseteq Block /\ \A b \in blocks : b.at <= count
  BY DEF QuotaInv, QuotaTyped
<1>1. CompTyped(IdleComp) /\ DOMAIN IdleComp = {"step", "todo", "block"} /\ IdleComp.step = "idle"
  BY DEF IdleComp, CompTyped, CompSteps
<1>2. /\ UNCHANGED <<ledger, blocks, removed, count, writer>>
      /\ failed' \in BOOLEAN /\ (failed => failed')
      /\ comp[c].step \in {"delete", "release"} => failed'
  BY <1>0 DEF ReadCandidates, FindBlock, CompactionFails
<1>3. CASE comp' = [comp EXCEPT ![c] = IdleComp]
  BY <1>1, <1>2, <1>3, CompKeeps
<1>4. CASE ReadCandidates(c)
  <2>1. PICK s : comp' = [comp EXCEPT ![c].step = "find", ![c].todo = s]
    BY <1>4 DEF ReadCandidates
  <2> DEFINE q == [comp[c] EXCEPT !.step = "find", !.todo = s]
  <2>2. DOMAIN q = {"step", "todo", "block"} /\ q.step = "find"
    BY <1>0
  <2>3. comp' = [comp EXCEPT ![c] = q]
    BY <2>1
  <2> HIDE DEF q
  <2>4. CompTyped(q)
    BY <2>2 DEF CompTyped, CompSteps
  <2> QED
    BY <1>2, <2>2, <2>3, <2>4, CompKeeps
<1>5. CASE FindBlock(c) /\ comp' = [comp EXCEPT ![c].todo = Tail(@)]
  <2> DEFINE q == [comp[c] EXCEPT !.todo = Tail(@)]
  <2>1. comp[c].step = "find"
    BY <1>5 DEF FindBlock
  <2>2. DOMAIN q = {"step", "todo", "block"} /\ q.step = "find"
    BY <1>0, <2>1
  <2>3. comp' = [comp EXCEPT ![c] = q]
    BY <1>5
  <2> HIDE DEF q
  <2>4. CompTyped(q)
    BY <2>2 DEF CompTyped, CompSteps
  <2> QED
    BY <1>2, <2>2, <2>3, <2>4, CompKeeps
<1>6. ASSUME NEW b \in blocks,
             comp' = [comp EXCEPT ![c].step = "remove", ![c].block = b]
      PROVE  QuotaInv'
  <2> DEFINE q == [comp[c] EXCEPT !.step = "remove", !.block = b]
  <2>1. DOMAIN q = {"step", "todo", "block"} /\ q.step = "remove" /\ q.block = b
    BY <1>0
  <2>2. comp' = [comp EXCEPT ![c] = q]
    BY <1>6
  <2> HIDE DEF q
  <2>3. CompTyped(q)
    BY <1>0, <1>6, <2>1 DEF CompTyped, CompSteps
  <2> QED
    BY <1>2, <2>1, <2>2, <2>3, CompKeeps
<1> QED
  BY <1>3, <1>4, <1>5, <1>6 DEF FindBlock, Purgeable, CompactionFails

(* The object goes first, and only the record names it.                    *)
LEMMA RemoveKeeps ==
  ASSUME QuotaHypotheses, QuotaInv, NEW c \in Compactors, RemoveObject(c)
  PROVE  QuotaInv'
<1> PICK q : q = [comp[c] EXCEPT !.step = "delete"]
  OBVIOUS
<1>0. QuotaTyped
  BY DEF QuotaInv
<1>1. /\ UNCHANGED <<ledger, blocks, count, writer, failed>> /\ comp[c].step = "remove"
      /\ removed' = removed \cup {comp[c].block} /\ comp' = [comp EXCEPT ![c] = q]
  BY DEF RemoveObject
<1>2. /\ DOMAIN q = {"step", "todo", "block"} /\ q.step = "delete" /\ q.block = comp[c].block
      /\ q.block \in Block /\ q.block \in blocks /\ q.block.at <= count
  BY <1>0, <1>1 DEF QuotaTyped, CompTyped
<1>3. CompTyped(q)'
  BY <1>1, <1>2 DEF CompTyped, CompSteps
<1>4. /\ DOMAIN comp' = Compactors /\ comp' = [d \in Compactors |-> comp'[d]]
      /\ \A d \in Compactors :
           d = c /\ comp'[d] = q /\ DOMAIN comp'[d] = {"step", "todo", "block"}
             /\ CompTyped(comp[d])'
      /\ \A p \in Pipelines :
           /\ Unreleased(p) = Giving(comp[c], p) /\ Unreleased(p)' = Giving(q, p)
           /\ Giving(comp[c], p) \in Nat /\ Giving(q, p) \in Nat
  <2>1. DOMAIN q = {"step", "todo", "block"} /\ comp' = [comp EXCEPT ![c] = q]
    BY <1>1, <1>2
  <2> QED
    BY <1>0, <1>3, <2>1, CompMoves, Zenon
<1>5. QuotaTyped'
  BY <1>0, <1>1, <1>2, <1>4 DEF QuotaTyped
<1>6. \A p \in Pipelines : Unreleased(p)' = Unreleased(p)
  BY <1>1, <1>2, <1>4 DEF Giving
<1>7. \A p \in Pipelines : Stored(p)' = Stored(p) /\ Unlisted(p)' = Unlisted(p)
                            /\ Under("ledger", p)' = Under("ledger", p)
  BY <1>1 DEF Stored, Unlisted, Under
<1>8. Balanced' /\ WithinQuota'
  BY <1>1, <1>6, <1>7 DEF QuotaInv, Balanced, WithinQuota
<1>9. ObjectsThere'
  BY <1>1, <1>2, <1>4 DEF QuotaInv, ObjectsThere
<1> QED
  BY <1>5, <1>8, <1>9 DEF QuotaInv

(* The record goes, and its bytes are still in the ledger.                 *)
LEMMA DeleteKeeps ==
  ASSUME QuotaHypotheses, QuotaInv, NEW c \in Compactors, DeleteBlock(c)
  PROVE  QuotaInv'
<1> PICK q, b : q = [comp[c] EXCEPT !.step = "release"] /\ b = comp[c].block
  OBVIOUS
<1>0. QuotaTyped
  BY DEF QuotaInv
<1>1. /\ UNCHANGED <<ledger, removed, count, writer, failed>> /\ comp[c].step = "delete"
      /\ blocks' = blocks \ {b} /\ comp' = [comp EXCEPT ![c] = q]
  BY DEF DeleteBlock
<1>2. /\ DOMAIN q = {"step", "todo", "block"} /\ q.step = "release" /\ q.block = b
      /\ b \in Block /\ b \in blocks /\ b.at <= count
  BY <1>0, <1>1 DEF QuotaTyped, CompTyped
<1>3. CompTyped(q)'
  BY <1>1, <1>2 DEF CompTyped, CompSteps
<1>4. /\ DOMAIN comp' = Compactors /\ comp' = [d \in Compactors |-> comp'[d]]
      /\ \A d \in Compactors :
           d = c /\ comp'[d] = q /\ DOMAIN comp'[d] = {"step", "todo", "block"}
             /\ CompTyped(comp[d])'
      /\ \A p \in Pipelines :
           /\ Unreleased(p) = Giving(comp[c], p) /\ Unreleased(p)' = Giving(q, p)
           /\ Giving(comp[c], p) \in Nat /\ Giving(q, p) \in Nat
  <2>1. DOMAIN q = {"step", "todo", "block"} /\ comp' = [comp EXCEPT ![c] = q]
    BY <1>1, <1>2
  <2> QED
    BY <1>0, <1>3, <2>1, CompMoves, Zenon
<1>5. IsFiniteSet(blocks')
  BY <1>0, <1>1, FS_RemoveElement DEF QuotaTyped
<1>6. QuotaTyped'
  BY <1>0, <1>1, <1>2, <1>4, <1>5 DEF QuotaTyped
<1>7. \A p \in Pipelines : Unreleased(p) = 0 /\ Unreleased(p)' = SizeFor(p, b)
  BY <1>1, <1>2, <1>4 DEF Giving
<1>8. \A p \in Pipelines : Stored(p) = Stored(p)' + SizeFor(p, b) /\ Stored(p)' \in Nat
                            /\ SizeFor(p, b) \in Nat
  <2> TAKE p \in Pipelines
  <2>1. (\A a \in blocks' : a.size \in Nat) /\ b.size \in Nat
    BY <1>0, <1>1, <1>2, SizesAreNatural
  <2>2. b \notin blocks' /\ blocks = blocks' \cup {b}
    BY <1>1, <1>2
  <2> DEFINE S == blocks'
  <2>3. IsFiniteSet(S) /\ b \notin S /\ (\A a \in S : a.size \in Nat) /\ blocks = S \cup {b}
    BY <1>5, <2>1, <2>2
  <2> HIDE DEF S
  <2>4. StoredIn(S \cup {b}, p) = StoredIn(S, p) + SizeFor(p, b) /\ StoredIn(S, p) \in Nat
    BY <2>1, <2>3, StoredMore
  <2>5. Stored(p) = StoredIn(blocks, p) /\ Stored(p)' = StoredIn(S, p)
    BY DEF Stored, StoredIn, S
  <2> QED
    BY <2>1, <2>3, <2>4, <2>5 DEF SizeFor
<1>9. \A p \in Pipelines : Unlisted(p)' = Unlisted(p) /\ Under("ledger", p)' = Under("ledger", p)
  BY <1>1 DEF Unlisted, Under
<1>10. Balanced'
  <2> SUFFICES ASSUME NEW p \in Pipelines
               PROVE  Stored(p)' + Unlisted(p)' + Unreleased(p)'
                        = Stored(p) + Unlisted(p) + Unreleased(p)
    BY <1>1 DEF QuotaInv, Balanced
  <2>1. Stored(p) \in Nat /\ Unlisted(p) \in Nat
    BY <1>0, SumsAreNatural
  <2> QED
    BY <1>7, <1>8, <1>9, <2>1
<1>11. ObjectsThere'
  <2>1. \A d \in Compactors : comp[d].block = b
    BY <1>4
  <2> QED
    BY <1>1, <2>1 DEF QuotaInv, ObjectsThere
<1>12. WithinQuota'
  BY <1>1, <1>9 DEF QuotaInv, WithinQuota
<1> QED
  BY <1>6, <1>10, <1>11, <1>12 DEF QuotaInv

LEMMA ReleaseKeeps ==
  ASSUME QuotaHypotheses, QuotaInv, NEW c \in Compactors, ReleaseBytes(c)
  PROVE  QuotaInv'
<1> DEFINE b == comp[c].block
<1>0. QuotaTyped
  BY DEF QuotaInv
<1>1. /\ UNCHANGED <<blocks, removed, count, writer, failed>> /\ comp[c].step = "release"
      /\ ledger' = [ledger EXCEPT ![b.pipe] = @ - b.size]
      /\ comp' = [comp EXCEPT ![c] = IdleComp]
  BY DEF ReleaseBytes
<1>2. b.pipe \in Pipelines /\ b.size \in Nat
  BY <1>0, <1>1, QuotaAssumption DEF QuotaTyped, CompTyped, Block
<1>3. /\ DOMAIN IdleComp = {"step", "todo", "block"} /\ IdleComp.step = "idle"
      /\ CompTyped(IdleComp)'
  BY DEF IdleComp, CompTyped, CompSteps
<1>4. /\ DOMAIN comp' = Compactors /\ comp' = [d \in Compactors |-> comp'[d]]
      /\ \A d \in Compactors :
           d = c /\ comp'[d] = IdleComp /\ DOMAIN comp'[d] = {"step", "todo", "block"}
             /\ CompTyped(comp[d])'
      /\ \A p \in Pipelines :
           /\ Unreleased(p) = Giving(comp[c], p) /\ Unreleased(p)' = Giving(IdleComp, p)
           /\ Giving(comp[c], p) \in Nat /\ Giving(IdleComp, p) \in Nat
  <2>1. DOMAIN IdleComp = {"step", "todo", "block"} /\ comp' = [comp EXCEPT ![c] = IdleComp]
    BY <1>1, <1>3
  <2> QED
    BY <1>0, <1>3, <2>1, CompMoves, Zenon
<1>5. \A p \in Pipelines :
        /\ ledger[p] \in Int
        /\ ledger'[p] = ledger[p] - SizeFor(p, b)
        /\ Unreleased(p) = SizeFor(p, b) /\ Unreleased(p)' = 0
        /\ SizeFor(p, b) \in Nat
  BY <1>0, <1>1, <1>2, <1>3, <1>4 DEF QuotaTyped, Giving, SizeFor
<1>6. QuotaTyped'
  <2>1. ledger' \in [Pipelines -> Int]
    BY <1>0, <1>1, <1>2 DEF QuotaTyped
  <2> QED
    BY <1>0, <1>1, <1>4, <2>1 DEF QuotaTyped
<1>7. \A p \in Pipelines : Stored(p)' = Stored(p) /\ Unlisted(p)' = Unlisted(p)
                            /\ Under("ledger", p)' = Under("ledger", p)
  BY <1>1 DEF Stored, Unlisted, Under
<1>8. Balanced' /\ WithinQuota'
  <2>1. ASSUME NEW p \in Pipelines
        PROVE  /\ ledger'[p] >= Stored(p) + Unlisted(p) + Unreleased(p)'
               /\ ~failed => ledger'[p] = Stored(p) + Unlisted(p) + Unreleased(p)'
    <3>1. /\ Stored(p) \in Nat /\ Unlisted(p) \in Nat
          /\ ledger[p] >= Stored(p) + Unlisted(p) + Unreleased(p)
          /\ ~failed => ledger[p] = Stored(p) + Unlisted(p) + Unreleased(p)
      BY <1>0, SumsAreNatural DEF QuotaInv, Balanced
    <3> QED
      BY <1>5, <3>1
  <2>2. ASSUME NEW p \in Pipelines, NEW B, B = (Cardinality(Writers) - 1) * Max(Sizes)
        PROVE  ledger'[p] + Under("ledger", p) <= Quota + B
    <3>1. Cardinality(Writers) - 1 \in Nat /\ Max(Sizes) \in Nat
      BY LargestSize
    <3>2. B \in Nat
      BY <2>2, <3>1
    <3>3. Under("ledger", p) \in Nat /\ ledger[p] + Under("ledger", p) <= Quota + B /\ Quota \in Nat
      BY <1>0, <2>2, SumsAreNatural, QuotaAssumption DEF QuotaInv, WithinQuota
    <3> QED
      BY <1>5, <3>2, <3>3
  <2> QED
    BY <1>1, <1>7, <2>1, <2>2 DEF Balanced, WithinQuota
<1>9. ObjectsThere'
  BY <1>1, <1>4 DEF QuotaInv, ObjectsThere
<1> QED
  BY <1>6, <1>8, <1>9 DEF QuotaInv

LEMMA NextQuota ==
  ASSUME QuotaHypotheses, QuotaInv, [Next]_vars
  PROVE  QuotaInv'
<1>1. CASE UNCHANGED vars
  <2>1. UNCHANGED <<ledger, blocks, removed, count, writer, comp, failed>>
    BY <1>1 DEF vars
  <2>2. QuotaTyped'
    <3>1. \A c \in Compactors : CompTyped(comp[c])' <=> CompTyped(comp[c])
      BY <2>1 DEF CompTyped
    <3> QED
      BY <2>1, <3>1 DEF QuotaInv, QuotaTyped
  <2>3. \A p \in Pipelines :
          /\ Stored(p)' = Stored(p) /\ Unlisted(p)' = Unlisted(p)
          /\ Unreleased(p)' = Unreleased(p) /\ Under("ledger", p)' = Under("ledger", p)
    BY <2>1 DEF Stored, Unlisted, Unreleased, Under
  <2>4. Balanced' /\ WithinQuota' /\ ObjectsThere'
    BY <2>1, <2>3 DEF QuotaInv, Balanced, WithinQuota, ObjectsThere
  <2> QED
    BY <2>2, <2>4 DEF QuotaInv
<1>2. ASSUME NEW w \in Writers, Deny(w) \/ Admit(w) \/ Write(w) \/ WriterFails(w)
      PROVE  QuotaInv'
  BY <1>2, DenyKeeps, ChecksKeep, AddKeeps, InsertKeeps DEF Write
<1>3. ASSUME NEW c \in Compactors, Compact(c) \/ CompactionFails(c)
      PROVE  QuotaInv'
  BY <1>3, FindKeeps, RemoveKeeps, DeleteKeeps, ReleaseKeeps DEF Compact
<1> QED
  BY <1>1, <1>2, <1>3 DEF Next

LEMMA QuotaLedgerHolds ==
  ASSUME QuotaHypotheses, QuotaInv
  PROVE  LedgerHolds
<1>1. \A p \in Pipelines :
        /\ ledger[p] \in Int /\ Stored(p) \in Nat /\ Unlisted(p) \in Nat
        /\ Unreleased(p) \in Nat /\ Under("ledger", p) \in Nat
  BY SumsAreNatural DEF QuotaInv
<1>2. LedgerMatchesManifest
  BY <1>1 DEF LedgerMatchesManifest, QuotaInv, Balanced, ObjectsThere
<1>3. OverrunBounded
  <2> SUFFICES ASSUME NEW p \in Pipelines, NEW B, B = (Cardinality(Writers) - 1) * Max(Sizes)
               PROVE  Stored(p) <= Quota + B
    BY DEF OverrunBounded
  <2>1. Cardinality(Writers) - 1 \in Nat /\ Max(Sizes) \in Nat
    BY LargestSize
  <2>2. B \in Nat /\ Quota \in Nat
    BY <2>1, QuotaAssumption
  <2>3. /\ ledger[p] + Under("ledger", p) <= Quota + B
        /\ ledger[p] >= Stored(p) + Unlisted(p) + Unreleased(p)
    BY DEF QuotaInv, WithinQuota, Balanced
  <2> QED
    BY <1>1, <2>2, <2>3
<1> QED
  BY <1>2, <1>3 DEF LedgerHolds

-----------------------------------------------------------------------------
(* The block a compaction holds came from a peer. *)
Holds(q) == q.step \in {"remove", "delete"} => q.block.origin # "LOCAL"

PurgeInv ==
  /\ DOMAIN comp = Compactors
  /\ comp = [c \in Compactors |-> comp[c]]
  /\ \A c \in Compactors :
       /\ DOMAIN comp[c] = {"step", "todo", "block"}
       /\ Holds(comp[c])

LEMMA InitPurge == Init => PurgeInv
BY DEF Init, PurgeInv, IdleComp, Holds

(* A step of one compaction keeps the invariant when its new state does.   *)
LEMMA OneCompaction ==
  ASSUME PurgeInv, NEW c \in Compactors, NEW q,
         comp' = [comp EXCEPT ![c] = q],
         DOMAIN q = {"step", "todo", "block"},
         Holds(q)
  PROVE  PurgeInv'
<1>1. \A d \in Compactors : comp'[d] = IF d = c THEN q ELSE comp[d]
  BY DEF PurgeInv
<1>2. DOMAIN comp' = Compactors /\ comp' = [d \in Compactors |-> comp'[d]]
  BY DEF PurgeInv
<1> QED
  BY <1>1, <1>2 DEF PurgeInv

(* findOne answers a block that is not LOCAL.                              *)
LEMMA FindPurge ==
  ASSUME PurgeInv, NEW c \in Compactors, FindBlock(c)
  PROVE  PurgeInv'
<1>1. DOMAIN comp[c] = {"step", "todo", "block"} /\ comp[c].step = "find"
  BY DEF PurgeInv, FindBlock
<1>2. CASE comp' = [comp EXCEPT ![c] = IdleComp]
  BY <1>2, OneCompaction DEF IdleComp, Holds
<1>3. CASE comp' = [comp EXCEPT ![c].todo = Tail(@)]
  <2> DEFINE q == [comp[c] EXCEPT !.todo = Tail(@)]
  <2>1. DOMAIN q = {"step", "todo", "block"} /\ q.step = "find"
    BY <1>1
  <2>2. comp' = [comp EXCEPT ![c] = q]
    BY <1>3
  <2> HIDE DEF q
  <2> QED
    BY <2>1, <2>2, OneCompaction DEF Holds
<1>4. ASSUME NEW b \in Purgeable(Head(comp[c].todo)),
             comp' = [comp EXCEPT ![c].step = "remove", ![c].block = b]
      PROVE  PurgeInv'
  <2> DEFINE q == [comp[c] EXCEPT !.step = "remove", !.block = b]
  <2>1. DOMAIN q = {"step", "todo", "block"} /\ q.block = b
    BY <1>1
  <2>2. comp' = [comp EXCEPT ![c] = q]
    BY <1>4
  <2>3. b.origin # "LOCAL"
    BY <1>4 DEF Purgeable
  <2> HIDE DEF q
  <2> QED
    BY <2>1, <2>2, <2>3, OneCompaction DEF Holds
<1> QED
  BY <1>2, <1>3, <1>4 DEF FindBlock

(* Between findOne and the end, only the step of a compaction changes.     *)
LEMMA RestPurge ==
  ASSUME PurgeInv, NEW c \in Compactors,
         ReadCandidates(c) \/ RemoveObject(c) \/ DeleteBlock(c) \/ ReleaseBytes(c)
           \/ CompactionFails(c)
  PROVE  PurgeInv'
<1>1. DOMAIN comp[c] = {"step", "todo", "block"} /\ Holds(comp[c])
  BY DEF PurgeInv
<1>2. CASE ReadCandidates(c)
  <2>1. PICK s : comp' = [comp EXCEPT ![c].step = "find", ![c].todo = s]
    BY <1>2 DEF ReadCandidates
  <2> DEFINE q == [comp[c] EXCEPT !.step = "find", !.todo = s]
  <2>2. DOMAIN q = {"step", "todo", "block"} /\ q.step = "find"
    BY <1>1
  <2>3. comp' = [comp EXCEPT ![c] = q]
    BY <2>1
  <2> HIDE DEF q
  <2> QED
    BY <2>2, <2>3, OneCompaction DEF Holds
<1>3. CASE RemoveObject(c)
  <2> DEFINE q == [comp[c] EXCEPT !.step = "delete"]
  <2>1. DOMAIN q = {"step", "todo", "block"} /\ q.block = comp[c].block
    BY <1>1
  <2>2. comp' = [comp EXCEPT ![c] = q] /\ comp[c].step = "remove"
    BY <1>3 DEF RemoveObject
  <2> HIDE DEF q
  <2> QED
    BY <1>1, <2>1, <2>2, OneCompaction DEF Holds
<1>4. CASE DeleteBlock(c)
  <2> DEFINE q == [comp[c] EXCEPT !.step = "release"]
  <2>1. DOMAIN q = {"step", "todo", "block"} /\ q.step = "release"
    BY <1>1
  <2>2. comp' = [comp EXCEPT ![c] = q]
    BY <1>4 DEF DeleteBlock
  <2> HIDE DEF q
  <2> QED
    BY <2>1, <2>2, OneCompaction DEF Holds
<1>5. CASE ReleaseBytes(c) \/ CompactionFails(c)
  <2>1. comp' = [comp EXCEPT ![c] = IdleComp]
    BY <1>5 DEF ReleaseBytes, CompactionFails
  <2> QED
    BY <2>1, OneCompaction DEF IdleComp, Holds
<1> QED
  BY <1>2, <1>3, <1>4, <1>5

LEMMA DenyPurge ==
  ASSUME PurgeInv, NEW w \in Writers, Deny(w)
  PROVE  PurgeInv'
<1>1. PICK c \in Compactors : comp' = [comp EXCEPT ![c].step = "candidates"]
  BY DEF Deny
<1> DEFINE q == [comp[c] EXCEPT !.step = "candidates"]
<1>2. DOMAIN q = {"step", "todo", "block"} /\ q.step = "candidates"
  BY DEF PurgeInv
<1>3. comp' = [comp EXCEPT ![c] = q]
  BY <1>1
<1> HIDE DEF q
<1> QED
  BY <1>2, <1>3, OneCompaction DEF Holds

LEMMA NextPurge ==
  ASSUME PurgeInv, [Next]_vars
  PROVE  PurgeInv'
<1>1. CASE UNCHANGED comp
  BY <1>1 DEF PurgeInv
<1>2. CASE \E w \in Writers : Deny(w)
  BY <1>2, DenyPurge
<1>3. CASE \E c \in Compactors : Compact(c) \/ CompactionFails(c)
  BY <1>3, FindPurge, RestPurge DEF Compact
<1>4. CASE \E w \in Writers : Admit(w) \/ Write(w) \/ WriterFails(w)
  BY <1>1, <1>4 DEF Admit, Write, WriterFails, CheckPipeline, AddToLedger, InsertBlock
<1> QED
  BY <1>1, <1>2, <1>3, <1>4 DEF Next, vars

(* blocks loses a member in DeleteBlock only.                              *)
LEMMA OnlyPeersLeave ==
  ASSUME PurgeInv, [Next]_vars
  PROVE  [\A b \in blocks : b.origin = "LOCAL" => b \in blocks']_vars
<1>1. CASE UNCHANGED blocks
  BY <1>1
<1>2. CASE \E w \in Writers : InsertBlock(w)
  BY <1>2 DEF InsertBlock
<1>3. CASE \E c \in Compactors : DeleteBlock(c)
  BY <1>3 DEF DeleteBlock, PurgeInv, Holds
<1>4. CASE \E w \in Writers : Deny(w) \/ Admit(w) \/ CheckPipeline(w) \/ AddToLedger(w)
                               \/ WriterFails(w)
  BY <1>1, <1>4 DEF Deny, Admit, CheckPipeline, AddToLedger, WriterFails
<1>5. CASE \E c \in Compactors : ReadCandidates(c) \/ FindBlock(c) \/ RemoveObject(c)
                                  \/ ReleaseBytes(c) \/ CompactionFails(c)
  BY <1>1, <1>5 DEF ReadCandidates, FindBlock, RemoveObject, ReleaseBytes, CompactionFails
<1> QED
  BY <1>1, <1>2, <1>3, <1>4, <1>5 DEF Next, Write, Compact, vars

-----------------------------------------------------------------------------
(* ManifestVerifier. Keys belong to one node each, and there is one for every node.          *)
OnePerNode(f) == \A n, m \in Nodes : f[n] = f[m] => n = m
KeysSuffice == NoKey \notin NodeKeys /\ \E f \in [Nodes -> NodeKeys] : OnePerNode(f)

(* Whoever holds a key, has signed with it or is trusted under it, is one  *)
(* and the same node, now and after any number of replacements.            *)
KeysTell ==
  /\ OnePerNode(own)
  /\ \A n, m \in Nodes : trustedNodes[m] = own[n] => m = n
  /\ \A s \in signed, n \in Nodes : own[n] = s.key \/ trustedNodes[n] = s.key => n = s.signer

VerifierInv ==
  /\ Verifier!TypeOK
  /\ KeysTell
  /\ taken \subseteq revocationBlacklist
  /\ Verifier!AcceptedIsVouched

LEMMA InitVerifies ==
  ASSUME KeysSuffice, MaxTime \in Nat, Verifier!Init
  PROVE  VerifierInv
<1>1. own \in [Nodes -> NodeKeys] /\ OnePerNode(own)
  BY DEF Verifier!Init, KeysSuffice, OnePerNode
<1>2. Verifier!TypeOK
  BY <1>1 DEF Verifier!Init, Verifier!TypeOK, Verifier!Times
<1>3. KeysTell
  BY <1>1 DEF Verifier!Init, KeysTell, KeysSuffice
<1> QED
  BY <1>2, <1>3 DEF Verifier!Init, VerifierInv, Verifier!AcceptedIsVouched

LEMMA RegisterVerifies ==
  ASSUME VerifierInv, NEW n \in Nodes, Verifier!RegisterTrustedNode(n)
  PROVE  VerifierInv'
<1>1. Verifier!TypeOK'
  BY DEF VerifierInv, Verifier!TypeOK, Verifier!RegisterTrustedNode
<1>2. \A m \in Nodes : trustedNodes'[m] = IF m = n THEN own[n] ELSE trustedNodes[m]
  BY DEF VerifierInv, Verifier!TypeOK, Verifier!RegisterTrustedNode
<1>3. KeysTell'
  BY <1>2 DEF VerifierInv, KeysTell, OnePerNode, Verifier!RegisterTrustedNode
<1> QED
  BY <1>1, <1>3 DEF VerifierInv, Verifier!AcceptedIsVouched, Verifier!RegisterTrustedNode

LEMMA IngestVerifies ==
  ASSUME VerifierInv, NEW s \in signed, NEW n \in Nodes, Verifier!IngestRevocationTicket(s, n)
  PROVE  VerifierInv'
<1>1. s.op \in OpKeys
  BY DEF VerifierInv, Verifier!TypeOK, Verifier!Statements
<1>2. Verifier!TypeOK'
  BY <1>1 DEF VerifierInv, Verifier!TypeOK, Verifier!IngestRevocationTicket
<1>3. KeysTell'
  BY DEF VerifierInv, KeysTell, OnePerNode, Verifier!IngestRevocationTicket
<1> QED
  BY <1>2, <1>3 DEF VerifierInv, Verifier!AcceptedIsVouched, Verifier!IngestRevocationTicket

(* The one step that accepts anything.                                     *)
LEMMA VerifyVerifies ==
  ASSUME VerifierInv, NEW m \in Verifier!Manifest, Verifier!VerifyManifest(m)
  PROVE  VerifierInv'
<1>1. /\ UNCHANGED <<now, own, signed, trustedNodes, revocationBlacklist, taken>>
      /\ accepted' = {m}
  BY DEF Verifier!VerifyManifest
<1>2. Verifier!TypeOK'
  <2>1. Verifier!Manifest' = Verifier!Manifest
    BY <1>1 DEF Verifier!Manifest, Verifier!Times
  <2> QED
    BY <1>1, <2>1 DEF VerifierInv, Verifier!TypeOK
<1>3. KeysTell'
  BY <1>1 DEF VerifierInv, KeysTell, OnePerNode
<1>4. \E s \in signed : s.kind = "delegation" /\ s.signer = m.issuer /\ s.op = m.op /\ s.until >= now
  <2>1. m.delegation \in signed /\ m.issuer \in Nodes /\ m.until >= now
    BY DEF Verifier!Manifest, Verifier!VerifyManifest, Verifier!Times, VerifierInv, Verifier!TypeOK
  <2>2. /\ m.delegation.kind = "delegation" /\ m.delegation.op = m.op
        /\ m.delegation.until = m.until
        /\ trustedNodes[m.issuer] = m.delegation.key
    BY DEF Verifier!VerifyManifest, Verifier!Delegated
  <2>3. m.delegation.signer = m.issuer
    BY <2>1, <2>2 DEF VerifierInv, KeysTell
  <2> QED
    BY <2>1, <2>2, <2>3
<1>5. m.op \notin taken
  BY DEF Verifier!VerifyManifest, VerifierInv
<1>6. Verifier!AcceptedIsVouched'
  BY <1>1, <1>4, <1>5 DEF Verifier!AcceptedIsVouched
<1> QED
  BY <1>1, <1>2, <1>3, <1>6 DEF VerifierInv

LEMMA SignVerifies ==
  ASSUME VerifierInv, NEW n \in Nodes, Verifier!Sign(n)
  PROVE  VerifierInv'
<1>1. PICK kind \in {"delegation", "ticket"}, op \in OpKeys, until \in Verifier!Times :
        signed' = signed \cup
          {[kind |-> kind, signer |-> n, key |-> own[n], op |-> op, until |-> until]}
  BY DEF Verifier!Sign
<1> DEFINE new == [kind |-> kind, signer |-> n, key |-> own[n], op |-> op, until |-> until]
<1>2. /\ new \in Verifier!Statements /\ new.key = own[n] /\ new.signer = n
      /\ signed' = signed \cup {new}
  BY <1>1 DEF Verifier!Statements, VerifierInv, Verifier!TypeOK
<1> HIDE DEF new
<1>3. Verifier!TypeOK'
  BY <1>2 DEF VerifierInv, Verifier!TypeOK, Verifier!Sign
<1>4. KeysTell'
  BY <1>2 DEF VerifierInv, KeysTell, OnePerNode, Verifier!Sign
<1> QED
  BY <1>3, <1>4 DEF VerifierInv, Verifier!AcceptedIsVouched, Verifier!Sign

LEMMA ReplaceVerifies ==
  ASSUME VerifierInv, NEW n \in Nodes, Verifier!ReplaceKey(n)
  PROVE  VerifierInv'
<1>1. PICK k \in NodeKeys :
        /\ \A m \in Nodes : own[m] # k /\ trustedNodes[m] # k
        /\ \A s \in signed : s.key # k
        /\ own' = [own EXCEPT ![n] = k]
  BY DEF Verifier!ReplaceKey
<1>2. \A m \in Nodes : own'[m] = IF m = n THEN k ELSE own[m]
  BY <1>1 DEF VerifierInv, Verifier!TypeOK
<1>3. Verifier!TypeOK'
  BY <1>1 DEF VerifierInv, Verifier!TypeOK, Verifier!ReplaceKey
<1>4. KeysTell'
  BY <1>1, <1>2 DEF VerifierInv, KeysTell, OnePerNode, Verifier!ReplaceKey
<1> QED
  BY <1>3, <1>4 DEF VerifierInv, Verifier!AcceptedIsVouched, Verifier!ReplaceKey

LEMMA TimeVerifies ==
  ASSUME VerifierInv, MaxTime \in Nat, Verifier!Tick \/ UNCHANGED Verifier!vars
  PROVE  VerifierInv'
<1>1. UNCHANGED <<own, signed, trustedNodes, revocationBlacklist, taken>>
  BY DEF Verifier!Tick, Verifier!vars
<1>2. KeysTell'
  BY <1>1 DEF VerifierInv, KeysTell, OnePerNode
<1>3. CASE Verifier!Tick
  <2>1. Verifier!TypeOK'
    BY <1>3 DEF VerifierInv, Verifier!TypeOK, Verifier!Tick, Verifier!Times
  <2> QED
    BY <1>1, <1>2, <1>3, <2>1 DEF VerifierInv, Verifier!AcceptedIsVouched, Verifier!Tick
<1>4. CASE UNCHANGED Verifier!vars
  <2>1. Verifier!Manifest' = Verifier!Manifest
    BY <1>1 DEF Verifier!Manifest, Verifier!Times
  <2> QED
    BY <1>2, <1>4, <2>1 DEF VerifierInv, Verifier!TypeOK, Verifier!AcceptedIsVouched, Verifier!vars
<1> QED
  BY <1>3, <1>4

LEMMA NextVerifies ==
  ASSUME VerifierInv, MaxTime \in Nat, [Verifier!Next]_verifierVars
  PROVE  VerifierInv'
BY RegisterVerifies, IngestVerifies, VerifyVerifies, SignVerifies, ReplaceVerifies,
   TimeVerifies DEF Verifier!Next, Verifier!vars, verifierVars

-----------------------------------------------------------------------------
(* SignalingRing.  A key is held by one node only, whatever windows it is  *)
(* held for, and a packet was signed by its sender's.                      *)
RingKeysTell ==
  /\ \A n \in Ring!Peers, w \in Ring!Windows : activeRings[n][w] <= keys
  /\ \A p \in sent : p.key <= keys
  /\ \A n, m \in Ring!Peers : \A v, w \in Ring!Windows :
       activeRings[n][v] = activeRings[m][w] /\ activeRings[n][v] # Ring!NoRing => n = m
  /\ \A p \in sent, n \in Ring!Peers, w \in Ring!Windows :
       activeRings[n][w] = p.key => n = p.sender

RingInv == Ring!TypeOK /\ RingKeysTell /\ Ring!FailoverIsFreshAndOwn

RingHypotheses ==
  /\ Order \in Seq(Ring!Peers)
  /\ Window \in Nat \ {0} /\ {MaxRingTime, MaxKeys} \subseteq Nat

LEMMA InitRing ==
  ASSUME RingHypotheses, Ring!Init
  PROVE  RingInv
<1>1. Ring!TypeOK
  BY DEF Ring!Init, Ring!TypeOK, RingHypotheses, Ring!NoRing
<1>2. RingKeysTell
  BY DEF Ring!Init, RingKeysTell, Ring!NoRing
<1> QED
  BY <1>1, <1>2 DEF Ring!Init, RingInv, Ring!FailoverIsFreshAndOwn

LEMMA WindowsGoOn ==
  ASSUME NEW a \in Nat, NEW b \in Nat, NEW w \in Nat \ {0}, a <= b
  PROVE  a \div w \in 0..(b \div w)
OBVIOUS

LEMMA CurrentIsAWindow ==
  ASSUME RingHypotheses, Ring!TypeOK
  PROVE  Ring!CurrentWindow \in Ring!Windows
BY WindowsGoOn DEF RingHypotheses, Ring!TypeOK, Ring!CurrentWindow, Ring!Windows

LEMMA NextIsAPeer ==
  ASSUME RingHypotheses, NEW n \in Ring!Peers
  PROVE  Ring!NextPeer(n) \in Ring!Peers
<1> DEFINE at == CHOOSE i \in DOMAIN Order : Order[i] = n
<1>1. at \in DOMAIN Order /\ Order[at] = n
  BY DEF Ring!Peers, Ring!ToSet
<1>2. Len(Order) \in Nat /\ DOMAIN Order = 1..Len(Order)
  BY DEF RingHypotheses
<1>3. at \in Nat /\ Len(Order) > 0
  BY <1>1, <1>2
<1> HIDE DEF at
<1>4. at % Len(Order) \in 0..(Len(Order) - 1)
  BY <1>2, <1>3
<1>5. (at % Len(Order)) + 1 \in DOMAIN Order
  BY <1>2, <1>4
<1> QED
  BY <1>5 DEF Ring!NextPeer, Ring!Peers, Ring!ToSet, at

(* The new key was nobody's.                                               *)
LEMMA InitializeRing ==
  ASSUME RingHypotheses, RingInv, NEW n \in Ring!Peers, Ring!InitializeLiveRing(n)
  PROVE  RingInv'
<1> PICK c : c = Ring!CurrentWindow
  OBVIOUS
<1>1. c \in Ring!Windows
  BY CurrentIsAWindow DEF RingInv
<1>2. /\ keys \in Nat /\ keys < MaxKeys /\ keys' = keys + 1
      /\ activeRings' = [activeRings EXCEPT ![n][c] = keys + 1]
      /\ UNCHANGED <<clock, sent, forwarded, failover, obeyed>>
  BY DEF Ring!InitializeLiveRing, RingInv, Ring!TypeOK
<1>3. \A m \in Ring!Peers, w \in Ring!Windows :
        /\ activeRings[m][w] \in 0..MaxKeys
        /\ activeRings'[m][w] = IF m = n /\ w = c THEN keys + 1 ELSE activeRings[m][w]
  BY <1>2 DEF RingInv, Ring!TypeOK
<1>4. Ring!TypeOK'
  <2>1. keys + 1 \in 0..MaxKeys
    BY <1>2 DEF RingHypotheses
  <2>2. activeRings' \in [Ring!Peers -> [Ring!Windows -> 0..MaxKeys]]
    BY <1>1, <1>2, <2>1 DEF RingInv, Ring!TypeOK
  <2> QED
    BY <1>2, <2>1, <2>2 DEF RingInv, Ring!TypeOK
<1>5. \A p \in sent : p.key \in Nat /\ p.key <= keys
  BY DEF RingInv, RingKeysTell, Ring!TypeOK, Ring!Packet
<1>6. RingKeysTell'
  BY <1>2, <1>3, <1>5 DEF RingInv, RingKeysTell, Ring!NoRing
<1> QED
  BY <1>2, <1>4, <1>6 DEF RingInv, Ring!FailoverIsFreshAndOwn

LEMMA DispatchRing ==
  ASSUME RingHypotheses, RingInv, NEW n \in Ring!Peers, NEW flag \in Flags,
         Ring!DispatchTransition(n, flag)
  PROVE  RingInv'
<1> PICK c, q : /\ c = Ring!CurrentWindow
                /\ q = [sender |-> n, window |-> c, flag |-> flag, time |-> clock,
                        key |-> activeRings[n][c]]
  OBVIOUS
<1>1. c \in Ring!Windows
  BY CurrentIsAWindow DEF RingInv
<1>2. /\ activeRings[n][c] # Ring!NoRing
      /\ sent' = sent \cup {q} /\ Ring!Forward(n, q)
      /\ UNCHANGED <<clock, activeRings, keys, failover, obeyed>>
  BY DEF Ring!DispatchTransition
<1>3. activeRings[n][c] \in 1..MaxKeys /\ clock \in 0..MaxRingTime
  BY <1>1, <1>2 DEF RingInv, Ring!TypeOK, Ring!NoRing
<1>4. q \in Ring!Packet /\ q.key = activeRings[n][c] /\ q.sender = n
  BY <1>1, <1>3 DEF Ring!Packet
<1>5. Ring!TypeOK'
  <2>1. forwarded' \in [Ring!Peers -> SUBSET Ring!Packet]
    BY <1>2, <1>4, NextIsAPeer DEF Ring!Forward, RingInv, Ring!TypeOK
  <2> QED
    BY <1>2, <1>4, <2>1 DEF RingInv, Ring!TypeOK
<1>6. RingKeysTell'
  BY <1>1, <1>2, <1>4 DEF RingInv, RingKeysTell
<1> QED
  BY <1>2, <1>5, <1>6 DEF RingInv, Ring!FailoverIsFreshAndOwn

(* Whoever verifies a packet under its own key is its sender.              *)
LEMMA HandleRing ==
  ASSUME RingHypotheses, RingInv, NEW n \in Ring!Peers, NEW p \in sent,
         Ring!HandleIncomingSignal(n, p)
  PROVE  RingInv'
<1>1. /\ UNCHANGED <<clock, activeRings, keys, sent>>
      /\ Ring!Verified(n, p)
      /\ forwarded' = forwarded \/ Ring!Forward(n, p)
  BY DEF Ring!HandleIncomingSignal
<1>2. p \in Ring!Packet /\ p.window \in Ring!Windows /\ clock \in 0..MaxRingTime
  BY DEF RingInv, Ring!TypeOK, Ring!Packet
<1>3. p.sender = n /\ clock - p.time <= Window
  BY <1>1, <1>2 DEF Ring!Verified, RingInv, RingKeysTell
<1>4. forwarded' \in [Ring!Peers -> SUBSET Ring!Packet]
  BY <1>1, <1>2, NextIsAPeer DEF Ring!Forward, RingInv, Ring!TypeOK
<1>5. RingKeysTell'
  BY <1>1 DEF RingInv, RingKeysTell
<1> DEFINE o == [node |-> n, packet |-> p, at |-> clock]
<1>6. CASE UNCHANGED <<failover, obeyed>>
  BY <1>1, <1>4, <1>5, <1>6 DEF RingInv, Ring!TypeOK, Ring!FailoverIsFreshAndOwn
<1>7. CASE failover' = failover \cup {p.window} /\ obeyed' = obeyed \cup {o}
  <2>1. /\ o \in [node : Ring!Peers, packet : Ring!Packet, at : 0..MaxRingTime]
        /\ o.packet = p /\ o.node = n /\ o.at = clock
    BY <1>2
  <2> HIDE DEF o
  <2>2. Ring!TypeOK'
    BY <1>1, <1>2, <1>4, <1>7, <2>1 DEF RingInv, Ring!TypeOK
  <2>3. Ring!FailoverIsFreshAndOwn'
    BY <1>3, <1>7, <2>1 DEF RingInv, Ring!FailoverIsFreshAndOwn
  <2> QED
    BY <1>5, <2>2, <2>3 DEF RingInv
<1> QED
  BY <1>6, <1>7 DEF Ring!HandleIncomingSignal

LEMMA NextRing ==
  ASSUME RingHypotheses, RingInv, [Ring!Next]_ringVars
  PROVE  RingInv'
<1>1. CASE UNCHANGED ringVars
  BY <1>1 DEF ringVars, RingInv, Ring!TypeOK, RingKeysTell, Ring!FailoverIsFreshAndOwn
<1>2. CASE Ring!Tick
  BY <1>2 DEF Ring!Tick, RingHypotheses, RingInv, Ring!TypeOK, RingKeysTell,
     Ring!FailoverIsFreshAndOwn
<1> QED
  BY <1>1, <1>2, InitializeRing, DispatchRing, HandleRing DEF Ring!Next

(* The types, however many compactions run: whoever has begun to write has *)
(* a chunk, and a compaction past its findOne a block.                     *)
Comp == [step: CompSteps, todo: Seq(Pipelines), block: Block \cup {None}]
Writing(q) ==
  q.step # "idle" => q.pipe \in Pipelines /\ q.size \in Sizes /\ q.origin \in {"LOCAL", "PEER"}
Compacting(q) == q.step \in {"remove", "delete", "release"} => q.block \in Block

BlocksTyped ==
  /\ TypeOK
  /\ comp \in [Compactors -> Comp]
  /\ \A w \in Writers : Writing(writer[w])
  /\ \A c \in Compactors : Compacting(comp[c])

Writer == [step: WriterSteps, pipe: Pipelines \cup {None}, size: Sizes \cup {0},
           origin: {"LOCAL", "PEER", None}]

LEMMA SizesAreWhole == Sizes \subseteq Int /\ 0 \in Int /\ MaxBlocks \in Nat
  BY QuotaAssumption

LEMMA InitBlocks == Init => BlocksTyped
<1> SUFFICES ASSUME Init PROVE BlocksTyped
  OBVIOUS
<1>1. IdleWriter \in Writer /\ IdleWriter.step = "idle"
  BY DEF IdleWriter, Writer, WriterSteps
<1>2. IdleComp \in Comp /\ IdleComp.step = "idle"
  BY DEF IdleComp, Comp, CompSteps
<1>3. writer \in [Writers -> Writer] /\ comp \in [Compactors -> Comp]
  BY <1>1, <1>2 DEF Init
<1>4. /\ \A w \in Writers : Writing(writer[w])
      /\ \A c \in Compactors : Compacting(comp[c])
  BY <1>1, <1>2 DEF Init, Writing, Compacting
<1>5. ledger \in [Pipelines -> Int] /\ count \in 0..MaxBlocks
  BY SizesAreWhole DEF Init
<1> QED
  BY <1>3, <1>4, <1>5 DEF Init, BlocksTyped, TypeOK, Writer, Comp

(* A step of one writer, of one compaction.                                *)
LEMMA WriterBlocks ==
  ASSUME BlocksTyped, NEW w \in Writers, NEW q \in Writer, writer' = [writer EXCEPT ![w] = q],
         Writing(q), UNCHANGED <<comp, removed>>, ledger' \in [Pipelines -> Int],
         blocks' \subseteq Block, count' \in 0..MaxBlocks, failed' \in BOOLEAN
  PROVE  BlocksTyped'
<1>1. writer' \in [Writers -> Writer]
  BY DEF BlocksTyped, TypeOK, Writer
<1>2. \A v \in Writers : Writing(writer'[v])
  BY DEF BlocksTyped, TypeOK
<1> QED
  BY <1>1, <1>2 DEF BlocksTyped, TypeOK, Writer

LEMMA CompBlocks ==
  ASSUME BlocksTyped, NEW c \in Compactors, NEW q \in Comp, comp' = [comp EXCEPT ![c] = q],
         Compacting(q), UNCHANGED <<writer, count>>, ledger' \in [Pipelines -> Int],
         blocks' \subseteq Block, removed' \subseteq Block, failed' \in BOOLEAN
  PROVE  BlocksTyped'
<1>1. comp' \in [Compactors -> Comp]
  BY DEF BlocksTyped
<1>2. \A d \in Compactors : Compacting(comp'[d])
  BY DEF BlocksTyped
<1> QED
  BY <1>1, <1>2 DEF BlocksTyped, TypeOK, Comp

LEMMA WriteBlocks ==
  ASSUME BlocksTyped, NEW w \in Writers, Admit(w) \/ Write(w) \/ WriterFails(w)
  PROVE  BlocksTyped'
<1>1. /\ writer[w] \in Writer /\ Writing(writer[w]) /\ ledger \in [Pipelines -> Int]
      /\ blocks \subseteq Block /\ count \in 0..MaxBlocks /\ failed \in BOOLEAN
  BY DEF BlocksTyped, TypeOK, Writer
<1>2. IdleWriter \in Writer /\ Writing(IdleWriter)
  BY DEF IdleWriter, Writer, WriterSteps, Writing
<1>3. CASE Admit(w)
  <2>1. PICK p \in Pipelines, n \in Sizes, o \in {"LOCAL", "PEER"} :
          writer' = [writer EXCEPT ![w] = [step |-> "pipeline", pipe |-> p, size |-> n, origin |-> o]]
    BY <1>3 DEF Admit
  <2> DEFINE q == [step |-> "pipeline", pipe |-> p, size |-> n, origin |-> o]
  <2>2. q \in Writer /\ Writing(q)
    BY DEF Writer, WriterSteps, Writing
  <2>3. writer' = [writer EXCEPT ![w] = q] /\ UNCHANGED <<ledger, blocks, removed, count, comp, failed>>
    BY <1>3, <2>1 DEF Admit
  <2> HIDE DEF q
  <2> QED
    BY <1>1, <2>2, <2>3, WriterBlocks
<1>4. CASE CheckPipeline(w)
  <2>1. PICK q : /\ q = IdleWriter \/ q = [writer[w] EXCEPT !.step = "ledger"]
                 /\ writer' = [writer EXCEPT ![w] = q]
    BY <1>4 DEF CheckPipeline
  <2>2. writer[w].step = "pipeline" /\ UNCHANGED <<ledger, blocks, removed, count, comp, failed>>
    BY <1>4 DEF CheckPipeline
  <2>3. q \in Writer /\ Writing(q)
    BY <1>1, <1>2, <2>1, <2>2 DEF Writer, WriterSteps, Writing
  <2> QED
    BY <1>1, <2>1, <2>2, <2>3, WriterBlocks
<1>5. CASE AddToLedger(w)
  <2> DEFINE q == [writer[w] EXCEPT !.step = "manifest"]
  <2>1. /\ writer' = [writer EXCEPT ![w] = q] /\ writer[w].step = "ledger"
        /\ ledger' = [ledger EXCEPT ![writer[w].pipe] = @ + writer[w].size]
        /\ UNCHANGED <<blocks, removed, count, comp, failed>>
    BY <1>5 DEF AddToLedger
  <2>2. q \in Writer /\ Writing(q)
    BY <1>1, <2>1 DEF Writer, WriterSteps, Writing
  <2>3. writer[w].pipe \in Pipelines /\ writer[w].size \in Int
    BY <1>1, <2>1, SizesAreWhole DEF Writing
  <2>4. ledger' \in [Pipelines -> Int]
    BY <1>1, <2>1, <2>3
  <2> HIDE DEF q
  <2> QED
    BY <1>1, <2>1, <2>2, <2>4, WriterBlocks
<1>6. CASE InsertBlock(w)
  <2> PICK b : b = [at |-> count + 1, pipe |-> writer[w].pipe, size |-> writer[w].size,
                    origin |-> writer[w].origin]
    OBVIOUS
  <2>1. /\ writer[w].step = "manifest" /\ count < MaxBlocks /\ count' = count + 1
        /\ blocks' = blocks \cup {b} /\ writer' = [writer EXCEPT ![w] = IdleWriter]
        /\ UNCHANGED <<ledger, removed, comp, failed>>
    BY <1>6 DEF InsertBlock
  <2>2. count + 1 \in 1..MaxBlocks /\ count + 1 \in 0..MaxBlocks
    BY <1>1, <2>1, SizesAreWhole
  <2>3. b \in Block
    BY <1>1, <2>1, <2>2 DEF Block, Writing
  <2> QED
    BY <1>1, <1>2, <2>1, <2>2, <2>3, WriterBlocks
<1>7. CASE WriterFails(w)
  BY <1>1, <1>2, <1>7, WriterBlocks DEF WriterFails
<1> QED
  BY <1>3, <1>4, <1>5, <1>6, <1>7 DEF Write

LEMMA DenyBlocks ==
  ASSUME BlocksTyped, NEW w \in Writers, Deny(w)
  PROVE  BlocksTyped'
<1>1. PICK c \in Compactors : /\ comp[c].step = "idle"
                              /\ comp' = [comp EXCEPT ![c].step = "candidates"]
  BY DEF Deny
<1> DEFINE q == [comp[c] EXCEPT !.step = "candidates"]
<1>2. comp[c] \in Comp
  BY DEF BlocksTyped
<1>3. q \in Comp /\ Compacting(q) /\ comp' = [comp EXCEPT ![c] = q]
  BY <1>1, <1>2 DEF Comp, CompSteps, Compacting
<1>4. UNCHANGED <<ledger, blocks, removed, count, writer, failed>>
  BY DEF Deny
<1> HIDE DEF q
<1> QED
  BY <1>3, <1>4, CompBlocks DEF BlocksTyped, TypeOK

LEMMA PrefixOf ==
  ASSUME NEW T, NEW s \in Seq(T), NEW m \in Nat, m <= Len(s)
  PROVE  SubSeq(s, 1, m) \in Seq(T)
OBVIOUS

LEMMA CompactBlocks ==
  ASSUME IsFiniteSet(Pipelines), BlocksTyped, NEW c \in Compactors, Compact(c) \/ CompactionFails(c)
  PROVE  BlocksTyped'
<1>1. /\ comp[c] \in Comp /\ Compacting(comp[c]) /\ ledger \in [Pipelines -> Int]
      /\ blocks \subseteq Block /\ removed \subseteq Block /\ failed \in BOOLEAN
  BY DEF BlocksTyped, TypeOK
<1>2. IdleComp \in Comp /\ Compacting(IdleComp)
  BY DEF IdleComp, Comp, CompSteps, Compacting
<1>3. CASE ReadCandidates(c)
  <2>1. PICK s \in Candidates :
          comp' = [comp EXCEPT ![c].step = "find", ![c].todo = SubSeq(s, 1, Min({Examined, Len(s)}))]
    BY <1>3 DEF ReadCandidates
  <2>2. s \in Seq(Pipelines)
    <3>1. s \in [1..Cardinality(Pipelines) -> Pipelines]
      BY DEF Candidates
    <3>2. Cardinality(Pipelines) \in Nat
      BY FS_CardinalityType
    <3> QED
      BY <3>1, <3>2
  <2>3. SubSeq(s, 1, Min({Examined, Len(s)})) \in Seq(Pipelines)
    <3>1. PICK n \in Nat : n = Len(s)
      BY <2>2
    <3>2. \E x \in {Examined, n} : \A y \in {Examined, n} : x <= y
      BY <3>1, QuotaAssumption
    <3>3. Min({Examined, n}) \in {Examined, n} /\ \A y \in {Examined, n} : Min({Examined, n}) <= y
      BY <3>2 DEF Min
    <3>4. Min({Examined, n}) \in Nat /\ Min({Examined, n}) <= n
      BY <3>1, <3>3, QuotaAssumption
    <3> PICK m : m = Min({Examined, Len(s)})
      OBVIOUS
    <3>5. m \in Nat /\ m <= Len(s)
      BY <3>1, <3>4
    <3> QED
      BY <2>2, <3>5, PrefixOf
  <2> PICK t \in Seq(Pipelines) : t = SubSeq(s, 1, Min({Examined, Len(s)}))
    BY <2>3
  <2> DEFINE q == [comp[c] EXCEPT !.step = "find", !.todo = t]
  <2>4. q \in Comp /\ Compacting(q) /\ comp' = [comp EXCEPT ![c] = q]
    BY <1>1, <2>1 DEF Comp, CompSteps, Compacting
  <2> HIDE DEF q
  <2> QED
    BY <1>1, <1>3, <2>4, CompBlocks DEF ReadCandidates
<1>4. CASE FindBlock(c)
  <2>1. comp[c].step = "find" /\ UNCHANGED <<ledger, blocks, removed, count, writer, failed>>
    BY <1>4 DEF FindBlock
  <2>2. PICK q : /\ comp' = [comp EXCEPT ![c] = q]
                 /\ \/ q = IdleComp
                    \/ comp[c].todo # <<>> /\ q = [comp[c] EXCEPT !.todo = Tail(@)]
                    \/ \E b \in Purgeable(Head(comp[c].todo)) :
                         q = [comp[c] EXCEPT !.step = "remove", !.block = b]
    <3> PICK todo : todo = comp[c].todo
      OBVIOUS
    <3> PICK purgeable : purgeable = Purgeable(Head(todo))
      OBVIOUS
    <3>1. \/ comp' = [comp EXCEPT ![c] = IdleComp]
          \/ todo # <<>> /\ comp' = [comp EXCEPT ![c].todo = Tail(@)]
          \/ \E b \in purgeable : comp' = [comp EXCEPT ![c].step = "remove", ![c].block = b]
      BY <1>4 DEF FindBlock
    <3>2. ASSUME todo # <<>>, comp' = [comp EXCEPT ![c].todo = Tail(@)]
          PROVE  comp' = [comp EXCEPT ![c] = [comp[c] EXCEPT !.todo = Tail(@)]]
      BY <1>1, <3>2
    <3>3. ASSUME NEW b \in purgeable, comp' = [comp EXCEPT ![c].step = "remove", ![c].block = b]
          PROVE  comp' = [comp EXCEPT ![c] = [comp[c] EXCEPT !.step = "remove", !.block = b]]
      BY <1>1, <3>3
    <3> QED
      BY <3>1, <3>2, <3>3
  <2>3. Purgeable(Head(comp[c].todo)) \subseteq Block
    BY <1>1 DEF Purgeable
  <2>4. CASE comp[c].todo # <<>> /\ q = [comp[c] EXCEPT !.todo = Tail(@)]
    <3>1. comp[c].todo \in Seq(Pipelines)
      BY <1>1 DEF Comp
    <3>2. Tail(comp[c].todo) \in Seq(Pipelines)
      BY <2>4, <3>1
    <3> PICK t \in Seq(Pipelines) : t = Tail(comp[c].todo)
      BY <3>2
    <3>3. q = [comp[c] EXCEPT !.todo = t]
      BY <2>4
    <3>4. q \in Comp /\ q.step = "find"
      BY <1>1, <2>1, <3>3 DEF Comp
    <3> QED
      BY <1>1, <2>1, <2>2, <3>4, CompBlocks DEF Compacting
  <2>5. CASE \E b \in Purgeable(Head(comp[c].todo)) :
               q = [comp[c] EXCEPT !.step = "remove", !.block = b]
    <3>1. PICK b \in Block : q = [comp[c] EXCEPT !.step = "remove", !.block = b]
      BY <2>3, <2>5
    <3>2. q \in Comp /\ q.block = b
      BY <1>1, <3>1 DEF Comp, CompSteps
    <3> QED
      BY <1>1, <2>1, <2>2, <3>2, CompBlocks DEF Compacting
  <2>6. CASE q = IdleComp
    BY <1>1, <1>2, <2>1, <2>2, <2>6, CompBlocks
  <2> QED
    BY <2>2, <2>4, <2>5, <2>6
<1>5. CASE RemoveObject(c)
  <2> DEFINE q == [comp[c] EXCEPT !.step = "delete"]
  <2>1. /\ comp' = [comp EXCEPT ![c] = q] /\ comp[c].step = "remove"
        /\ removed' = removed \cup {comp[c].block}
        /\ UNCHANGED <<ledger, blocks, count, writer, failed>>
    BY <1>5 DEF RemoveObject
  <2>2. q \in Comp /\ Compacting(q) /\ comp[c].block \in Block
    BY <1>1, <2>1 DEF Comp, CompSteps, Compacting
  <2> HIDE DEF q
  <2> QED
    BY <1>1, <2>1, <2>2, CompBlocks
<1>6. CASE DeleteBlock(c)
  <2> DEFINE q == [comp[c] EXCEPT !.step = "release"]
  <2>1. /\ comp' = [comp EXCEPT ![c] = q] /\ comp[c].step = "delete"
        /\ blocks' = blocks \ {comp[c].block}
        /\ UNCHANGED <<ledger, removed, count, writer, failed>>
    BY <1>6 DEF DeleteBlock
  <2>2. q \in Comp /\ Compacting(q)
    BY <1>1, <2>1 DEF Comp, CompSteps, Compacting
  <2> HIDE DEF q
  <2> QED
    BY <1>1, <2>1, <2>2, CompBlocks
<1>7. CASE ReleaseBytes(c)
  <2>1. /\ comp' = [comp EXCEPT ![c] = IdleComp] /\ comp[c].step = "release"
        /\ ledger' = [ledger EXCEPT ![comp[c].block.pipe] = @ - comp[c].block.size]
        /\ UNCHANGED <<blocks, removed, count, writer, failed>>
    BY <1>7 DEF ReleaseBytes
  <2>2. comp[c].block.pipe \in Pipelines /\ comp[c].block.size \in Int
    BY <1>1, <2>1, SizesAreWhole DEF Compacting, Block
  <2>3. ledger' \in [Pipelines -> Int]
    BY <1>1, <2>1, <2>2
  <2> QED
    BY <1>1, <1>2, <2>1, <2>3, CompBlocks
<1>8. CASE CompactionFails(c)
  BY <1>1, <1>2, <1>8, CompBlocks DEF CompactionFails
<1> QED
  BY <1>3, <1>4, <1>5, <1>6, <1>7, <1>8 DEF Compact

LEMMA NextBlocks ==
  ASSUME IsFiniteSet(Pipelines), BlocksTyped, [Next]_vars
  PROVE  BlocksTyped'
<1>1. CASE UNCHANGED vars
  BY <1>1 DEF vars, BlocksTyped, TypeOK
<1> QED
  BY <1>1, WriteBlocks, DenyBlocks, CompactBlocks DEF Next

-----------------------------------------------------------------------------
(* A set of natural numbers that is not empty has a least element, and a   *)
(* greatest when it is bounded.                                            *)
LEMMA LeastExists ==
  ASSUME NEW T, T \subseteq Nat, T # {}
  PROVE  \E i \in T : \A j \in T : i <= j
<1> DEFINE R == OpToRel(<, Nat)
<1>1. IsWellFoundedOn(R, Nat)
  BY NatLessThanWellFounded
<1>2. \A i, j \in Nat : j < i => <<j, i>> \in R
  BY DEF OpToRel
<1> HIDE DEF R
<1>3. PICK i \in T : \A j \in T : ~ (<<j, i>> \in R)
  BY <1>1, WFMin
<1>4. \A j \in T : ~ (j < i)
  BY <1>2, <1>3, Zenon
<1> QED
  BY <1>4

LEMMA GreatestExists ==
  ASSUME NEW n \in Nat, NEW T, T \subseteq 0..n, T # {}
  PROVE  \E i \in T : \A j \in T : j <= i
<1> DEFINE U == {n - i : i \in T}
<1>1. U \subseteq Nat /\ U # {}
  <2>1. \A i \in T : n - i \in Nat
    OBVIOUS
  <2> QED
    BY <2>1
<1> HIDE DEF U
<1>2. PICK u \in U : \A v \in U : u <= v
  BY <1>1, LeastExists
<1>3. PICK i \in T : u = n - i
  BY DEF U
<1>4. \A j \in T : n - j \in U
  BY DEF U
<1>5. \A j \in T : j <= i
  BY <1>2, <1>3, <1>4
<1> QED
  BY <1>5

-----------------------------------------------------------------------------
(* CipherTube.  There is a layer, and what is missing is neither a text    *)
(* nor a salt.                                                             *)
TubeHypotheses ==
  /\ {Locks, Layers, MaxTubes} \subseteq Nat /\ Layers # 0
  /\ \A m \in DOMAIN Messages : Messages[m].text # Missing
  /\ \A b, j : <<b, j>> # Missing

Text(b) == Messages[built[b].message].text
AllLayers == 0..Locks + Layers - 1

(* The place of the last tube of a layer, or 0.                            *)
Of(s, j) == {i \in DOMAIN s : s[i].layer = j}
LastOf(s, j) == Tubes!SelectLastInSeq(s, LAMBDA t : t.layer = j)

LEMMA LastTube ==
  ASSUME NEW T, NEW s \in Seq(T), NEW j
  PROVE  /\ LastOf(s, j) = 0 /\ Of(s, j) = {} /\ Tubes!Pooled(s, j) = Missing
         \/ /\ LastOf(s, j) # 0 /\ LastOf(s, j) \in Of(s, j)
            /\ Tubes!Pooled(s, j) = s[LastOf(s, j)].field
<1> DEFINE I == Of(s, j)
<1>1. Len(s) \in Nat /\ DOMAIN s = 1..Len(s)
  OBVIOUS
<1>2. I = {i \in 1..Len(s) : s[i].layer = j}
  BY <1>1 DEF Of
<1>3. LastOf(s, j) = IF I # {} THEN Tubes!Max(I) ELSE 0
  BY <1>2 DEF LastOf, Tubes!SelectLastInSeq
<1>4. Tubes!Pooled(s, j)
        = IF I = {} THEN Missing ELSE s[CHOOSE i \in I : \A k \in I : k <= i].field
  BY DEF Tubes!Pooled, Of
<1>5. CASE I = {}
  BY <1>3, <1>4, <1>5
<1>6. CASE I # {}
  <2>1. I \subseteq 0..Len(s) /\ 0 \notin I
    BY <1>1, <1>2
  <2> HIDE DEF I
  <2>2. \E i \in I : \A k \in I : k <= i
    BY <1>1, <1>6, <2>1, GreatestExists
  <2>3. PICK m : m = CHOOSE i \in I : \A k \in I : k <= i
    OBVIOUS
  <2>4. m \in I /\ \A k \in I : k <= m
    BY <2>2, <2>3
  <2>5. Tubes!Max(I) \in I /\ \A k \in I : Tubes!Max(I) >= k
    <3>1. \E i \in I : \A k \in I : i >= k
      BY <2>2, <2>1, <1>1
    <3> QED
      BY <3>1 DEF Tubes!Max
  <2>6. m = Tubes!Max(I)
    <3> PICK x : x = Tubes!Max(I)
      OBVIOUS
    <3>1. I \subseteq Nat
      BY <1>1, <2>1
    <3>3. m \in Nat /\ x \in Nat
      BY <2>4, <2>5, <3>1
    <3>2. m >= x /\ x >= m
      BY <2>4, <2>5
    <3> QED
      BY <3>2, <3>3
  <2> QED
    BY <1>3, <1>4, <1>6, <2>1, <2>3, <2>4, <2>6 DEF I
<1> QED
  BY <1>5, <1>6

(* A lock holds when it says what the text says, checked or compared.      *)
Says(s, i, text) == Tubes!Pooled(s, i) # Missing /\ Tubes!Pooled(s, i) = text

LEMMA LocksVerified ==
  ASSUME TubeHypotheses, NEW s, NEW text
  PROVE  Tubes!Verified(text, s) <=> \A i \in 0..Locks - 1 : Says(s, i, text)
<1> DEFINE Held(i) == \A k \in i..Locks - 1 : Says(s, k, text)
           Step(i) == /\ Tubes!Pooled(s, i) # Missing
                      /\ \/ i + 1 < Locks /\ Tubes!Pooled(s, i) = Tubes!Pooled(s, i + 1)
                         \/ Tubes!Pooled(s, i) = text
           F(f) == f = [i \in 0..Locks |-> \/ i = Locks
                                           \/ f[i + 1] /\ Step(i)]
           f == CHOOSE h : F(h)
<1>1. Locks \in Nat
  BY DEF TubeHypotheses
<1>2. Tubes!Verified(text, s) <=> f[0]
  BY DEF Tubes!Verified, Tubes!Hash
<1>3. ASSUME NEW i \in 0..Locks, i # Locks
      PROVE  Held(i) <=> Held(i + 1) /\ Step(i)
  <2>1. i..Locks - 1 = {i} \cup (i + 1)..(Locks - 1) /\ i \in Nat
    BY <1>1, <1>3
  <2>2. Held(i) <=> Held(i + 1) /\ Says(s, i, text)
    BY <2>1
  <2>3. Held(i + 1) /\ i + 1 < Locks => Tubes!Pooled(s, i + 1) = text
    <3>1. i + 1 < Locks => i + 1 \in (i + 1)..(Locks - 1)
      BY <1>1, <2>1
    <3> QED
      BY <3>1 DEF Says
  <2> QED
    BY <2>2, <2>3 DEF Says
<1>4. Held(Locks)
  BY <1>1
<1> HIDE DEF Held, Step
<1>5. F([i \in 0..Locks |-> Held(i)])
  <2> DEFINE g == [i \in 0..Locks |-> Held(i)]
  <2>1. ASSUME NEW i \in 0..Locks
        PROVE  Held(i) <=> i = Locks \/ (g[i + 1] /\ Step(i))
    <3>1. i # Locks => i + 1 \in 0..Locks
      BY <1>1
    <3> QED
      BY <1>3, <1>4, <3>1
  <2> HIDE DEF g
  <2> DEFINE R(i) == i = Locks \/ (g[i + 1] /\ Step(i))
  <2>3. \A i \in 0..Locks : Held(i) \in BOOLEAN /\ R(i) \in BOOLEAN
    BY Zenon DEF Held, Step
  <2>4. \A i \in 0..Locks : Held(i) = R(i)
    BY <2>1, <2>3, Zenon
  <2> HIDE DEF R
  <2>5. [i \in 0..Locks |-> Held(i)] = [i \in 0..Locks |-> R(i)]
    BY <2>4
  <2>2. [i \in 0..Locks |-> Held(i)] = [i \in 0..Locks |-> i = Locks \/ (g[i + 1] /\ Step(i))]
    BY <2>5 DEF R
  <2> QED
    BY <2>2 DEF g
<1>6. F(f)
  BY <1>5, Zenon
<1> HIDE DEF f
<1>7. \A i \in 0..Locks : f[i] <=> i = Locks \/ (f[i + 1] /\ Step(i))
  BY <1>6
<1>8. \A i \in 0..Locks : f[i] <=> Held(i)
  <2> DEFINE D == {n \in 0..Locks : ~ (f[Locks - n] <=> Held(Locks - n))}
  <2>1. SUFFICES ASSUME D # {} PROVE FALSE
    <3>1. \A i \in 0..Locks : Locks - i \in 0..Locks /\ Locks - (Locks - i) = i
      BY <1>1
    <3> QED
      BY <2>1, <3>1
  <2> PICK E : E = D
    OBVIOUS
  <2>10. E \subseteq Nat /\ E # {}
    BY <1>1, <2>1
  <2>2. PICK n \in E : \A j \in E : n <= j
    BY <2>10, LeastExists, Zenon
  <2>3. n \in 0..Locks /\ ~ (f[Locks - n] <=> Held(Locks - n))
    OBVIOUS
  <2>4. n # 0
    <3>1. Locks - 0 = Locks /\ Locks \in 0..Locks
      BY <1>1
    <3> QED
      BY <1>4, <1>7, <2>3, <3>1
  <2>5. n - 1 \in 0..Locks /\ ~ (n <= n - 1) /\ Locks - n \in 0..Locks /\ Locks - n # Locks
        /\ Locks - (n - 1) = Locks - n + 1
    BY <1>1, <2>3, <2>4
  <2>6. n - 1 \notin E
    BY <2>2, <2>5
  <2>7. f[Locks - n + 1] <=> Held(Locks - n + 1)
    BY <2>5, <2>6
  <2> QED
    BY <1>3, <1>7, <2>3, <2>5, <2>7
<1>9. f[0] <=> Held(0)
  BY <1>1, <1>8
<1> QED
  BY <1>2, <1>9 DEF Held

(* A tube of a request is one that was issued, or one that was damaged.    *)
Places == 1..Locks + Layers
Issue(c, k) == [layer |-> k - 1,
                field |-> IF k <= Locks THEN Text(c) ELSE <<c, k - 1>>]
Damaged(t) == [t EXCEPT !.field = Missing]
IsTube(t) ==
  \E c \in DOMAIN built, k \in Places : t = Issue(c, k) \/ t = Damaged(Issue(c, k))

LEMMA IssuedTubes ==
  /\ \A c : Tubes!TubesOf(c) = [k \in Places |-> Issue(c, k)]
  /\ \A t \in Tubes!Held : IsTube(t)
  /\ \A c \in DOMAIN built, k \in Places : Issue(c, k) \in Tubes!Held
<1>1. \A c : Tubes!TubesOf(c) = [k \in Places |-> Issue(c, k)]
  BY DEF Tubes!TubesOf, Tubes!Hash, Issue, Text, Places
<1>2. \A c : Tubes!ToSet(Tubes!TubesOf(c)) = {Issue(c, k) : k \in Places}
  BY <1>1 DEF Tubes!ToSet
<1>3. Tubes!Issued = UNION {{Issue(c, k) : k \in Places} : c \in DOMAIN built}
  BY <1>2 DEF Tubes!Issued
<1>4. \A t \in Tubes!Issued : \E c \in DOMAIN built, k \in Places : t = Issue(c, k)
  BY <1>3
<1>5. \A t \in Tubes!Held : IsTube(t)
  BY <1>4 DEF Tubes!Held, IsTube, Damaged
<1>6. \A c \in DOMAIN built, k \in Places : Issue(c, k) \in Tubes!Held
  BY <1>3 DEF Tubes!Held
<1> QED
  BY <1>1, <1>5, <1>6

LEMMA WithoutOne ==
  ASSUME NEW T, NEW s \in Seq(T), NEW i \in 1..Len(s)
  PROVE  SubSeq(s, 1, i - 1) \o SubSeq(s, i + 1, Len(s)) \in Seq(T)
OBVIOUS

LEMMA EditedTubes ==
  ASSUME TubeHypotheses, NEW s \in Seq(Tubes!Held), Len(s) # 0, NEW tubes \in Tubes!Edited(s)
  PROVE  tubes \in Seq(Tubes!Held)
<1>1. CASE \E i \in DOMAIN s : tubes = Tubes!RemoveAt(s, i)
  <2>1. PICK i \in 1..Len(s) : tubes = SubSeq(s, 1, i - 1) \o SubSeq(s, i + 1, Len(s))
    <3>1. PICK i \in DOMAIN s : tubes = Tubes!RemoveAt(s, i)
      BY <1>1
    <3>2. i \in 1..Len(s)
      OBVIOUS
    <3> QED
      BY <3>1, <3>2 DEF Tubes!RemoveAt
  <2> QED
    BY <2>1, WithoutOne
<1>2. CASE \E i \in DOMAIN s, t \in Tubes!Held : tubes = Tubes!ReplaceAt(s, i, t)
  BY <1>2 DEF Tubes!ReplaceAt
<1>3. CASE \E t \in Tubes!Held : tubes = Append(s, t)
  BY <1>3
<1>4. CASE \E t \in Tubes!Held : tubes = Tubes!Cons(t, s)
  BY <1>4 DEF Tubes!Cons
<1>5. CASE tubes = [i \in 1..MaxTubes + 1 |-> s[1]]
  <2>1. s[1] \in Tubes!Held /\ MaxTubes + 1 \in Nat
    BY DEF TubeHypotheses
  <2> QED
    BY <1>5, <2>1
<1> QED
  BY <1>1, <1>2, <1>3, <1>4, <1>5 DEF Tubes!Edited

LEMMA RequestsAreHeld ==
  ASSUME TubeHypotheses, NEW b \in DOMAIN built, NEW tubes \in Tubes!Requests(b)
  PROVE  tubes \in Seq(Tubes!Held)
<1>1. PICK s \in Tubes!Shuffled(b) : tubes \in Tubes!Edited(s)
  BY DEF Tubes!Requests
<1>2. PICK p \in [Places -> Places] : s = [i \in Places |-> Tubes!TubesOf(b)[p[i]]]
  BY DEF Tubes!Shuffled, Places
<1>3. \A i \in Places : Tubes!TubesOf(b)[p[i]] \in Tubes!Held
  BY <1>2, IssuedTubes
<1>4. Locks + Layers \in Nat /\ Locks + Layers # 0
  BY DEF TubeHypotheses
<1>5. s \in Seq(Tubes!Held) /\ Len(s) # 0
  <2> PICK n \in Nat : n = Locks + Layers
    BY <1>4
  <2>1. s \in [1..n -> Tubes!Held]
    BY <1>2, <1>3 DEF Places
  <2> QED
    BY <1>4, <2>1
<1> QED
  BY <1>1, <1>5, EditedTubes

(* The tube of a layer fits when it says what the layer needs.             *)
Fitting(b, s, l) ==
  LastOf(s, l) # 0 /\ \E c \in DOMAIN built :
    /\ s[LastOf(s, l)] = Tubes!TubesOf(c)[l + 1]
    /\ IF l < Locks THEN Text(c) = Text(b) ELSE b = c

LEMMA ElementOf ==
  ASSUME NEW T, NEW s \in Seq(T), NEW i \in DOMAIN s
  PROVE  s[i] \in T
OBVIOUS

LEMMA FittingLayer ==
  ASSUME TubeHypotheses, Tubes!TypeOK, NEW b \in DOMAIN built, NEW s \in Seq(Tubes!Held),
         NEW l \in AllLayers
  PROVE  IF l < Locks THEN Fitting(b, s, l) <=> Says(s, l, Text(b))
         ELSE Fitting(b, s, l) <=> Tubes!Pooled(s, l) # Missing /\ Tubes!Pooled(s, l) = <<b, l>>
<1>1. Locks \in Nat /\ Layers \in Nat /\ l \in Nat /\ l + 1 \in Places /\ l + 1 - 1 = l
      /\ (l < Locks <=> l + 1 <= Locks)
  BY DEF TubeHypotheses, AllLayers, Places
<1>2. \A c : Tubes!TubesOf(c)[l + 1]
               = [layer |-> l, field |-> IF l < Locks THEN Text(c) ELSE <<c, l>>]
  BY <1>1, IssuedTubes DEF Issue
<1>3. Text(b) # Missing /\ <<b, l>> # Missing
  <2>1. built[b] \in [message : DOMAIN Messages, seed : Seeds]
    <3>1. built \in Seq([message : DOMAIN Messages, seed : Seeds])
      BY DEF Tubes!TypeOK
    <3> QED
      BY <3>1, ElementOf
  <2>2. built[b].message \in DOMAIN Messages
    BY <2>1
  <2> QED
    BY <2>2 DEF Text, TubeHypotheses
<1>4. CASE LastOf(s, l) = 0 /\ Tubes!Pooled(s, l) = Missing
  BY <1>4 DEF Fitting, Says
<1>5. CASE /\ LastOf(s, l) # 0 /\ LastOf(s, l) \in Of(s, l)
           /\ Tubes!Pooled(s, l) = s[LastOf(s, l)].field
  <2> PICK t \in Tubes!Held : t = s[LastOf(s, l)]
    BY <1>5 DEF Of
  <2>1. t.layer = l /\ Tubes!Pooled(s, l) = t.field
    BY <1>5 DEF Of
  <2>2. PICK c \in DOMAIN built, k \in Places : t = Issue(c, k) \/ t = Damaged(Issue(c, k))
    BY IssuedTubes DEF IsTube
  <2>3. k - 1 = l /\ k = l + 1
    BY <1>1, <2>1, <2>2 DEF Issue, Damaged, Places
  <2>4. t.field # Missing => t = [layer |-> l, field |-> IF l < Locks THEN Text(c) ELSE <<c, l>>]
    BY <1>1, <2>2, <2>3 DEF Issue, Damaged
  <2>5. Fitting(b, s, l) <=> \E d \in DOMAIN built :
           /\ t = [layer |-> l, field |-> IF l < Locks THEN Text(d) ELSE <<d, l>>]
           /\ IF l < Locks THEN Text(d) = Text(b) ELSE b = d
    BY <1>2, <1>5 DEF Fitting
  <2>6. CASE l < Locks
    <3>4. Fitting(b, s, l)
            <=> \E d \in DOMAIN built : /\ t = [layer |-> l, field |-> Text(d)]
                                       /\ Text(d) = Text(b)
      BY <2>5, <2>6
    <3>1. Fitting(b, s, l) => t.field = Text(b)
      <4>1. \A d : [layer |-> l, field |-> Text(d)].field = Text(d)
        OBVIOUS
      <4> QED
        BY <3>4, <4>1
    <3>2. t.field = Text(b) => t = [layer |-> l, field |-> Text(c)] /\ Text(c) = Text(b)
      BY <1>3, <2>4, <2>6
    <3>3. t.field = Text(b) => Fitting(b, s, l)
      BY <3>2, <3>4
    <3> QED
      BY <1>3, <2>1, <2>6, <3>1, <3>3 DEF Says
  <2>7. CASE ~ (l < Locks)
    <3>4. Fitting(b, s, l)
            <=> \E d \in DOMAIN built : t = [layer |-> l, field |-> <<d, l>>] /\ b = d
      BY <2>5, <2>7
    <3>1. Fitting(b, s, l) => t.field = <<b, l>>
      <4>1. \A d : [layer |-> l, field |-> <<d, l>>].field = <<d, l>>
        OBVIOUS
      <4> QED
        BY <3>4, <4>1
    <3>2. t.field = <<b, l>> => t = [layer |-> l, field |-> <<b, l>>]
      BY <1>3, <2>4, <2>7
    <3>3. t.field = <<b, l>> => Fitting(b, s, l)
      BY <3>2, <3>4
    <3> QED
      BY <1>3, <2>1, <2>7, <3>1, <3>3
  <2> QED
    BY <2>6, <2>7
<1> QED
  BY <1>4, <1>5, LastTube

LEMMA AnswerIsExact ==
  ASSUME TubeHypotheses, Tubes!TypeOK, NEW b \in DOMAIN built, NEW seed,
         NEW s \in Seq(Tubes!Held)
  PROVE  Tubes!Opened(Tubes!CipherOf(b), seed, s) /\ Tubes!Verified(Text(b), s)
           <=> seed = built[b].seed /\ \A l \in AllLayers : Fitting(b, s, l)
<1> DEFINE Key(l) == Tubes!Pooled(s, l) # Missing /\ Tubes!Pooled(s, l) = <<b, l>>
           Outer == Locks..Locks + Layers - 1
<1>1. AllLayers = 0..(Locks - 1) \cup Outer /\ Locks \in Outer
  BY DEF TubeHypotheses, AllLayers
<1>2. Tubes!Opened(Tubes!CipherOf(b), seed, s)
        <=> \A j \in Outer : /\ Tubes!Pooled(s, j) # Missing
                             /\ built[b].seed = seed /\ <<b, j>> = Tubes!Pooled(s, j)
  BY DEF Tubes!Opened, Tubes!CipherOf
<1>3. Tubes!Opened(Tubes!CipherOf(b), seed, s)
        <=> seed = built[b].seed /\ \A j \in Outer : Key(j)
  BY <1>1, <1>2
<1>4. Tubes!Verified(Text(b), s) <=> \A i \in 0..Locks - 1 : Says(s, i, Text(b))
  BY LocksVerified
<1>5. \A i \in 0..Locks - 1 : i < Locks
  BY DEF TubeHypotheses
<1>6. \A i \in Outer : ~ (i < Locks)
  BY DEF TubeHypotheses
<1>7. \A i \in 0..Locks - 1 : Fitting(b, s, i) <=> Says(s, i, Text(b))
  BY <1>1, <1>5, FittingLayer
<1>8. \A i \in Outer : Fitting(b, s, i) <=> Key(i)
  BY <1>1, <1>6, FittingLayer
<1> HIDE DEF Key, Outer
<1> QED
  BY <1>1, <1>3, <1>4, <1>7, <1>8

-----------------------------------------------------------------------------
TubesInv == Tubes!TypeOK /\ Tubes!DecryptsExactly

Exact(b, seed, s, st, p) ==
  /\ st = 200 <=> seed = built[b].seed /\ \A l \in AllLayers : Fitting(b, s, l)
  /\ st = 200 => p = Text(b)

(* The answer to the last request is right.                                *)
AnswerExact ==
  asked # Missing /\ status \in {200, 400}
    => Exact(asked.of, asked.seed, asked.tubes, status, plain)

LEMMA ExactMeans == Tubes!DecryptsExactly <=> AnswerExact
BY DEF Tubes!DecryptsExactly, AnswerExact, Exact, Fitting, LastOf, Text, AllLayers

LEMMA ExactStillMeans == (Tubes!DecryptsExactly <=> AnswerExact)'
BY ExactMeans, PTL

LEMMA InitTubes == Tubes!Init => TubesInv
BY DEF Tubes!Init, TubesInv, Tubes!TypeOK, Tubes!DecryptsExactly

LEMMA DecryptTubes ==
  ASSUME TubeHypotheses, TubesInv, NEW b \in DOMAIN built, NEW seed \in Seeds,
         NEW tubes \in Tubes!Requests(b), Tubes!Decrypt(b, seed, tubes)
  PROVE  TubesInv'
<1> PICK st, p : st = status' /\ p = plain'
  OBVIOUS
<1>1. Exact(b, seed, tubes, st, p) \/ st \notin {200, 400}
  <2>1. \/ st \notin {200, 400}
        \/ IF Tubes!Opened(Tubes!CipherOf(b), seed, tubes) /\ Tubes!Verified(Text(b), tubes)
           THEN st = 200 ELSE st = 400
    BY DEF Tubes!Decrypt, Tubes!StatusOf, Text
  <2>2. st = 200 => p = Text(b)
    BY DEF Tubes!Decrypt, Text
  <2>3. Tubes!Opened(Tubes!CipherOf(b), seed, tubes) /\ Tubes!Verified(Text(b), tubes)
           <=> seed = built[b].seed /\ \A l \in AllLayers : Fitting(b, tubes, l)
    BY RequestsAreHeld, AnswerIsExact DEF TubesInv
  <2> QED
    BY <2>1, <2>2, <2>3 DEF Exact
<1>2. asked' = [of |-> b, seed |-> seed, tubes |-> tubes] /\ UNCHANGED built
  BY DEF Tubes!Decrypt
<1>3. /\ asked'.of = b /\ asked'.seed = seed /\ asked'.tubes = tubes
      /\ \A c : Tubes!TubesOf(c)' = Tubes!TubesOf(c)
  BY <1>2 DEF Tubes!TubesOf
<1>4. AnswerExact'
  BY <1>1, <1>2, <1>3 DEF AnswerExact, Exact, Fitting, Text
<1>5. Tubes!TypeOK'
  BY <1>2 DEF TubesInv, Tubes!TypeOK, Tubes!Decrypt, Tubes!StatusOf
<1> QED
  BY <1>4, <1>5, ExactStillMeans DEF TubesInv

LEMMA NextTubes ==
  ASSUME TubeHypotheses, TubesInv, [Tubes!Next]_tubeVars
  PROVE  TubesInv'
<1>1. CASE UNCHANGED tubeVars
  <2>1. \A c : Tubes!TubesOf(c)' = Tubes!TubesOf(c)
    BY <1>1 DEF tubeVars, Tubes!TubesOf
  <2>2. AnswerExact'
    BY <1>1, <2>1, ExactMeans DEF tubeVars, TubesInv, AnswerExact, Exact, Fitting, Text
  <2> QED
    BY <1>1, <2>2, ExactStillMeans DEF tubeVars, TubesInv, Tubes!TypeOK
<1>2. ASSUME asked = Missing, NEW m \in DOMAIN Messages, NEW seed \in Seeds,
             Tubes!Encrypt(m, seed)
      PROVE  TubesInv'
  <2>1. asked' = Missing /\ status' = status
    BY <1>2 DEF Tubes!Encrypt
  <2> PICK q \in [message : DOMAIN Messages, seed : Seeds] : q = [message |-> m, seed |-> seed]
    OBVIOUS
  <2>2. built' = Append(built, q)
    BY <1>2 DEF Tubes!Encrypt
  <2>3. built' \in Seq([message : DOMAIN Messages, seed : Seeds])
    BY <2>2 DEF TubesInv, Tubes!TypeOK
  <2> QED
    BY <2>1, <2>3 DEF TubesInv, Tubes!TypeOK, Tubes!DecryptsExactly
<1> QED
  BY <1>1, <1>2, DecryptTubes DEF Tubes!Next

-----------------------------------------------------------------------------
(* VaultIndexer.  What is packed are sequences of bytes, and an entry is   *)
(* not nothing.                                                            *)
VaultHypotheses ==
  /\ MaxFiles \in Nat
  /\ \E Bytes : Contents \subseteq Seq(Bytes)
  /\ \A p, o, s, t : [path |-> p, offset |-> o, size |-> s, tag |-> t] # Nothing

IsFiles(fs) == fs \in Seq([path : Paths, content : Contents])
Size(fs, i) == Len(fs[i].content)

LEMMA SizesOfFiles ==
  ASSUME VaultHypotheses, NEW fs, IsFiles(fs)
  PROVE  /\ Len(fs) \in Nat /\ DOMAIN fs = 1..Len(fs)
         /\ \A i \in DOMAIN fs : /\ Size(fs, i) \in Nat
                                 /\ DOMAIN fs[i].content = 1..Size(fs, i)
<1>1. Len(fs) \in Nat /\ DOMAIN fs = 1..Len(fs)
  BY DEF IsFiles
<1>2. PICK Bytes : Contents \subseteq Seq(Bytes)
  BY DEF VaultHypotheses
<1>3. ASSUME NEW i \in DOMAIN fs
      PROVE  Size(fs, i) \in Nat /\ DOMAIN fs[i].content = 1..Size(fs, i)
  <2>1. fs[i] \in [path : Paths, content : Contents]
    BY ElementOf DEF IsFiles
  <2>2. fs[i].content \in Seq(Bytes)
    BY <1>2, <2>1
  <2> QED
    BY <2>2 DEF Size
<1> QED
  BY <1>1, <1>3

(* Induction up to n, over a set, and what it gives: a function defined    *)
(* from one value to the next exists.                                      *)
LEMMA UpTo ==
  ASSUME NEW n \in Nat, NEW A, 0 \in A, \A i \in 1..n : i - 1 \in A => i \in A
  PROVE  \A i \in 0..n : i \in A
<1> PICK D : D = {i \in 0..n : i \notin A}
  OBVIOUS
<1>1. SUFFICES ASSUME D # {} PROVE FALSE
  OBVIOUS
<1>2. D \subseteq Nat
  OBVIOUS
<1>3. PICK m \in D : \A j \in D : m <= j
  BY <1>1, <1>2, LeastExists
<1>4. m \in 1..n /\ m - 1 \in 0..n /\ ~ (m <= m - 1)
  BY <1>2, <1>3
<1> QED
  BY <1>3, <1>4

Row(f, v, D, m) == f[0] = v /\ \A i \in 1..m : f[i] = D[<<f[i - 1], i>>]

LEMMA RowsExist ==
  ASSUME NEW n \in Nat, NEW V, NEW v \in V, NEW D,
         \A x \in V, i \in 1..n : D[<<x, i>>] \in V
  PROVE  \E f \in [0..n -> V] : Row(f, v, D, n)
<1> PICK A : A = {m \in 0..n : \E f \in [0..m -> V] : Row(f, v, D, m)}
  OBVIOUS
<1>1. 0 \in A
  <2>1. [i \in 0..0 |-> v] \in [0..0 -> V] /\ Row([i \in 0..0 |-> v], v, D, 0)
    BY DEF Row
  <2> QED
    BY <2>1
<1>2. ASSUME NEW m \in 1..n, m - 1 \in A
      PROVE  m \in A
  <2>1. PICK f \in [0..m - 1 -> V] : Row(f, v, D, m - 1)
    BY <1>2
  <2>2. m \in 0..n /\ m - 1 \in 0..m - 1 /\ m \notin 0..m - 1 /\ 0 \in 0..m - 1
        /\ 0..m = 0..(m - 1) \cup {m} /\ 1..m = 1..(m - 1) \cup {m}
        /\ \A i \in 1..m : i - 1 \in 0..m - 1
    OBVIOUS
  <2> PICK g : g = [i \in 0..m |-> IF i = m THEN D[<<f[m - 1], m>>] ELSE f[i]]
    OBVIOUS
  <2>3. f[m - 1] \in V
    BY <2>2
  <2>4. D[<<f[m - 1], m>>] \in V
    BY <2>3
  <2>5. g \in [0..m -> V]
    BY <2>2, <2>4
  <2>6. g[m] = D[<<f[m - 1], m>>] /\ \A i \in 0..m - 1 : g[i] = f[i]
    BY <2>2
  <2>7. Row(g, v, D, m)
    <3>1. g[0] = v
      BY <2>1, <2>2, <2>6 DEF Row
    <3>2. g[m] = D[<<g[m - 1], m>>]
      BY <2>2, <2>6
    <3>3. \A i \in 1..m - 1 : g[i] = D[<<g[i - 1], i>>]
      <4>1. \A i \in 1..m - 1 : i \in 0..m - 1 /\ i - 1 \in 0..m - 1
        OBVIOUS
      <4> QED
        BY <2>1, <2>6, <4>1 DEF Row
    <3> QED
      BY <2>2, <3>1, <3>2, <3>3 DEF Row
  <2> QED
    BY <2>2, <2>5, <2>7
<1>3. n \in A
  <2>1. \A i \in 0..n : i \in A
    BY <1>1, <1>2, UpTo
  <2> QED
    BY <2>1
<1> QED
  BY <1>3

(* The offset after each file is the sum of the sizes so far.              *)
OffsetsFollow(fs, f) == f[0] = 0 /\ \A i \in DOMAIN fs : f[i] = f[i - 1] + Size(fs, i)

LEMMA OffsetsAreSums ==
  ASSUME VaultHypotheses, NEW fs, IsFiles(fs)
  PROVE  /\ Vaults!Offsets(fs) \in [0..Len(fs) -> Nat]
         /\ OffsetsFollow(fs, Vaults!Offsets(fs))
<1> PICK n \in Nat : n = Len(fs)
  BY SizesOfFiles
<1> DEFINE Eq(f) == f = [i \in 0..n |-> IF i = 0 THEN 0 ELSE f[i - 1] + Size(fs, i)]
<1>1. DOMAIN fs = 1..n /\ \A i \in 1..n : Size(fs, i) \in Nat
  BY SizesOfFiles
<1> PICK D : D = [q \in Nat \X (1..n) |-> q[1] + Size(fs, q[2])]
  OBVIOUS
<1>2. \A x \in Nat, i \in 1..n : D[<<x, i>>] = x + Size(fs, i) /\ x + Size(fs, i) \in Nat
  BY <1>1
<1>3. PICK g \in [0..n -> Nat] : Row(g, 0, D, n)
  BY <1>2, RowsExist
<1>4. \A i \in 1..n : i \in 0..n /\ i - 1 \in 0..n /\ i # 0
  OBVIOUS
<1>5. \A i \in 0..n : g[i] = IF i = 0 THEN 0 ELSE g[i - 1] + Size(fs, i)
  <2>1. \A i \in 1..n : g[i] = g[i - 1] + Size(fs, i)
    BY <1>2, <1>3, <1>4 DEF Row
  <2>2. \A i \in 0..n : i = 0 \/ i \in 1..n
    OBVIOUS
  <2> QED
    BY <1>3, <2>1, <2>2 DEF Row
<1>6. Eq(g)
  BY <1>5
<1> DEFINE f == CHOOSE h : Eq(h)
<1>7. Vaults!Offsets(fs) = f
  BY DEF Vaults!Offsets, Size
<1>8. Eq(f)
  BY <1>6, Zenon
<1> HIDE DEF f
<1>9. f[0] = 0 /\ \A i \in 1..n : f[i] = f[i - 1] + Size(fs, i)
  BY <1>4, <1>8
<1>10. \A i \in 0..n : f[i] \in Nat
  <2> PICK A : A = {i \in 0..n : f[i] \in Nat}
    OBVIOUS
  <2>1. 0 \in A
    BY <1>9
  <2>2. \A i \in 1..n : i - 1 \in A => i \in A
    BY <1>1, <1>4, <1>9
  <2> QED
    BY <2>1, <2>2, UpTo
<1>11. f \in [0..n -> Nat]
  BY <1>8, <1>10
<1> QED
  BY <1>1, <1>7, <1>9, <1>11 DEF OffsetsFollow

LEMMA OffsetsGrow ==
  ASSUME VaultHypotheses, NEW fs, IsFiles(fs), NEW k \in 0..Len(fs), NEW i \in 0..k
  PROVE  Vaults!Offsets(fs)[i] <= Vaults!Offsets(fs)[k]
<1> PICK n \in Nat : n = Len(fs)
  BY SizesOfFiles
<1> PICK f : f = Vaults!Offsets(fs)
  OBVIOUS
<1>1. DOMAIN fs = 1..n /\ \A j \in 1..n : Size(fs, j) \in Nat
  BY SizesOfFiles
<1>2. f \in [0..n -> Nat] /\ \A j \in 1..n : f[j] = f[j - 1] + Size(fs, j)
  BY <1>1, OffsetsAreSums DEF OffsetsFollow
<1> PICK A : A = {m \in 0..n : \A j \in 0..m : f[j] <= f[m]}
  OBVIOUS
<1>3. 0 \in A
  BY <1>2
<1>4. ASSUME NEW m \in 1..n, m - 1 \in A
      PROVE  m \in A
  <2>1. m \in 0..n /\ m - 1 \in 0..n /\ 0..m = 0..(m - 1) \cup {m}
        /\ \A j \in 0..m - 1 : j \in 0..n
    OBVIOUS
  <2>2. \A j \in 0..m - 1 : f[j] <= f[m - 1]
    BY <1>4
  <2>3. f[m - 1] <= f[m]
    <3>1. f[m - 1] \in Nat /\ Size(fs, m) \in Nat /\ f[m] = f[m - 1] + Size(fs, m)
      BY <1>1, <1>2, <2>1
    <3> QED
      BY <3>1
  <2>4. \A j \in 0..m - 1 : f[j] <= f[m]
    <3> TAKE j \in 0..m - 1
    <3>1. f[j] \in Nat /\ f[m - 1] \in Nat /\ f[m] \in Nat
      BY <1>2, <2>1
    <3> QED
      BY <2>2, <2>3, <3>1
  <2>5. f[m] <= f[m]
    BY ONLY <1>2, <2>1
  <2> QED
    BY <2>1, <2>4, <2>5
<1>5. \A m \in 0..n : m \in A
  BY <1>3, <1>4, UpTo
<1> QED
  BY <1>5

(* What is written so far: of each file its bytes, from its offset.        *)
LEMMA SealedBytes ==
  ASSUME VaultHypotheses, NEW fs, IsFiles(fs)
  PROVE  \E T : \A i \in DOMAIN fs :
           /\ Vaults!Sealed(fs, i) \in Seq(T) /\ Len(Vaults!Sealed(fs, i)) = Size(fs, i)
           /\ \A j \in 1..Size(fs, i) :
                Vaults!Sealed(fs, i)[j] = <<i, j, fs[i].content[j]>>
<1> DEFINE T == {<<i, j, fs[i].content[j]>> : i \in DOMAIN fs, j \in Nat}
<1>1. ASSUME NEW i \in DOMAIN fs
      PROVE  /\ Vaults!Sealed(fs, i) \in Seq(T) /\ Len(Vaults!Sealed(fs, i)) = Size(fs, i)
             /\ \A j \in 1..Size(fs, i) :
                  Vaults!Sealed(fs, i)[j] = <<i, j, fs[i].content[j]>>
  <2> PICK m \in Nat : m = Size(fs, i)
    BY SizesOfFiles
  <2> PICK c : c = fs[i].content
    OBVIOUS
  <2>1. Vaults!Sealed(fs, i) = [j \in 1..m |-> <<i, j, c[j]>>]
    BY SizesOfFiles DEF Vaults!Sealed
  <2>2. \A j \in 1..m : <<i, j, c[j]>> \in T
    OBVIOUS
  <2> HIDE DEF T
  <2>3. Vaults!Sealed(fs, i) \in [1..m -> T]
    BY <2>1, <2>2
  <2> QED
    BY <2>1, <2>3
<1> HIDE DEF T
<1> QED
  BY <1>1

Written(fs, i, w) ==
  /\ Len(w) = Vaults!Offsets(fs)[i]
  /\ \A k \in 1..i : \A j \in 1..Size(fs, k) :
       w[Vaults!Offsets(fs)[k - 1] + j] = <<k, j, fs[k].content[j]>>

LEMMA OneMore ==
  ASSUME NEW T, NEW a \in Seq(T), NEW b \in Seq(T)
  PROVE  /\ a \o b \in Seq(T) /\ Len(a \o b) = Len(a) + Len(b)
         /\ \A j \in 1..Len(a) : (a \o b)[j] = a[j]
         /\ \A j \in 1..Len(b) : (a \o b)[Len(a) + j] = b[j]
OBVIOUS

LEMMA WriteOne ==
  ASSUME VaultHypotheses, NEW fs, IsFiles(fs), NEW i \in 1..Len(fs), NEW T, NEW w \in Seq(T),
         Written(fs, i - 1, w), Vaults!Sealed(fs, i) \in Seq(T)
  PROVE  Written(fs, i, w \o Vaults!Sealed(fs, i))
<1> PICK n \in Nat : n = Len(fs)
  BY SizesOfFiles
<1> PICK f, b : f = Vaults!Offsets(fs) /\ b = Vaults!Sealed(fs, i)
  OBVIOUS
<1>1. DOMAIN fs = 1..n /\ \A j \in 1..n : Size(fs, j) \in Nat
  BY SizesOfFiles
<1>2. f \in [0..n -> Nat] /\ \A j \in 1..n : f[j] = f[j - 1] + Size(fs, j)
  BY <1>1, OffsetsAreSums DEF OffsetsFollow
<1>3. Len(b) = Size(fs, i) /\ \A j \in 1..Size(fs, i) : b[j] = <<i, j, fs[i].content[j]>>
  BY <1>1, SealedBytes
<1> PICK v : v = w \o b
  OBVIOUS
<1>4. /\ Len(v) = Len(w) + Len(b) /\ \A j \in 1..Len(w) : v[j] = w[j]
      /\ \A j \in 1..Len(b) : v[Len(w) + j] = b[j]
  BY OneMore
<1>5. Len(w) = f[i - 1]
  BY DEF Written
<1>6. Len(v) = f[i]
  BY <1>2, <1>3, <1>4, <1>5
<1>7. ASSUME NEW k \in 1..i, NEW j \in 1..Size(fs, k)
      PROVE  v[f[k - 1] + j] = <<k, j, fs[k].content[j]>>
  <2>1. CASE k = i
    BY <1>3, <1>4, <1>5, <1>7, <2>1
  <2>2. CASE k # i
    <3>1. k \in 1..i - 1 /\ k \in 1..n /\ k - 1 \in 0..n /\ k \in 0..n /\ i - 1 \in 0..n
          /\ k \in 0..i - 1
      BY <2>2
    <3>2. f[k] <= f[i - 1]
      BY <3>1, OffsetsGrow
    <3>3. f[k - 1] \in Nat /\ f[k] \in Nat /\ f[i - 1] \in Nat /\ Size(fs, k) \in Nat
          /\ f[k] = f[k - 1] + Size(fs, k)
      BY <1>1, <1>2, <3>1
    <3>4. f[k - 1] + j \in 1..f[i - 1]
      BY ONLY <3>2, <3>3
    <3>5. v[f[k - 1] + j] = w[f[k - 1] + j]
      BY <1>4, <1>5, <3>4
    <3> QED
      BY <3>1, <3>5 DEF Written
  <2> QED
    BY <2>1, <2>2
<1> QED
  BY <1>6, <1>7 DEF Written

LEMMA RegionIsWritten ==
  ASSUME VaultHypotheses, NEW fs, IsFiles(fs)
  PROVE  \E T : Vaults!Region(fs) \in Seq(T) /\ Written(fs, Len(fs), Vaults!Region(fs))
<1> PICK n \in Nat : n = Len(fs)
  BY SizesOfFiles
<1> DEFINE Eq(f) ==
      f = [i \in 0..n |-> IF i = 0 THEN <<>> ELSE f[i - 1] \o Vaults!Sealed(fs, i)]
<1>1. DOMAIN fs = 1..n
  BY SizesOfFiles
<1>2. PICK T : \A i \in 1..n : Vaults!Sealed(fs, i) \in Seq(T)
  BY <1>1, SealedBytes
<1> PICK D : D = [q \in Seq(T) \X (1..n) |-> q[1] \o Vaults!Sealed(fs, q[2])]
  OBVIOUS
<1>3. \A x \in Seq(T), i \in 1..n : /\ D[<<x, i>>] = x \o Vaults!Sealed(fs, i)
                                    /\ x \o Vaults!Sealed(fs, i) \in Seq(T)
  BY <1>2, OneMore
<1>4. <<>> \in Seq(T)
  OBVIOUS
<1>5. PICK g \in [0..n -> Seq(T)] : Row(g, <<>>, D, n)
  BY <1>3, <1>4, RowsExist
<1>6. \A i \in 1..n : i \in 0..n /\ i - 1 \in 0..n /\ i # 0
  OBVIOUS
<1>7. \A i \in 0..n : g[i] = IF i = 0 THEN <<>> ELSE g[i - 1] \o Vaults!Sealed(fs, i)
  <2>1. \A i \in 1..n : g[i] = g[i - 1] \o Vaults!Sealed(fs, i)
    BY <1>3, <1>5, <1>6 DEF Row
  <2>2. \A i \in 0..n : i = 0 \/ i \in 1..n
    OBVIOUS
  <2> QED
    BY <1>5, <2>1, <2>2 DEF Row
<1>8. Eq(g)
  BY <1>7
<1> DEFINE f == CHOOSE h : Eq(h)
<1>9. Vaults!Region(fs) = f[n]
  BY DEF Vaults!Region
<1>10. Eq(f)
  BY <1>8, Zenon
<1> HIDE DEF f
<1>11. f[0] = <<>> /\ \A i \in 1..n : f[i] = f[i - 1] \o Vaults!Sealed(fs, i)
  <2>1. \A i \in 0..n : f[i] = IF i = 0 THEN <<>> ELSE f[i - 1] \o Vaults!Sealed(fs, i)
    BY <1>10
  <2>2. 0 \in 0..n
    OBVIOUS
  <2> QED
    BY <1>6, <2>1, <2>2, Zenon
<1> PICK A : A = {i \in 0..n : f[i] \in Seq(T) /\ Written(fs, i, f[i])}
  OBVIOUS
<1>12. 0 \in A
  <2>1. Vaults!Offsets(fs)[0] = 0
    BY OffsetsAreSums DEF OffsetsFollow
  <2>2. <<>> \in Seq(T) /\ Written(fs, 0, <<>>)
    BY <2>1 DEF Written
  <2>3. 0 \in 0..n /\ f[0] \in Seq(T) /\ Written(fs, 0, f[0])
    BY <1>11, <2>2
  <2> QED
    BY <2>3
<1>13. ASSUME NEW i \in 1..n, i - 1 \in A
       PROVE  i \in A
  <2>1. f[i - 1] \in Seq(T) /\ Written(fs, i - 1, f[i - 1])
    BY <1>13
  <2>2. f[i] \in Seq(T)
    BY <1>3, <1>11, <2>1
  <2>3. Written(fs, i, f[i])
    BY <1>2, <1>11, <2>1, WriteOne
  <2> QED
    BY <1>6, <2>2, <2>3
<1>14. \A i \in 0..n : i \in A
  BY <1>12, <1>13, UpTo
<1>15. n \in A
  BY <1>14
<1> QED
  BY <1>9, <1>15

(* What is left of the files region: it may be cut, and bytes be hurt.     *)
Kept(fs, p) ==
  /\ \E T : p \in Seq(T)
  /\ Len(p) <= Len(Vaults!Region(fs))
  /\ \A n \in 1..Len(p) : p[n] = <<0, 0, 0>> \/ p[n] = Vaults!Region(fs)[n]

LEMMA CutIsKept ==
  ASSUME NEW fs, NEW p, Kept(fs, p), Len(Vaults!Region(fs)) \in Nat, NEW n \in 0..Len(p)
  PROVE  Kept(fs, SubSeq(p, 1, n))
<1> PICK T : p \in Seq(T)
  BY DEF Kept
<1>1. /\ SubSeq(p, 1, n) \in Seq(T) /\ Len(SubSeq(p, 1, n)) = n
      /\ \A k \in 1..n : SubSeq(p, 1, n)[k] = p[k]
  OBVIOUS
<1> PICK q : q = SubSeq(p, 1, n)
  OBVIOUS
<1> PICK m \in Nat, r \in Nat : m = Len(p) /\ r = Len(Vaults!Region(fs))
  OBVIOUS
<1>2. n \in Nat /\ n <= r /\ \A k \in 1..n : k \in 1..m
  BY DEF Kept
<1>3. \A k \in 1..n : q[k] = <<0, 0, 0>> \/ q[k] = Vaults!Region(fs)[k]
  BY <1>1, <1>2 DEF Kept
<1> QED
  BY <1>1, <1>2, <1>3 DEF Kept

LEMMA HurtIsKept ==
  ASSUME NEW fs, NEW p, Kept(fs, p), NEW n \in DOMAIN p
  PROVE  Kept(fs, [p EXCEPT ![n] = <<0, 0, 0>>])
<1> PICK T : p \in Seq(T)
  BY DEF Kept
<1> PICK q, z : q = [p EXCEPT ![n] = z] /\ z = <<0, 0, 0>>
  OBVIOUS
<1>1. p \in Seq(T \cup {z}) /\ DOMAIN p = 1..Len(p)
  OBVIOUS
<1>2. q \in Seq(T \cup {z}) /\ Len(q) = Len(p)
  BY <1>1
<1>3. \A k \in 1..Len(p) : q[k] = z \/ q[k] = p[k]
  BY <1>1
<1> QED
  BY <1>2, <1>3 DEF Kept

(* The entry of a path is that of the first file with it.                  *)
FirstOf(fs, path) == Vaults!SelectInSeq(fs, LAMBDA f : f.path = path)

LEMMA FirstIsAFile ==
  ASSUME VaultHypotheses, NEW fs, IsFiles(fs), NEW path
  PROVE  /\ FirstOf(fs, path) = 0 \/ FirstOf(fs, path) \in DOMAIN fs
         /\ FirstOf(Vaults!Manifest(fs), path) = FirstOf(fs, path)
<1> PICK n \in Nat : n = Len(fs)
  BY SizesOfFiles
<1> PICK I : I = {i \in 1..n : fs[i].path = path}
  OBVIOUS
<1>1. DOMAIN fs = 1..n
  BY SizesOfFiles
<1>2. Len(Vaults!Manifest(fs)) = n
  BY <1>1 DEF Vaults!Manifest
<1>3. \A i \in 1..n : Vaults!Manifest(fs)[i].path = fs[i].path
  BY <1>1 DEF Vaults!Manifest
<1>4. I = {i \in 1..Len(Vaults!Manifest(fs)) : Vaults!Manifest(fs)[i].path = path}
  BY <1>2, <1>3
<1>5. FirstOf(fs, path) = IF I # {} THEN Vaults!Min(I) ELSE 0
  BY DEF FirstOf, Vaults!SelectInSeq
<1>6. FirstOf(Vaults!Manifest(fs), path) = IF I # {} THEN Vaults!Min(I) ELSE 0
  BY <1>4 DEF FirstOf, Vaults!SelectInSeq
<1>7. I # {} => Vaults!Min(I) \in I
  <2> SUFFICES ASSUME I # {} PROVE Vaults!Min(I) \in I
    OBVIOUS
  <2>1. I \subseteq Nat
    OBVIOUS
  <2>2. \E i \in I : \A j \in I : i <= j
    BY <2>1, LeastExists
  <2> QED
    BY <2>2 DEF Vaults!Min
<1> QED
  BY <1>1, <1>5, <1>6, <1>7

Piece(p, a, m) == SubSeq(p, a + 1, a + m)
Copied(s, p, a, m) == \A j \in 1..m : s[j] = p[a + j]

LEMMA PartOf ==
  ASSUME NEW T, NEW p \in Seq(T), NEW a \in Nat, NEW m \in Nat, a + m <= Len(p)
  PROVE  /\ Piece(p, a, m) \in Seq(T) /\ Len(Piece(p, a, m)) = m
         /\ Copied(Piece(p, a, m), p, a, m)
<1> PICK s : s = SubSeq(p, a + 1, a + m)
  OBVIOUS
<1>1. s \in Seq(T) /\ Len(s) = m
  OBVIOUS
<1>2. \A j \in 1..m : s[j] = p[a + j]
  OBVIOUS
<1> QED
  BY <1>1, <1>2, Zenon DEF Piece, Copied

LEMMA SameSequence ==
  ASSUME NEW T, NEW U, NEW p \in Seq(T), NEW q \in Seq(U), Len(p) = Len(q),
         \A j \in 1..Len(p) : p[j] = q[j]
  PROVE  p = q
OBVIOUS

(* The bytes of a file are its own where they say so, and its tag fits.    *)
Fits(fs, p, i, s) ==
  /\ s = Vaults!Sealed(fs, i)
       <=> \A n \in Vaults!Offsets(fs)[i - 1] + 1..Vaults!Offsets(fs)[i] : p[n][1] = i
  /\ s = Vaults!Sealed(fs, i) => [j \in DOMAIN s |-> s[j][3]] = fs[i].content

LEMMA BytesFit ==
  ASSUME VaultHypotheses, NEW fs, IsFiles(fs), NEW p, Kept(fs, p), NEW i \in DOMAIN fs,
         Vaults!Offsets(fs)[i] <= Len(p), NEW T, NEW s \in Seq(T), Len(s) = Size(fs, i),
         Copied(s, p, Vaults!Offsets(fs)[i - 1], Size(fs, i))
  PROVE  Fits(fs, p, i, s)
<1> PICK n \in Nat : n = Len(fs)
  BY SizesOfFiles
<1> PICK m \in Nat : m = Size(fs, i)
  BY SizesOfFiles
<1> PICK c : c = fs[i].content
  OBVIOUS
<1>1. i \in 1..n /\ DOMAIN c = 1..m /\ i - 1 \in 0..n /\ i \in 0..n /\ n \in 0..n
  BY SizesOfFiles
<1> PICK a \in Nat : a = Vaults!Offsets(fs)[i - 1]
  BY <1>1, OffsetsAreSums
<1>2. Vaults!Offsets(fs)[i] = a + m
  BY <1>1, OffsetsAreSums DEF OffsetsFollow
<1> PICK S : p \in Seq(S)
  BY DEF Kept
<1> PICK r \in Nat : r = Len(p)
  OBVIOUS
<1>10. a + m <= r
  BY <1>2
<1>3. s \in Seq(T) /\ Len(s) = m /\ \A j \in 1..m : s[j] = p[a + j]
  BY DEF Copied
<1> PICK t : t = Vaults!Sealed(fs, i)
  OBVIOUS
<1>4. PICK U : t \in Seq(U) /\ Len(t) = m /\ \A j \in 1..m : t[j] = <<i, j, c[j]>>
  BY SealedBytes
<1>5. \A j \in 1..m : Vaults!Region(fs)[a + j] = <<i, j, c[j]>>
  <2>1. Written(fs, n, Vaults!Region(fs))
    BY RegionIsWritten
  <2> QED
    BY <1>1, <2>1 DEF Written
<1>6. \A j \in 1..m : p[a + j] = <<0, 0, 0>> \/ p[a + j] = <<i, j, c[j]>>
  <2>1. \A j \in 1..m : a + j \in 1..r
    BY <1>10
  <2> QED
    BY <1>5, <2>1 DEF Kept
<1>7. s = t => \A k \in a + 1..a + m : p[k][1] = i
  <2> SUFFICES ASSUME s = t, NEW k \in a + 1..a + m PROVE p[k][1] = i
    OBVIOUS
  <2>1. k - a \in 1..m /\ a + (k - a) = k
    OBVIOUS
  <2>2. p[k] = <<i, k - a, c[k - a]>>
    BY <1>3, <1>4, <2>1
  <2> QED
    BY <2>2
<1>8. (\A k \in a + 1..a + m : p[k][1] = i) => s = t
  <2> SUFFICES ASSUME \A k \in a + 1..a + m : p[k][1] = i PROVE s = t
    OBVIOUS
  <2>1. ASSUME NEW j \in 1..m
        PROVE  s[j] = t[j]
    <3>1. a + j \in a + 1..a + m /\ i # 0
      BY <1>1, <1>2
    <3>2. p[a + j][1] = i
      BY <3>1
    <3>3. p[a + j] # <<0, 0, 0>>
      BY <3>1, <3>2
    <3> QED
      BY <1>3, <1>4, <1>6, <3>3
  <2> QED
    BY <1>3, <1>4, <2>1, SameSequence
<1>9. s = t => [j \in DOMAIN s |-> s[j][3]] = c
  <2> SUFFICES ASSUME s = t PROVE [j \in DOMAIN s |-> s[j][3]] = c
    OBVIOUS
  <2>1. DOMAIN s = 1..m /\ \A j \in 1..m : s[j][3] = c[j]
    BY <1>3, <1>4
  <2>2. c = [j \in 1..m |-> c[j]]
    <3>1. fs[i] \in [path : Paths, content : Contents]
      BY ElementOf DEF IsFiles
    <3>2. PICK Bytes : c \in Seq(Bytes)
      BY <3>1 DEF VaultHypotheses
    <3> QED
      BY <1>1, <3>2
  <2>3. [j \in DOMAIN s |-> s[j][3]] = [j \in 1..m |-> c[j]]
    BY <2>1
  <2> QED
    BY <2>2, <2>3
<1> QED
  BY <1>2, <1>7, <1>8, <1>9 DEF Fits

LEMMA SliceFits ==
  ASSUME VaultHypotheses, NEW fs, IsFiles(fs), NEW p, Kept(fs, p), NEW i \in DOMAIN fs,
         Vaults!Offsets(fs)[i] <= Len(p), NEW s,
         s = Piece(p, Vaults!Offsets(fs)[i - 1], Size(fs, i))
  PROVE  Fits(fs, p, i, s)
<1> PICK l \in Nat : l = Len(fs)
  BY SizesOfFiles
<1> PICK m \in Nat : m = Size(fs, i)
  BY SizesOfFiles
<1>1. i \in 1..l /\ i - 1 \in 0..l
  BY SizesOfFiles
<1> PICK a \in Nat : a = Vaults!Offsets(fs)[i - 1]
  BY <1>1, OffsetsAreSums
<1>2. a + m <= Len(p)
  BY <1>1, OffsetsAreSums DEF OffsetsFollow
<1> PICK T : p \in Seq(T)
  BY DEF Kept
<1>3. s = Piece(p, a, m)
  OBVIOUS
<1>4. s \in Seq(T) /\ Len(s) = m
  BY <1>2, <1>3, PartOf
<1>5. Copied(s, p, a, m)
  BY <1>2, <1>3, PartOf
<1> QED
  BY <1>4, <1>5, BytesFit

-----------------------------------------------------------------------------
(* A container has the index of the files and what is left of their bytes. *)
Container(v, fs) ==
  \E w, p : /\ v = [whole |-> w, index |-> Vaults!Manifest(fs), payload |-> p]
            /\ w \in BOOLEAN /\ Kept(fs, p)

VaultsInv ==
  /\ IsFiles(files)
  /\ vault # Nothing => Container(vault, files)
  /\ wanted # Nothing => vault # Nothing
  /\ Vaults!UnpackExactly

LEMMA TupleOf ==
  ASSUME NEW T, NEW n \in Nat, NEW s \in [1..n -> T]
  PROVE  s \in Seq(T)
OBVIOUS

(* What is returned, from the index and what is left.                      *)
Extracted(fs, w, p, k, path) ==
  LET i == FirstOf(fs, path)
      Unharmed == /\ w /\ Vaults!Offsets(fs)[i] <= Len(p)
                  /\ \A n \in Vaults!Offsets(fs)[i - 1] + 1..Vaults!Offsets(fs)[i] : p[n][1] = i
  IN IF i # 0 /\ k THEN IF Unharmed THEN fs[i].content ELSE Nothing ELSE Nothing

Unpacked ==
  wanted # Nothing =>
    found = Extracted(files, vault.whole, vault.payload, wanted.key = key, wanted.path)

LEMMA UnpackMeans == Vaults!UnpackExactly <=> Unpacked
BY DEF Vaults!UnpackExactly, Unpacked, Extracted, FirstOf

LEMMA UnpackStillMeans == (Vaults!UnpackExactly <=> Unpacked)'
BY UnpackMeans, PTL

LEMMA InitVaults == Vaults!Init => VaultsInv
BY DEF Vaults!Init, VaultsInv, IsFiles, Vaults!UnpackExactly

LEMMA RegionIsKept ==
  ASSUME VaultHypotheses, NEW fs, IsFiles(fs)
  PROVE  Kept(fs, Vaults!Region(fs)) /\ Len(Vaults!Region(fs)) \in Nat
<1> PICK r : r = Vaults!Region(fs)
  OBVIOUS
<1>1. PICK T : r \in Seq(T)
  BY RegionIsWritten
<1>2. Len(r) \in Nat /\ Len(r) <= Len(r)
  BY <1>1
<1> QED
  BY <1>1, <1>2 DEF Kept

LEMMA PackVaults ==
  ASSUME VaultHypotheses, VaultsInv, Vaults!Pack
  PROVE  VaultsInv'
<1>1. PICK fs \in UNION {[1..n -> [path : Paths, content : Contents]] : n \in 0..MaxFiles} :
        /\ files' = fs
        /\ \/ vault' = [whole |-> TRUE, index |-> Vaults!Manifest(fs), payload |-> Vaults!Region(fs)]
           \/ vault' = Nothing
  BY DEF Vaults!Pack
<1>2. IsFiles(fs)
  <2>1. PICK n \in 0..MaxFiles : fs \in [1..n -> [path : Paths, content : Contents]]
    BY <1>1
  <2>2. n \in Nat
    BY DEF VaultHypotheses
  <2> PICK T : T = [path : Paths, content : Contents]
    OBVIOUS
  <2>3. fs \in [1..n -> T]
    BY <2>1
  <2>4. fs \in Seq(T)
    BY <2>2, <2>3, TupleOf
  <2> QED
    BY <2>4 DEF IsFiles
<1>3. vault' # Nothing => Container(vault', fs)
  BY <1>1, <1>2, RegionIsKept DEF Container
<1>4. wanted' = wanted /\ wanted = Nothing
  BY DEF Vaults!Pack, VaultsInv
<1> QED
  BY <1>1, <1>2, <1>3, <1>4 DEF VaultsInv, Vaults!UnpackExactly

LEMMA DamageVaults ==
  ASSUME VaultHypotheses, VaultsInv, Vaults!Damage
  PROVE  VaultsInv'
<1>1. wanted' = Nothing /\ files' = files /\ IsFiles(files) /\ vault # Nothing
  BY DEF Vaults!Damage, VaultsInv
<1>2. PICK w, p : /\ vault = [whole |-> w, index |-> Vaults!Manifest(files), payload |-> p]
                  /\ w \in BOOLEAN /\ Kept(files, p)
  BY <1>1 DEF VaultsInv, Container
<1>3. \E u, q : /\ vault' = [whole |-> u, index |-> Vaults!Manifest(files), payload |-> q]
                /\ u \in BOOLEAN /\ Kept(files, q)
  <2>1. CASE \E n \in 0..Len(vault.payload) :
               vault' = [vault EXCEPT !.payload = SubSeq(@, 1, n)]
    <3>1. PICK n \in 0..Len(p) : vault' = [vault EXCEPT !.payload = SubSeq(vault.payload, 1, n)]
      BY <1>2, <2>1
    <3>2. Kept(files, SubSeq(p, 1, n))
      BY <1>1, <1>2, CutIsKept, RegionIsKept
    <3> PICK q : q = SubSeq(p, 1, n)
      OBVIOUS
    <3>3. vault' = [whole |-> w, index |-> Vaults!Manifest(files), payload |-> q]
      BY <1>2, <3>1
    <3> QED
      BY <1>2, <3>2, <3>3
  <2>2. CASE \E n \in DOMAIN vault.payload : vault' = [vault EXCEPT !.payload[n] = <<0, 0, 0>>]
    <3>1. PICK n \in DOMAIN p : vault' = [vault EXCEPT !.payload[n] = <<0, 0, 0>>]
      BY <1>2, <2>2
    <3>2. Kept(files, [p EXCEPT ![n] = <<0, 0, 0>>])
      BY <1>2, HurtIsKept
    <3> PICK q : q = [p EXCEPT ![n] = <<0, 0, 0>>]
      OBVIOUS
    <3>3. vault' = [whole |-> w, index |-> Vaults!Manifest(files), payload |-> q]
      BY <1>2, <3>1
    <3> QED
      BY <1>2, <3>2, <3>3
  <2>3. CASE vault' = [vault EXCEPT !.whole = FALSE]
    <3>1. vault' = [whole |-> FALSE, index |-> Vaults!Manifest(files), payload |-> p]
      BY <1>2, <2>3
    <3> QED
      BY <1>2, <3>1
  <2> QED
    BY <2>1, <2>2, <2>3 DEF Vaults!Damage
<1>4. Container(vault', files)
  BY <1>3 DEF Container
<1> QED
  BY <1>1, <1>4 DEF VaultsInv, Vaults!UnpackExactly

LEMMA UnpackVaults ==
  ASSUME VaultHypotheses, VaultsInv, NEW path \in Paths, NEW k \in Keys,
         Vaults!SelectiveUnpack(path, k)
  PROVE  VaultsInv'
<1>1. /\ vault # Nothing /\ UNCHANGED <<files, key, vault>> /\ IsFiles(files)
      /\ wanted' = [path |-> path, key |-> k]
  BY DEF Vaults!SelectiveUnpack, VaultsInv
<1>2. PICK w, p : /\ vault = [whole |-> w, index |-> Vaults!Manifest(files), payload |-> p]
                  /\ w \in BOOLEAN /\ Kept(files, p)
  BY <1>1 DEF VaultsInv, Container
<1> PICK fs, i : fs = files /\ i = FirstOf(files, path)
  OBVIOUS
<1>3. (i = 0 \/ i \in DOMAIN fs) /\ FirstOf(Vaults!Manifest(fs), path) = i
  BY <1>1, FirstIsAFile
<1>4. found' = Extracted(fs, w, p, k = key, path)
  <2>1. CASE i = 0
    <3>1. Vaults!EntryOf(path) = Nothing
      BY <1>2, <1>3, <2>1 DEF Vaults!EntryOf, FirstOf
    <3>2. found' = Nothing
      BY <3>1 DEF Vaults!SelectiveUnpack
    <3> QED
      BY <2>1, <3>2 DEF Extracted
  <2>2. CASE i # 0
    <3> PICK e : e = Vaults!Manifest(fs)[i]
      OBVIOUS
    <3>1. Vaults!EntryOf(path) = e
      BY <1>2, <1>3, <2>2 DEF Vaults!EntryOf, FirstOf
    <3>2. e = [path |-> fs[i].path, offset |-> Vaults!Offsets(fs)[i - 1], size |-> Size(fs, i),
               tag |-> Vaults!Sealed(fs, i)]
      BY <1>3, <2>2 DEF Vaults!Manifest, Vaults!Offset, Size
    <3>3. e # Nothing
      BY <3>2 DEF VaultHypotheses
    <3> PICK s : s = Piece(p, Vaults!Offsets(fs)[i - 1], Size(fs, i))
      OBVIOUS
    <3>4. Vaults!Slice(e) = s
      <4>1. /\ vault.payload = p /\ e.offset = Vaults!Offsets(fs)[i - 1]
            /\ e.size = Size(fs, i)
        BY <1>2, <3>2
      <4> QED
        BY <4>1 DEF Vaults!Slice, Piece
    <3>5. Vaults!Offsets(fs)[i - 1] + Size(fs, i) = Vaults!Offsets(fs)[i]
      BY <1>1, <1>3, <2>2, OffsetsAreSums DEF OffsetsFollow
    <3>6. Vaults!IsThere(e) <=> Vaults!Offsets(fs)[i] <= Len(p)
      BY <1>2, <3>2, <3>5 DEF Vaults!IsThere
    <3>7. found' = IF w /\ k = key
                   THEN IF Vaults!Offsets(fs)[i] <= Len(p) /\ s = Vaults!Sealed(fs, i)
                        THEN [j \in DOMAIN s |-> s[j][3]] ELSE Nothing
                   ELSE Nothing
      BY <1>2, <3>1, <3>2, <3>3, <3>4, <3>6 DEF Vaults!SelectiveUnpack
    <3>8. Vaults!Offsets(fs)[i] <= Len(p) => Fits(fs, p, i, s)
      BY <1>1, <1>2, <1>3, <2>2, SliceFits
    <3> QED
      BY <2>2, <3>7, <3>8 DEF Extracted, Fits
  <2> QED
    BY <2>1, <2>2
<1>5. vault.whole = w /\ vault.payload = p /\ wanted'.path = path /\ wanted'.key = k
  BY <1>1, <1>2
<1>6. Unpacked'
  BY <1>1, <1>4, <1>5 DEF Unpacked
<1> QED
  BY <1>1, <1>6, UnpackStillMeans DEF VaultsInv

LEMMA NextVaults ==
  ASSUME VaultHypotheses, VaultsInv, [Vaults!Next]_vaultVars
  PROVE  VaultsInv'
<1>1. CASE UNCHANGED vaultVars
  <2>1. Unpacked'
    BY <1>1, UnpackMeans DEF vaultVars, VaultsInv, Unpacked
  <2> QED
    BY <1>1, <2>1, UnpackStillMeans DEF vaultVars, VaultsInv
<1> QED
  BY <1>1, PackVaults, DamageVaults, UnpackVaults DEF Vaults!Next

-----------------------------------------------------------------------------
(* A step of the whole is a step of each part, or none.                    *)
LEMMA StorageStep ==
  ASSUME [StorageNext]_<<vars, verifierVars, ringVars, tubeVars, vaultVars>>
  PROVE  /\ [Next]_vars /\ [Verifier!Next]_verifierVars /\ [Ring!Next]_ringVars
         /\ [Tubes!Next]_tubeVars /\ [Vaults!Next]_vaultVars
BY DEF StorageNext

(* executeEmergencyCompaction: a block the node itself ingested is never   *)
(* purged, however many compactions overlap.                               *)
THEOREM LocalBlocksAreKept == StorageSpec => LocalBlocksStay
<1>1. StorageInit => PurgeInv
  BY InitPurge DEF StorageInit
<1>2. PurgeInv /\ [StorageNext]_<<vars, verifierVars, ringVars, tubeVars, vaultVars>>
        => PurgeInv' /\ [\A b \in blocks : b.origin = "LOCAL" => b \in blocks']_vars
  BY NextPurge, OnlyPeersLeave, StorageStep
<1> QED
  BY <1>1, <1>2, PTL DEF StorageSpec, LocalBlocksStay

(* blind_quota_manager.js: while no two compactions overlap, the ledger is *)
(* never behind the manifest and agrees with it until a call fails, and a  *)
(* quota is overrun by one chunk of each other writer at most: what was    *)
(* checked and not yet registered counts against the quota, too.           *)
THEOREM LedgerCoversBlocks ==
  ASSUME QuotaHypotheses
  PROVE  StorageSpec => []LedgerHolds
<1>1. StorageInit => QuotaInv
  BY InitQuota DEF StorageInit
<1>2. QuotaInv /\ [StorageNext]_<<vars, verifierVars, ringVars, tubeVars, vaultVars>> => QuotaInv'
  BY NextQuota, StorageStep
<1>3. QuotaInv => LedgerHolds
  BY QuotaLedgerHolds
<1> QED
  BY <1>1, <1>2, <1>3, PTL DEF StorageSpec

(* client_manifest_verifier.js:79-163, zk_signaling_ring.js:79-107: what   *)
(* is accepted was vouched for by the node it names, although the          *)
(* signature of a delegation does not cover that name, and what is obeyed  *)
(* was dispatched by the very node that obeys it: a key under which a node *)
(* is trusted, or signs frames, was never another's.                       *)
THEOREM DocumentsAreVouched ==
  ASSUME KeysSuffice, MaxTime \in Nat, RingHypotheses
  PROVE  StorageSpec => []SignedAndInTime
<1>1. StorageInit => VerifierInv /\ RingInv
  BY InitVerifies, InitRing DEF StorageInit
<1>2. /\ VerifierInv /\ RingInv
      /\ [StorageNext]_<<vars, verifierVars, ringVars, tubeVars, vaultVars>>
      => VerifierInv' /\ RingInv'
  BY NextVerifies, NextRing, StorageStep
<1>3. VerifierInv /\ RingInv => SignedAndInTime
  BY DEF VerifierInv, RingInv, SignedAndInTime
<1> QED
  BY <1>1, <1>2, <1>3, PTL DEF StorageSpec

(* cta.ts:52-305, VaultIndexer.ts:52-239: a ciphertext opens with its seed *)
(* and its own tubes, in whatever order and among whatever others, and     *)
(* with nothing else; a file is extracted from a container whole, as long  *)
(* as the index and its own bytes are what was packed.                     *)
THEOREM PackedIsUnpacked ==
  ASSUME TubeHypotheses, VaultHypotheses
  PROVE  StorageSpec => []PackedComesBack
<1>1. StorageInit => TubesInv /\ VaultsInv
  BY InitTubes, InitVaults DEF StorageInit
<1>2. /\ TubesInv /\ VaultsInv
      /\ [StorageNext]_<<vars, verifierVars, ringVars, tubeVars, vaultVars>>
      => TubesInv' /\ VaultsInv'
  BY NextTubes, NextVaults, StorageStep
<1>3. TubesInv /\ VaultsInv => PackedComesBack
  BY DEF TubesInv, VaultsInv, PackedComesBack
<1> QED
  BY <1>1, <1>2, <1>3, PTL DEF StorageSpec

(* The variables of the five components have their types.                  *)
TypesInv == BlocksTyped /\ VerifierInv /\ RingInv /\ TubesInv /\ VaultsInv

THEOREM StorageIsTyped ==
  ASSUME IsFiniteSet(Pipelines), KeysSuffice, MaxTime \in Nat, RingHypotheses,
         TubeHypotheses, VaultHypotheses
  PROVE  StorageSpec => []StorageTypeOK
<1>1. StorageInit => TypesInv
  BY InitBlocks, InitVerifies, InitRing, InitTubes, InitVaults DEF StorageInit, TypesInv
<1>2. TypesInv /\ [StorageNext]_<<vars, verifierVars, ringVars, tubeVars, vaultVars>> => TypesInv'
  BY NextBlocks, NextVerifies, NextRing, NextTubes, NextVaults, StorageStep DEF TypesInv
<1>3. TypesInv => StorageTypeOK
  <2>1. VaultsInv => Vaults!TypeOK
    BY DEF VaultsInv, Vaults!TypeOK, Container, IsFiles
  <2> QED
    BY <2>1 DEF TypesInv, StorageTypeOK, BlocksTyped, VerifierInv, RingInv, TubesInv
<1> QED
  BY <1>1, <1>2, <1>3, PTL DEF StorageSpec
-----------------------------------------------------------------------------
(* The safety half of CompactionFrees: a compaction comes nearer to its    *)
(* end with every step, and one that can free a block does.                *)
Remaining(q) ==
  CASE q.step = "idle"       -> 0
    [] q.step = "release"    -> 1
    [] q.step = "delete"     -> 2
    [] q.step = "remove"     -> 3
    [] q.step = "find"       -> 4 + Len(q.todo)
    [] q.step = "candidates" -> 5 + Cardinality(Pipelines)

(* A block from a peer is listed, and the compaction has it, or has not    *)
(* come to its pipeline yet.                                               *)
WillFree(q, listed) ==
  \/ q.step = "candidates" /\ \E b \in listed : b.origin = "PEER"
  \/ q.step = "find" /\ \E i \in DOMAIN q.todo, b \in listed : b.pipe = q.todo[i] /\ b.origin # "LOCAL"
  \/ q.step \in {"remove", "delete"}

Frees(c) ==
  /\ comp'[c] = comp[c] \/ comp[c].step = "idle" \/ Remaining(comp'[c]) < Remaining(comp[c])
  /\ WillFree(comp[c], blocks) /\ ~failed' =>
       WillFree(comp'[c], blocks') \/ comp'[c].step = "release"

(* A compaction that runs alone and examines every pipeline.               *)
AloneAndThorough ==
  /\ IsFiniteSet(Pipelines) /\ Cardinality(Pipelines) <= Examined
  /\ \A c, d \in Compactors : c = d

(* Candidates has every pipeline in it.                                    *)
LEMMA AllAreCandidates ==
  ASSUME IsFiniteSet(Pipelines), NEW s \in Candidates, NEW p \in Pipelines
  PROVE  /\ s \in Seq(Pipelines) /\ Len(s) = Cardinality(Pipelines)
         /\ \E i \in DOMAIN s : s[i] = p
<1>1. PICK n \in Nat : n = Cardinality(Pipelines)
  BY FS_CardinalityType
<1>2. /\ s \in [1..n -> Pipelines]
      /\ \A i, j \in 1..n : i # j => s[i] # s[j]
  BY <1>1 DEF Candidates
<1>3. s \in Injection(1..n, Pipelines)
  BY <1>2 DEF Injection, IsInjective
<1>4. Cardinality(1..n) = n
  BY FS_Interval
<1>5. s \in Surjection(1..n, Pipelines)
  BY <1>1, <1>3, <1>4, FS_Injection
<1>6. \E i \in 1..n : s[i] = p
  BY <1>5 DEF Surjection
<1> QED
  BY <1>1, <1>2, <1>6

LEMMA ReadFrees ==
  ASSUME AloneAndThorough, BlocksTyped, NEW c \in Compactors, ReadCandidates(c)
  PROVE  Frees(c)
<1>1. comp[c] \in Comp /\ comp[c].step = "candidates" /\ blocks \subseteq Block /\ blocks' = blocks
  BY DEF BlocksTyped, TypeOK, ReadCandidates
<1>2. PICK s \in Candidates :
        comp' = [comp EXCEPT ![c].step = "find", ![c].todo = SubSeq(s, 1, Min({Examined, Len(s)}))]
  BY DEF ReadCandidates
<1>3. PICK n \in Nat : n = Cardinality(Pipelines) /\ n <= Examined /\ IsFiniteSet(Pipelines)
  BY FS_CardinalityType DEF AloneAndThorough
<1>4. s \in Seq(Pipelines) /\ Len(s) = n
  <2>1. s \in [1..n -> Pipelines]
    BY <1>3 DEF Candidates
  <2> QED
    BY <2>1
<1>5. Min({Examined, n}) = n
  <2>1. n \in {Examined, n} /\ \A y \in {Examined, n} : n <= y
    BY <1>3, QuotaAssumption
  <2>2. Min({Examined, n}) \in {Examined, n} /\ \A y \in {Examined, n} : Min({Examined, n}) <= y
    BY <2>1 DEF Min
  <2> QED
    BY <2>1, <2>2, <1>3, QuotaAssumption
<1>6. SubSeq(s, 1, Min({Examined, Len(s)})) = s
  <2>1. SubSeq(s, 1, n) = s
    BY <1>4
  <2> QED
    BY <1>4, <1>5, <2>1
<1>7. comp'[c] = [comp[c] EXCEPT !.step = "find", !.todo = s]
  BY <1>1, <1>2, <1>6 DEF BlocksTyped
<1>8. comp'[c].step = "find" /\ comp'[c].todo = s
  BY <1>1, <1>7 DEF Comp
<1>9. Remaining(comp[c]) = 5 + n /\ Remaining(comp'[c]) = 4 + n
  BY <1>1, <1>3, <1>4, <1>8 DEF Remaining
<1>10. ASSUME NEW b \in blocks, b.origin = "PEER"
       PROVE  \E i \in DOMAIN s : b.pipe = s[i] /\ b.origin # "LOCAL"
  <2>1. b.pipe \in Pipelines
    BY <1>1 DEF Block
  <2> QED
    BY <1>3, <1>10, <2>1, AllAreCandidates
<1>11. WillFree(comp[c], blocks) => WillFree(comp'[c], blocks')
  BY <1>1, <1>8, <1>10 DEF WillFree
<1> QED
  BY <1>3, <1>9, <1>11 DEF Frees

LEMMA FindFrees ==
  ASSUME BlocksTyped, NEW c \in Compactors, FindBlock(c)
  PROVE  Frees(c)
<1>1. comp[c] \in Comp /\ comp[c].step = "find" /\ blocks' = blocks /\ comp \in [Compactors -> Comp]
  BY DEF BlocksTyped, FindBlock
<1>2. PICK n \in Nat : n = Len(comp[c].todo) /\ comp[c].todo \in Seq(Pipelines)
  BY <1>1 DEF Comp
<1>3. Remaining(comp[c]) = 4 + n
  BY <1>1, <1>2 DEF Remaining
<1>4. CASE comp[c].todo = <<>> /\ comp' = [comp EXCEPT ![c] = IdleComp]
  <2>1. comp'[c].step = "idle"
    BY <1>1, <1>4 DEF IdleComp
  <2>2. Remaining(comp'[c]) = 0
    BY <2>1 DEF Remaining
  <2>3. ~WillFree(comp[c], blocks)
    BY <1>1, <1>4 DEF WillFree
  <2> QED
    BY <1>3, <2>2, <2>3 DEF Frees
<1>5. CASE /\ comp[c].todo # <<>> /\ Purgeable(Head(comp[c].todo)) = {}
           /\ comp' = [comp EXCEPT ![c].todo = Tail(@)]
  <2> PICK s \in Seq(Pipelines) : s = comp[c].todo
    BY <1>2
  <2>1. comp'[c].step = "find" /\ comp'[c].todo = Tail(s)
    BY <1>1, <1>5 DEF Comp
  <2>2. /\ Tail(s) \in Seq(Pipelines) /\ n >= 1 /\ Len(Tail(s)) = n - 1
        /\ \A i \in 1..n - 1 : Tail(s)[i] = s[i + 1]
    BY <1>2, <1>5
  <2>3. Remaining(comp'[c]) = 4 + (n - 1)
    BY <2>1, <2>2 DEF Remaining
  <2>4. ASSUME NEW i \in DOMAIN s, NEW b \in blocks, b.pipe = s[i], b.origin # "LOCAL"
        PROVE  \E j \in DOMAIN Tail(s) : b.pipe = Tail(s)[j]
    <3>1. s[1] = Head(s) /\ i \in 1..n
      BY <1>2, <1>5
    <3>2. i # 1
      BY <1>5, <2>4, <3>1 DEF Purgeable
    <3>3. i - 1 \in 1..n - 1 /\ (i - 1) + 1 = i
      BY <3>1, <3>2
    <3>4. Tail(s)[i - 1] = s[i]
      BY <2>2, <3>3
    <3>5. i - 1 \in DOMAIN Tail(s)
      BY <2>2, <3>3
    <3> QED
      BY <2>4, <3>4, <3>5
  <2>5. WillFree(comp[c], blocks) => WillFree(comp'[c], blocks')
    BY <1>1, <2>1, <2>4 DEF WillFree
  <2> QED
    BY <1>3, <2>3, <2>5 DEF Frees
<1>6. CASE \E b : comp' = [comp EXCEPT ![c].step = "remove", ![c].block = b]
  <2>1. comp'[c].step = "remove"
    BY <1>1, <1>6 DEF Comp
  <2>2. Remaining(comp'[c]) = 3 /\ WillFree(comp'[c], blocks')
    BY <2>1 DEF Remaining, WillFree
  <2> QED
    BY <1>3, <2>2 DEF Frees
<1> QED
  BY <1>4, <1>5, <1>6 DEF FindBlock

LEMMA RestFrees ==
  ASSUME BlocksTyped, NEW c \in Compactors, RemoveObject(c) \/ DeleteBlock(c) \/ ReleaseBytes(c)
  PROVE  Frees(c)
<1>1. comp[c] \in Comp /\ comp \in [Compactors -> Comp]
  BY DEF BlocksTyped
<1>2. CASE RemoveObject(c)
  <2>1. comp[c].step = "remove" /\ comp'[c].step = "delete"
    BY <1>1, <1>2 DEF RemoveObject, Comp
  <2> QED
    BY <2>1 DEF Frees, Remaining, WillFree
<1>3. CASE DeleteBlock(c)
  <2>1. comp[c].step = "delete" /\ comp'[c].step = "release"
    BY <1>1, <1>3 DEF DeleteBlock, Comp
  <2> QED
    BY <2>1 DEF Frees, Remaining
<1>4. CASE ReleaseBytes(c)
  <2>1. comp[c].step = "release" /\ comp'[c].step = "idle"
    BY <1>1, <1>4 DEF ReleaseBytes, IdleComp
  <2> QED
    BY <2>1 DEF Frees, Remaining, WillFree
<1> QED
  BY <1>2, <1>3, <1>4

(* Writers only add blocks.                                                *)
LEMMA OthersFree ==
  ASSUME BlocksTyped, NEW c \in Compactors, blocks \subseteq blocks',
         comp'[c] = comp[c] \/ comp[c].step = "idle"
  PROVE  Frees(c)
BY DEF Frees, WillFree

LEMMA FailureFrees ==
  ASSUME IsFiniteSet(Pipelines), BlocksTyped, NEW c \in Compactors, CompactionFails(c)
  PROVE  Frees(c)
<1>1. comp[c] \in Comp /\ comp[c].step # "idle" /\ failed' /\ comp'[c].step = "idle"
  BY DEF BlocksTyped, CompactionFails, IdleComp
<1>2. Remaining(comp'[c]) = 0
  BY <1>1 DEF Remaining
<1>3. Remaining(comp[c]) \in Nat \ {0}
  <2>1. Cardinality(Pipelines) \in Nat /\ Len(comp[c].todo) \in Nat
    BY <1>1, FS_CardinalityType DEF Comp
  <2>2. comp[c].step \in CompSteps \ {"idle"}
    BY <1>1 DEF Comp
  <2> QED
    BY <2>1, <2>2 DEF CompSteps, Remaining
<1> QED
  BY <1>1, <1>2, <1>3 DEF Frees

LEMMA StepFrees ==
  ASSUME AloneAndThorough, BlocksTyped, [Next]_vars
  PROVE  \A c \in Compactors : Frees(c)
<1> SUFFICES ASSUME NEW c \in Compactors PROVE Frees(c)
  OBVIOUS
<1>1. CASE \E w \in Writers : Deny(w)
  <2>1. PICK d \in Compactors : comp[d].step = "idle" /\ blocks' = blocks
    BY <1>1 DEF Deny
  <2>2. c = d
    BY DEF AloneAndThorough
  <2> QED
    BY <2>1, <2>2, OthersFree
<1>2. CASE \E w \in Writers : Admit(w) \/ Write(w) \/ WriterFails(w)
  <2>1. comp' = comp /\ blocks \subseteq blocks'
    BY <1>2 DEF Admit, Write, CheckPipeline, AddToLedger, InsertBlock, WriterFails
  <2> QED
    BY <2>1, OthersFree
<1>3. CASE \E d \in Compactors : Compact(d) \/ CompactionFails(d)
  <2>1. Compact(c) \/ CompactionFails(c)
    BY <1>3 DEF AloneAndThorough
  <2> QED
    BY <2>1, ReadFrees, FindFrees, RestFrees, FailureFrees DEF Compact, AloneAndThorough
<1>4. CASE UNCHANGED vars
  BY <1>4, OthersFree DEF vars
<1> QED
  BY <1>1, <1>2, <1>3, <1>4 DEF Next

(* executeEmergencyCompaction: a compaction that runs alone, examines      *)
(* every pipeline and starts while a block from a peer is listed does not  *)
(* end without giving one up, unless a call throws, whatever is written    *)
(* meanwhile and in whatever order the pipelines are ranked; and every     *)
(* step brings it nearer to its end.                                       *)
THEOREM CompactionDelivers ==
  ASSUME AloneAndThorough
  PROVE  StorageSpec => [][\A c \in Compactors : Frees(c)]_vars
<1>1. StorageInit => BlocksTyped
  BY InitBlocks DEF StorageInit
<1>2. BlocksTyped /\ [StorageNext]_<<vars, verifierVars, ringVars, tubeVars, vaultVars>>
        => BlocksTyped' /\ [\A c \in Compactors : Frees(c)]_vars
  BY NextBlocks, StepFrees, StorageStep DEF AloneAndThorough
<1> QED
  BY <1>1, <1>2, PTL DEF StorageSpec
=============================================================================
