----------------------------- MODULE LatencyWindow -----------------------------
(***************************************************************************)
(* The latencies of one route in src/governance/metricsCounters.ts: a      *)
(* window of samples, cut by age and by number when a sample is added, and *)
(* the percentiles a snapshot computes from what is left.  The clock ticks *)
(* and may be set back, so samples may carry earlier times than those      *)
(* before them.                                                            *)
(***************************************************************************)
EXTENDS Integers, SequencesExt

CONSTANTS
  Latencies,   \* the values of ms
  WindowAge,   \* LATENCY_WINDOW_MS, in ticks
  MaxSamples,  \* MAX_SAMPLES_PER_ROUTE
  Skew,        \* bound: how far the clock may have been set back
  MaxArrivals, \* bound: samples ever observed
  MaxTime      \* bound: the last tick

VARIABLES
  window,   \* latencyWindows.get(route)
  arrived,  \* history: every sample observed
  now       \* the highest reading of the clock so far

vars == <<window, arrived, now>>

Sample == [at: 0..MaxTime, ms: Latencies]

Init == window = <<>> /\ arrived = <<>> /\ now = 0

-----------------------------------------------------------------------------
(* evictAged: the samples before the first that is not too old. *)
EvictAged(samples, cutoff) ==
  LET fresh == {i \in DOMAIN samples : samples[i].at >= cutoff}
  IN  IF fresh = {} THEN <<>> ELSE SubSeq(samples, Min(fresh), Len(samples))

(* Mutant: the cap is found one sample late. *)
Uncapped(samples) ==
  SubSeq(samples, Max({0, Len(samples) - MaxSamples - 1}) + 1, Len(samples))

(* The cap keeps the last MaxSamples. *)
LastSamples(samples) ==
  SubSeq(samples, Max({0, Len(samples) - MaxSamples}) + 1, Len(samples))

(* observeLatency: age is measured from the newest of the first, the last and the
   new sample. *)
Reference(at) ==
  IF window = <<>> THEN at ELSE Max({at, window[1].at, window[Len(window)].at})

Observe ==
  /\ Len(arrived) < MaxArrivals
  /\ \E at \in {t \in 0..now : now - t <= Skew}, ms \in Latencies :
       LET s == [at |-> at, ms |-> ms] IN
       /\ window' = LastSamples(EvictAged(Append(window, s), Reference(at) - WindowAge))
       /\ arrived' = Append(arrived, s)
  /\ UNCHANGED now

Tick ==
  /\ now < MaxTime
  /\ now' = now + 1
  /\ UNCHANGED <<window, arrived>>

Next == Observe \/ Tick

Spec == Init /\ [][Next]_vars

-----------------------------------------------------------------------------
(* metricsSnapshot: the places of the live samples, as of now. *)
Fresh(samples) == {i \in DOMAIN samples : samples[i].at >= now - WindowAge}

(* The live latencies sorted: in the k-th place, the one with k - 1 before it. *)
Sorted(samples) ==
  LET live == Fresh(samples)
      before == [i \in live |-> {j \in live : \/ samples[j].ms < samples[i].ms
                                              \/ samples[j].ms = samples[i].ms /\ j < i}]
  IN  [k \in 1..Cardinality(live) |->
         samples[CHOOSE i \in live : Cardinality(before[i]) = k - 1].ms]

(* Mutant: the rank is rounded down. *)
RankDown(p, n) == (p * n) \div 100

(* Math.ceil((p / 100) * n). *)
Rank(p, n) == (p * n + 99) \div 100

(* percentile of at least one live sample. *)
Percentile(samples, p) ==
  LET n == Cardinality(Fresh(samples)) IN Sorted(samples)[Min({n, Max({0, Rank(p, n) - 1}) + 1})]

-----------------------------------------------------------------------------
TypeOK ==
  /\ window \in Seq(Sample) /\ Len(window) <= MaxSamples
  /\ arrived \in Seq(Sample)
  /\ now \in 0..MaxTime

(* metricsCounters.ts:123: whatever times samples carry, p50 and p99 are the smallest
   latencies that half, or 99 of 100, of the live samples do not exceed, counted over
   every live one of the last MaxSamples that arrived: a delayed sample never costs one. *)
NearestRank ==
  LET live == {i \in Fresh(arrived) : i > Len(arrived) - MaxSamples}
      AtMost(v) == Cardinality({i \in live : arrived[i].ms <= v})
  IN  /\ (live = {}) = (Fresh(window) = {})
      /\ live # {} =>
           \A p \in {50, 99} :
             LET v == Percentile(window, p) IN
             /\ 100 * AtMost(v) >= p * Cardinality(live)
             /\ \A i \in live : arrived[i].ms < v => 100 * AtMost(arrived[i].ms) < p * Cardinality(live)
=============================================================================
