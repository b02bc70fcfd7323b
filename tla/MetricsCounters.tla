---------------------------- MODULE MetricsCounters ----------------------------
(***************************************************************************)
(* The counters of src/governance/metricsCounters.ts: every gateway        *)
(* process tallies what it counts and sends an increment of the current    *)
(* 60 s bucket to Redis without waiting for it; a snapshot reads the       *)
(* current and the previous bucket of every name the process has seen.     *)
(*                                                                         *)
(* Time is counted in buckets, which live far longer than two of them.     *)
(* The commands of one process reach Redis in the order it sent them; a    *)
(* broken connection loses those under way.                                *)
(***************************************************************************)
EXTENDS Integers, SequencesExt

CONSTANTS
  Processes,
  Names,     \* of counters
  MaxBumps,  \* bound: bumps of all processes
  MaxTime,   \* bound: the last bucket
  MayBreak   \* whether connections may break and processes restart

VARIABLES
  tally,    \* localTallies of each process; 0 for a name that is not in knownNames
  counts,   \* Redis: ct:metrics:<name>:<bucket>
  isOpen,   \* the Redis client of each process
  flight,   \* the commands each process has sent and Redis has not executed
  snap,     \* the snapshot each process is making
  report,   \* the last snapshot each process returned, and what it was to show
  bumped,   \* history: bumps of all processes
  now       \* bucketFor(now)

vars == <<tally, counts, isOpen, flight, snap, report, bumped, now>>

Buckets == -1..MaxTime
Zero == [n \in Names |-> 0]
Empty == [n \in Names |-> [b \in Buckets |-> 0]]
Window(count, bucket) == [n \in Names |-> count[n][bucket] + count[n][bucket - 1]]

Command == [op: {"INCR", "GET"}, name: Names, bucket: Buckets]

(* own: what a snapshot has to find of its process's own bumps. *)
NoSnap == [active |-> FALSE, bucket |-> 0, got |-> Zero, degraded |-> FALSE, own |-> Zero]
NoReport == [counters |-> Zero, degraded |-> TRUE, tally |-> Zero, low |-> Zero, high |-> Zero]

Init ==
  /\ tally = [p \in Processes |-> Zero]
  /\ counts = Empty
  /\ isOpen = [p \in Processes |-> FALSE]
  /\ flight = [p \in Processes |-> <<>>]
  /\ snap = [p \in Processes |-> NoSnap]
  /\ report = [p \in Processes |-> NoReport]
  /\ bumped = Empty
  /\ now = 0

-----------------------------------------------------------------------------
Incr(n, b) == [op |-> "INCR", name |-> n, bucket |-> b]

Total(count) == MapThenSumSet(LAMBDA n : MapThenSumSet(LAMBDA b : count[n][b], Buckets), Names)

(* bump: the tally always, Redis when the client is open. *)
Bump(p) ==
  /\ Total(bumped) < MaxBumps
  /\ \E n \in Names :
       /\ tally' = [tally EXCEPT ![p][n] = @ + 1]
       /\ flight' = IF isOpen[p]
                    THEN [flight EXCEPT ![p] = Append(@, Incr(n, now))]
                    ELSE flight
       /\ bumped' = [bumped EXCEPT ![n][now] = @ + 1]
  /\ UNCHANGED <<counts, isOpen, snap, report, now>>

Known(p) == {n \in Names : tally[p][n] > 0}

(* The reads of a snapshot, sent together: both buckets of every known name. *)
Reads(p) ==
  LET names == SetToSeq(Known(p))
  IN  [i \in 1..2 * Cardinality(Known(p)) |->
        [op |-> "GET", name |-> names[(i + 1) \div 2], bucket |-> IF i % 2 = 1 THEN now ELSE now - 1]]

Underway(p, n, b) == Cardinality({i \in DOMAIN flight[p] : flight[p][i] = Incr(n, b)})

(* metricsSnapshot with an open client. *)
StartSnapshot(p) ==
  /\ ~snap[p].active
  /\ isOpen[p]
  /\ flight' = [flight EXCEPT ![p] = @ \o Reads(p)]
  /\ snap' = [snap EXCEPT ![p] =
       [active |-> TRUE, bucket |-> now, got |-> Zero, degraded |-> FALSE,
        own |-> [n \in Names |-> IF n \in Known(p)
                                 THEN Window(counts, now)[n] + Underway(p, n, now)
                                      + Underway(p, n, now - 1)
                                 ELSE 0]]]
  /\ UNCHANGED <<tally, counts, isOpen, report, bumped, now>>

(* Redis executes the next command of a process. *)
RedisExecute(p) ==
  /\ flight[p] # <<>>
  /\ LET c == Head(flight[p]) IN
     /\ flight' = [flight EXCEPT ![p] = Tail(@)]
     /\ IF c.op = "INCR"
        THEN counts' = [counts EXCEPT ![c.name][c.bucket] = @ + 1] /\ UNCHANGED snap
        ELSE snap' = [snap EXCEPT ![p].got[c.name] = @ + counts[c.name][c.bucket]] /\ UNCHANGED counts
  /\ UNCHANGED <<tally, isOpen, report, bumped, now>>

(* Mutant: a read that fails is a count of 0. *)
BreakQuietly(p) ==
  /\ MayBreak
  /\ flight[p] # <<>>
  /\ flight' = [flight EXCEPT ![p] = <<>>]
  /\ UNCHANGED <<tally, counts, isOpen, snap, report, bumped, now>>

(* The connection breaks: what was sent is lost, and a read that is lost makes the
   snapshot a degraded one.  The client stays open. *)
Break(p) ==
  /\ MayBreak
  /\ flight[p] # <<>>
  /\ flight' = [flight EXCEPT ![p] = <<>>]
  /\ snap' = IF \E c \in ToSet(flight[p]) : c.op = "GET"
             THEN [snap EXCEPT ![p].degraded = TRUE]
             ELSE snap
  /\ UNCHANGED <<tally, counts, isOpen, report, bumped, now>>

(* The counters of a snapshot whose reads have all been answered: a name without a
   count in Redis falls back to the tally, and so do all when a read failed. *)
CountersOf(p) ==
  [n \in Names |-> IF snap[p].degraded \/ snap[p].got[n] = 0 THEN tally[p][n] ELSE snap[p].got[n]]

(* The snapshot is returned. *)
FinishSnapshot(p) ==
  /\ snap[p].active
  /\ \A c \in ToSet(flight[p]) : c.op # "GET"
  /\ report' = [report EXCEPT ![p] =
       [counters |-> CountersOf(p), degraded |-> snap[p].degraded, tally |-> tally[p],
        low |-> snap[p].own, high |-> Window(bumped, snap[p].bucket)]]
  /\ snap' = [snap EXCEPT ![p] = NoSnap]
  /\ UNCHANGED <<tally, counts, isOpen, flight, bumped, now>>

(* With a client that is not open there is nothing to wait for. *)
SnapshotClosed(p) ==
  /\ ~snap[p].active
  /\ ~isOpen[p]
  /\ report' = [report EXCEPT ![p] =
       [counters |-> tally[p], degraded |-> TRUE, tally |-> tally[p], low |-> Zero, high |-> Zero]]
  /\ UNCHANGED <<tally, counts, isOpen, flight, snap, bumped, now>>

-----------------------------------------------------------------------------
Connect(p) ==
  /\ ~isOpen[p]
  /\ isOpen' = [isOpen EXCEPT ![p] = TRUE]
  /\ UNCHANGED <<tally, counts, flight, snap, report, bumped, now>>

(* A process starts anew: everything in it is gone. *)
Restart(p) ==
  /\ MayBreak
  /\ isOpen[p]
  /\ tally' = [tally EXCEPT ![p] = Zero]
  /\ isOpen' = [isOpen EXCEPT ![p] = FALSE]
  /\ flight' = [flight EXCEPT ![p] = <<>>]
  /\ snap' = [snap EXCEPT ![p] = NoSnap]
  /\ report' = [report EXCEPT ![p] = NoReport]
  /\ UNCHANGED <<counts, bumped, now>>

Tick ==
  /\ now < MaxTime
  /\ now' = now + 1
  /\ UNCHANGED <<tally, counts, isOpen, flight, snap, report, bumped>>

Next ==
  \/ \E p \in Processes :
       \/ Bump(p) \/ StartSnapshot(p) \/ RedisExecute(p) \/ Break(p)
       \/ FinishSnapshot(p) \/ SnapshotClosed(p) \/ Connect(p) \/ Restart(p)
  \/ Tick

Spec == Init /\ [][Next]_vars

-----------------------------------------------------------------------------
TypeOK ==
  /\ tally \in [Processes -> [Names -> Nat]]
  /\ counts \in [Names -> [Buckets -> Nat]] /\ bumped \in [Names -> [Buckets -> Nat]]
  /\ isOpen \in [Processes -> BOOLEAN]
  /\ flight \in [Processes -> Seq(Command)]
  /\ \A p \in Processes : snap[p].got \in [Names -> Nat] /\ snap[p].degraded \in BOOLEAN
  /\ now \in 0..MaxTime

(* A snapshot that does not say it is degraded misses nothing that Redis had counted, or
   its own process had sent, when it started; and what it shows was bumped in its two
   buckets, or is its own process's tally. *)
HealthyIsComplete ==
  \A p \in Processes :
    ~report[p].degraded =>
      \A n \in Names :
        /\ report[p].counters[n] >= report[p].low[n]
        /\ \/ report[p].counters[n] <= report[p].high[n]
           \/ report[p].counters[n] = report[p].tally[n] /\ report[p].low[n] = 0
=============================================================================
