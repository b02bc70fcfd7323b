----------------------------- MODULE MCGovernance -----------------------------
(* The gateway's records and the server's limits for TLC: AuditTrail, MetricsCounters,
   LatencyWindow and Seasons.  They share no state, so that one takes steps only while the
   others are in their initial states.  A hash is the tuple it was computed from. *)
EXTENDS AuditTrail

CONSTANTS
  Processes, Names, MaxBumps, MaxTime, MayBreak,
  Latencies, WindowAge, MaxSamples, Skew, MaxArrivals,
  Base, LimitWindow, LastSeason, MaxHits, MaxEntries

VARIABLES
  tally, counts, isOpen, flight, snap, report, bumped, bucket,
  window, arrived, clock,
  epoch, strictness, ledger, hits, resets, season, served

counterVars == <<tally, counts, isOpen, flight, snap, report, bumped, bucket>>
windowVars == <<window, arrived, clock>>
mythVars == <<epoch, strictness, ledger, hits, resets, season, served>>

Counters == INSTANCE MetricsCounters WITH now <- bucket
Latency == INSTANCE LatencyWindow WITH now <- clock
Myth == INSTANCE Seasons WITH now <- season, MaxTime <- LastSeason, Window <- LimitWindow

GovernanceInit == Init /\ Counters!Init /\ Latency!Init /\ Myth!Init

(* Whoever has taken a step is the only one to take another. *)
GovernanceNext ==
  \/ /\ Counters!Init /\ Latency!Init /\ Myth!Init
     /\ Next
     /\ UNCHANGED <<counterVars, windowVars, mythVars>>
  \/ /\ Init /\ Latency!Init /\ Myth!Init
     /\ Counters!Next
     /\ UNCHANGED <<vars, windowVars, mythVars>>
  \/ /\ Init /\ Counters!Init /\ Myth!Init
     /\ Latency!Next
     /\ UNCHANGED <<vars, counterVars, mythVars>>
  \/ /\ Init /\ Counters!Init /\ Latency!Init
     /\ Myth!Next
     /\ UNCHANGED <<vars, counterVars, windowVars>>

GovernanceSpec ==
  /\ GovernanceInit
  /\ [][GovernanceNext]_<<vars, counterVars, windowVars, mythVars>>

-----------------------------------------------------------------------------
(* The variables of all have their types. *)
GovernanceTypeOK ==
  TypeOK /\ Counters!TypeOK /\ Latency!TypeOK /\ Myth!TypeOK

(* A snapshot that does not say it is degraded misses nothing. *)
HealthyIsComplete == Counters!HealthyIsComplete

(* The percentiles are the nearest-rank percentiles of the live samples. *)
NearestRank == Latency!NearestRank

(* No epoch serves more than its limit. *)
EpochBound == Myth!EpochBound

HashOf(prev, time, number, event) == <<prev, time, number, event>>
FirstHash == <<>>
Numbers == 0..2
Limits == [api |-> 10, session |-> 5]
Interchangeable == Permutations(Processes)
=============================================================================
