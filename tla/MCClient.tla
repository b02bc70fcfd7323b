------------------------------- MODULE MCClient -------------------------------
(* The client for TLC: OfflineQueue, PlaylistStore, SessionPage and ServiceWorker.  They
   share no state, so that one takes steps only while the others are in their initial
   states. *)
EXTENDS OfflineQueue, TLC

CONSTANTS
  Replicas, People, Owner, NoTarget, MaxTime, MaxEdits, MaxSealed, DistinctTimes,
  Ttl, Warning, Throttle, MaxDelay, MaxTokens, MaxPageTime,
  Assets, STATIC_ASSETS, MaxRelease, MaxFetches

VARIABLES
  doc, entries, seen, sealed, made,
  now, token, banner, timer, create, extend, expires, refreshed,
  release, caches, active, fetches, answer

playlistVars == <<doc, entries, seen, sealed, made>>
pageVars == <<now, token, banner, timer, create, extend, expires, refreshed>>
workerVars == <<release, caches, active, fetches, answer>>

Playlists == INSTANCE PlaylistStore
Page == INSTANCE SessionPage WITH MaxTime <- MaxPageTime
Worker == INSTANCE ServiceWorker

ClientInit == Init /\ Playlists!Init /\ Page!Init /\ Worker!Init

(* Whoever has taken a step is the only one to take another. *)
ClientNext ==
  \/ /\ Playlists!Init /\ Page!Init /\ Worker!Init
     /\ Next
     /\ UNCHANGED <<playlistVars, pageVars, workerVars>>
  \/ /\ Init /\ Page!Init /\ Worker!Init
     /\ Playlists!Next
     /\ UNCHANGED <<vars, pageVars, workerVars>>
  \/ /\ Init /\ Playlists!Init /\ Worker!Init
     /\ Page!Next
     /\ UNCHANGED <<vars, playlistVars, workerVars>>
  \/ /\ Init /\ Playlists!Init /\ Page!Init
     /\ Worker!Next
     /\ UNCHANGED <<vars, playlistVars, pageVars>>

ClientSpec == ClientInit /\ [][ClientNext]_<<vars, playlistVars, pageVars, workerVars>>

-----------------------------------------------------------------------------
(* The variables of all have their types. *)
ClientTypeOK == TypeOK /\ Playlists!TypeOK /\ Page!TypeOK /\ Worker!TypeOK

(* A merge shows the last-writer-wins element set. *)
LastWriterWins == Playlists!LastWriterWins

(* The page warns before its session has been gone for long. *)
WarnedInTime == Page!WarnedInTime

(* A worker answers with no installed asset older than itself. *)
StaticAssetsAreCurrent == Worker!StaticAssetsAreCurrent

Interchangeable == Permutations(Tabs) \cup Permutations(Drains) \cup Permutations(Replicas)
=============================================================================
