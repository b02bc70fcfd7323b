------------------------------ MODULE MCStorage ------------------------------
(* What nodes store, sign and pack for TLC: BlindQuota, ManifestVerifier, SignalingRing,
   CipherTube and Vault.  They share no state, so that one takes steps only while the
   others are in their initial states. *)
EXTENDS BlindQuota

CONSTANTS
  Nodes, NodeKeys, OpKeys, Unreadable, NoKey, MaxSigned, MaxTime,
  Order, Flags, Window, MaxKeys, MaxSent, MaxRingTime,
  Locks, Layers, MaxTubes, Seeds, Messages, BodyLimit, TubeSize, LayerSize, MaxBuilds, Missing,
  Paths, Contents, MaxFiles, Keys, MaxVaultSize, HeaderSize, EntrySize, Nothing

VARIABLES
  now, own, signed, trustedNodes, revocationBlacklist, taken, accepted,
  clock, activeRings, keys, sent, forwarded, failover, obeyed,
  built, asked, status, plain,
  files, key, vault, wanted, found

verifierVars == <<now, own, signed, trustedNodes, revocationBlacklist, taken, accepted>>
ringVars == <<clock, activeRings, keys, sent, forwarded, failover, obeyed>>
tubeVars == <<built, asked, status, plain>>
vaultVars == <<files, key, vault, wanted, found>>

Verifier == INSTANCE ManifestVerifier
Ring == INSTANCE SignalingRing WITH now <- clock, MaxTime <- MaxRingTime
Tubes == INSTANCE CipherTube
Vaults == INSTANCE Vault WITH asked <- wanted

StorageInit == Init /\ Verifier!Init /\ Ring!Init /\ Tubes!Init /\ Vaults!Init

(* Whoever has taken a step is the only one to take another. *)
StorageNext ==
  \/ /\ Verifier!Init /\ Ring!Init /\ Tubes!Init /\ Vaults!Init
     /\ Next
     /\ UNCHANGED <<verifierVars, ringVars, tubeVars, vaultVars>>
  \/ /\ Init /\ Ring!Init /\ Tubes!Init /\ Vaults!Init
     /\ Verifier!Next
     /\ UNCHANGED <<vars, ringVars, tubeVars, vaultVars>>
  \/ /\ Init /\ Verifier!Init /\ Tubes!Init /\ Vaults!Init
     /\ Ring!Next
     /\ UNCHANGED <<vars, verifierVars, tubeVars, vaultVars>>
  \/ /\ Init /\ Verifier!Init /\ Ring!Init /\ Vaults!Init
     /\ Tubes!Next
     /\ UNCHANGED <<vars, verifierVars, ringVars, vaultVars>>
  \/ /\ Init /\ Verifier!Init /\ Ring!Init /\ Tubes!Init
     /\ Vaults!Next
     /\ UNCHANGED <<vars, verifierVars, ringVars, tubeVars>>

StorageSpec ==
  /\ StorageInit
  /\ [][StorageNext]_<<vars, verifierVars, ringVars, tubeVars, vaultVars>>
  /\ Fairness

-----------------------------------------------------------------------------
(* The variables of all have their types. *)
StorageTypeOK ==
  TypeOK /\ Verifier!TypeOK /\ Ring!TypeOK /\ Tubes!TypeOK /\ Vaults!TypeOK

(* What is obeyed was signed by whom it had to be, in time, and is not revoked. *)
SignedAndInTime == Verifier!AcceptedIsVouched /\ Ring!FailoverIsFreshAndOwn

(* What was packed comes back as it was, or not at all. *)
PackedComesBack == Tubes!DecryptsExactly /\ Vaults!UnpackExactly

(* Quotas are overrun by the checks under way at most, and the ledger covers the blocks. *)
LedgerHolds == OverrunBounded /\ LedgerMatchesManifest

UnitChunks == {1}
Ordered == <<"r1", "r2">>
SomeMessages ==
  [m1 |-> [text |-> <<1>>, size |-> 10],
   odd |-> [text |-> <<2>>, size |-> 10],
   long |-> [text |-> <<3>>, size |-> 90]]
SomeContents == {<<>>, <<1>>, <<1, 2>>}
=============================================================================
