--------------------------- MODULE ManifestVerifier ---------------------------
(***************************************************************************)
(* The client's check of signed manifests: cyphertube-core/src/client/     *)
(* client_manifest_verifier.js.  A node delegates to an operation key for  *)
(* a time; the operation key signs manifests; any trusted node revokes it  *)
(* with a ticket.                                                          *)
(*                                                                         *)
(* A signature is what was signed and by which key; nobody signs with the  *)
(* key of another.  The nodes that sign, replace their keys, and send      *)
(* documents that are lost, late, repeated or put together from several,   *)
(* are external.                                                           *)
(***************************************************************************)
EXTENDS Integers, FiniteSets

CONSTANTS
  Nodes, NodeKeys,
  OpKeys,      \* the operation keys
  Unreadable,  \* those _importPublicKey cannot read: crypto.verify throws
  NoKey,
  MaxTime,     \* bound
  MaxSigned    \* bound: how many statements the nodes sign

VARIABLES
  now,
  own,         \* the key each node signs with
  signed,      \* every statement signed by a node
  trustedNodes, revocationBlacklist,
  taken,       \* history: the operation keys revoked by tickets the client took
  accepted     \* the manifest verified last, or none

vars == <<now, own, signed, trustedNodes, revocationBlacklist, taken, accepted>>

Times == 0..MaxTime
Statements ==
  [kind: {"delegation", "ticket"}, signer: Nodes, key: NodeKeys, op: OpKeys, until: Times]

(* What a manifest says of itself, with the signatures it carries. *)
Manifest == [issuer: Nodes, op: OpKeys, until: Times, delegation: signed, genuine: BOOLEAN]

Init ==
  /\ now = 0
  /\ own = CHOOSE f \in [Nodes -> NodeKeys] : \A n, m \in Nodes : f[n] = f[m] => n = m
  /\ signed = {}
  /\ trustedNodes = [n \in Nodes |-> NoKey]
  /\ revocationBlacklist = {} /\ taken = {} /\ accepted = {}

-----------------------------------------------------------------------------
(* Mutant: a node registered again, with its new key, starts with no revocations. *)
RegisterAfresh(n) ==
  /\ trustedNodes' = [trustedNodes EXCEPT ![n] = own[n]]
  /\ revocationBlacklist' = {}
  /\ accepted' = {}
  /\ UNCHANGED <<now, own, signed, taken>>

RegisterTrustedNode(n) ==
  /\ trustedNodes' = [trustedNodes EXCEPT ![n] = own[n]]
  /\ accepted' = {}
  /\ UNCHANGED <<now, own, signed, revocationBlacklist, taken>>

(* The signature covers neither the node nor which nodes may revoke the key: any ticket
   under the key held for the node it names is taken, and any other raises an error. *)
IngestRevocationTicket(s, n) ==
  /\ s.kind = "ticket"
  /\ s.key = trustedNodes[n]
  /\ revocationBlacklist' = revocationBlacklist \cup {s.op}
  /\ taken' = taken \cup {s.op}
  /\ accepted' = {}
  /\ UNCHANGED <<now, own, signed, trustedNodes>>

(* Mutant: the delegation is verified under the key of any trusted node. *)
DelegatedByAny(m) ==
  /\ m.delegation.kind = "delegation"
  /\ \E n \in Nodes : m.delegation.key = trustedNodes[n]
  /\ m.delegation.op = m.op /\ m.delegation.until = m.until

(* The delegation token's signature, under the key held now for its issuer. *)
Delegated(m) ==
  /\ m.delegation.kind = "delegation"
  /\ m.delegation.key = trustedNodes[m.issuer]
  /\ m.delegation.op = m.op /\ m.delegation.until = m.until

(* Every other outcome is an error, and changes nothing. *)
VerifyManifest(m) ==
  /\ m.op \notin revocationBlacklist
  /\ now <= m.until
  /\ trustedNodes[m.issuer] # NoKey
  /\ Delegated(m)
  /\ m.op \notin Unreadable /\ m.genuine
  /\ accepted' = {m}
  /\ UNCHANGED <<now, own, signed, trustedNodes, revocationBlacklist, taken>>

-----------------------------------------------------------------------------
Sign(n) ==
  /\ Cardinality(signed) < MaxSigned
  /\ \E kind \in {"delegation", "ticket"}, op \in OpKeys, until \in Times :
       /\ kind = "ticket" => until = 0
       /\ signed' = signed \cup
            {[kind |-> kind, signer |-> n, key |-> own[n], op |-> op, until |-> until]}
  /\ accepted' = {}
  /\ UNCHANGED <<now, own, trustedNodes, revocationBlacklist, taken>>

(* A node replaces its key by one that was nobody's. *)
ReplaceKey(n) ==
  /\ \E k \in NodeKeys \ ({own[m] : m \in Nodes} \cup {s.key : s \in signed}) :
       /\ \A m \in Nodes : trustedNodes[m] # k
       /\ own' = [own EXCEPT ![n] = k]
  /\ accepted' = {}
  /\ UNCHANGED <<now, signed, trustedNodes, revocationBlacklist, taken>>

Tick ==
  /\ now < MaxTime
  /\ now' = now + 1
  /\ accepted' = {}
  /\ UNCHANGED <<own, signed, trustedNodes, revocationBlacklist, taken>>

Next ==
  \/ \E n \in Nodes : RegisterTrustedNode(n) \/ Sign(n) \/ ReplaceKey(n)
  \/ \E s \in signed, n \in Nodes : IngestRevocationTicket(s, n)
  \/ \E m \in Manifest : VerifyManifest(m)
  \/ Tick

Spec == Init /\ [][Next]_vars

-----------------------------------------------------------------------------
TypeOK ==
  /\ now \in Times
  /\ own \in [Nodes -> NodeKeys]
  /\ signed \subseteq Statements
  /\ trustedNodes \in [Nodes -> NodeKeys \cup {NoKey}]
  /\ revocationBlacklist \subseteq OpKeys /\ taken \subseteq OpKeys
  /\ accepted \subseteq Manifest

(* client_manifest_verifier.js:79-163: a manifest that is accepted has an operation key which
   the node it names really delegated to, for a time that has not passed, and which no ticket
   the client took before has revoked: whichever keys were replaced and registered again,
   although the signature of the delegation does not cover the node's name. *)
AcceptedIsVouched ==
  \A m \in accepted :
    /\ \E s \in signed : s.kind = "delegation" /\ s.signer = m.issuer /\ s.op = m.op /\ s.until >= now
    /\ m.op \notin taken
=============================================================================
