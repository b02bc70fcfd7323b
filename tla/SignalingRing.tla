---------------------------- MODULE SignalingRing ----------------------------
(***************************************************************************)
(* The live signaling ring: cyphertube-core/src/node/zk_signaling_ring.js. *)
(* The nodes of a stream pass signed frames to the next in their order.    *)
(*                                                                         *)
(* A window is named by its number: the stream is one.  A signature is the *)
(* key it was made with.  The network, which delivers a packet late, more  *)
(* than once, to anyone, or never, is external.                            *)
(***************************************************************************)
EXTENDS Integers, SequencesExt

CONSTANTS
  Order,      \* orderedPeerDids: a sequence of nodes
  Flags,      \* what a frame may signal, "LIVE_FAILOVER" among them
  Window,     \* WINDOW_DURATION_SEC
  MaxTime,    \* bound
  MaxKeys,    \* bound: how many key pairs are generated
  MaxSent     \* bound: how many frames are dispatched

Peers == ToSet(Order)
Windows == 0..(MaxTime \div Window)
NoRing == 0

VARIABLES
  now,
  activeRings,    \* the key each node holds for each window, or NoRing
  keys,           \* how many key pairs were generated; gives the next
  sent,           \* the packets the network holds
  forwarded,      \* forwarded_signals: what was written for each peer
  failover,       \* the windows whose routing_status is FAILOVER_ACTIVE
  obeyed          \* history: the packets that made a node write it, and when

vars == <<now, activeRings, keys, sent, forwarded, failover, obeyed>>

Packet == [sender: Peers, window: Windows, flag: Flags, time: 0..MaxTime, key: 1..MaxKeys]

Init ==
  /\ now = 0
  /\ activeRings = [n \in Peers |-> [w \in Windows |-> NoRing]]
  /\ keys = 0
  /\ sent = {}
  /\ forwarded = [n \in Peers |-> {}]
  /\ failover = {} /\ obeyed = {}

-----------------------------------------------------------------------------
CurrentWindow == now \div Window

NextPeer(n) ==
  LET at == CHOOSE i \in DOMAIN Order : Order[i] = n
  IN  Order[(at % Len(Order)) + 1]

(* A key pair of this node's own, for this window; an earlier one is lost, and the rings
   of windows that have passed stay. *)
InitializeLiveRing(n) ==
  /\ keys < MaxKeys
  /\ keys' = keys + 1
  /\ activeRings' = [activeRings EXCEPT ![n][CurrentWindow] = keys + 1]
  /\ UNCHANGED <<now, sent, forwarded, failover, obeyed>>

Forward(n, p) == forwarded' = [forwarded EXCEPT ![NextPeer(n)] = @ \cup {p}]

DispatchTransition(n, flag) ==
  /\ Cardinality(sent) < MaxSent
  /\ activeRings[n][CurrentWindow] # NoRing
  /\ LET p == [sender |-> n, window |-> CurrentWindow, flag |-> flag, time |-> now,
               key |-> activeRings[n][CurrentWindow]]
     IN  sent' = sent \cup {p} /\ Forward(n, p)
  /\ UNCHANGED <<now, activeRings, keys, failover, obeyed>>

(* Mutant: a frame is as good as the context of its window. *)
VerifiedInItsWindow(n, p) ==
  /\ activeRings[n][p.window] # NoRing
  /\ p.key = activeRings[n][p.window]

(* The frame is verified under this node's own key for the window, not the sender's. *)
Verified(n, p) ==
  /\ activeRings[n][p.window] # NoRing
  /\ p.key = activeRings[n][p.window]
  /\ now - p.time <= Window

HandleIncomingSignal(n, p) ==
  /\ Verified(n, p)
  /\ IF p.flag = "LIVE_FAILOVER"
     THEN /\ failover' = failover \cup {p.window}
          /\ obeyed' = obeyed \cup {[node |-> n, packet |-> p, at |-> now]}
     ELSE UNCHANGED <<failover, obeyed>>
  /\ IF p.sender # n THEN Forward(n, p) ELSE UNCHANGED forwarded
  /\ UNCHANGED <<now, activeRings, keys, sent>>

Tick ==
  /\ now < MaxTime
  /\ now' = now + 1
  /\ UNCHANGED <<activeRings, keys, sent, forwarded, failover, obeyed>>

Next ==
  \/ \E n \in Peers :
       \/ InitializeLiveRing(n)
       \/ \E flag \in Flags : DispatchTransition(n, flag)
       \/ \E p \in sent : HandleIncomingSignal(n, p)
  \/ Tick

Spec == Init /\ [][Next]_vars

-----------------------------------------------------------------------------
TypeOK ==
  /\ now \in 0..MaxTime
  /\ activeRings \in [Peers -> [Windows -> 0..MaxKeys]]
  /\ keys \in 0..MaxKeys
  /\ sent \subseteq Packet
  /\ forwarded \in [Peers -> SUBSET Packet]
  /\ failover \subseteq Windows
  /\ obeyed \subseteq [node: Peers, packet: Packet, at: 0..MaxTime]

(* zk_signaling_ring.js:79-107: a window fails over only by a frame at most one window old
   which the very node that obeys it dispatched, however frames are delayed and repeated and
   although the keys of past windows are kept for ever.  So no node ever obeys another. *)
FailoverIsFreshAndOwn ==
  /\ \A o \in obeyed : o.packet.sender = o.node /\ o.at - o.packet.time <= Window
  /\ \A w \in failover : \E o \in obeyed : o.packet.window = w
=============================================================================
