-------------------------------- MODULE P2P --------------------------------
(***************************************************************************)
(* The peer-to-peer layer of one engine: the registrations of peers on the *)
(* state chain and how they reach the control loop of the node; the        *)
(* connections the loop keeps to the other validators, with their socket   *)
(* monitor, the reconnection timers and the check for inactivity; the list *)
(* of keys the authenticator lets in; and the multiplexer that hands a     *)
(* message to the client of its chain.                                     *)
(*                                                                         *)
(* Sockets and their handshakes are ZeroMQ's and external: a socket of a   *)
(* connected peer may report that a handshake failed or succeeded at any   *)
(* time, and reports made before the socket was dropped are still          *)
(* delivered.  Delays are counted in units of RECONNECT_INTERVAL, and the  *)
(* timers of several reconnections may fire in any order.  A peer is idle  *)
(* once more than MAX_INACTIVITY_THRESHOLD has passed without a message to *)
(* it.                                                                     *)
(***************************************************************************)
EXTENDS Naturals, Sequences, FiniteSets, Functions, FiniteSetsExt

CONSTANTS
  Networks,                \* [initial, ours, registrations, deregistrations, failures,
                           \*  successes, idles, sends, incoming, unreadable]
  Us,                      \* our_account_id
  OtherPeers,              \* the other validators
  PeerKeys, PeerAddresses, \* x25519 keys and (ip, port) pairs
  ReconnectIntervalMax     \* RECONNECT_INTERVAL_MAX in units of RECONNECT_INTERVAL

VARIABLES
  network,                 \* what is left of the budgets of this behaviour
  peer_registry,           \* AccountPeerMapping and MappedPeers of the validator pallet
  unread_blocks,           \* the updates in the finalized blocks not yet read
  p2p_phase,               \* "Registering" our own info, "Ready", "Started"
  current_peers,           \* the peers registered at the initial block
  peer_updates,            \* the channel of peer updates
  core,                    \* P2PContext: [active_connections: account -> [state, info, idle],
                           \* allowed_pubkeys and x25519_to_account_id: key -> account,
                           \* reconnect_delays: account -> delay, timers: account -> number
                           \* of sleeping reconnections, dropped: peers that a
                           \* reconnection attempt has removed]
  monitor_events,          \* the channel from the monitor thread
  let_in,                  \* keys whose incoming connection was authenticated
  handed_over,             \* messages handed to the clients of the chains
  ever_registered,         \* (account, key) pairs ever registered
  missed_updates           \* an unreadable block had updates in it

registryVars == <<peer_registry, unread_blocks, ever_registered>>
p2pVars == <<network, registryVars, p2p_phase, current_peers, peer_updates, core,
             monitor_events, let_in, handed_over, missed_updates>>

PeerAccounts == OtherPeers \cup {Us}
PeerInfo(a, k, addr) == [account |-> a, key |-> k, address |-> addr]

Without(f, x) == Restrict(f, DOMAIN f \ {x})
With(f, x, y) == [z \in DOMAIN f \cup {x} |-> IF z = x THEN y ELSE f[z]]
NoEntries == [x \in {} |-> x]

-----------------------------------------------------------------------------
(* The registrations on the state chain (the calls of the validator pallet). *)

Spend(budget) == network[budget] > 0 /\ network' = [network EXCEPT ![budget] = @ - 1]

KeyIsFree(a, k) ==
  \/ a \in DOMAIN peer_registry.mapping /\ peer_registry.mapping[a].key = k
  \/ k \notin peer_registry.mapped

\* What register_peer_id does once the signature is verified, except when nothing changes.
Register(a, k, addr) ==
  LET old == {peer_registry.mapping[b].key : b \in {a} \cap DOMAIN peer_registry.mapping}
      info == PeerInfo(a, k, addr)
  IN /\ KeyIsFree(a, k)
     /\ ~ (a \in DOMAIN peer_registry.mapping /\ peer_registry.mapping[a] = info)
     /\ peer_registry' = [mapping |-> With(peer_registry.mapping, a, info),
                          mapped |-> (peer_registry.mapped \ old) \cup {k}]
     /\ unread_blocks' = Append(unread_blocks, [kind |-> "Registered", info |-> info])
     /\ ever_registered' = ever_registered \cup {<<a, k>>}

register_peer_id(a, k, addr) ==
  /\ Spend("registrations")
  /\ Register(a, k, addr)
  /\ UNCHANGED <<p2p_phase, current_peers, peer_updates, core, monitor_events, let_in,
                 handed_over, missed_updates>>

deregister_peer(a) ==
  /\ Spend("deregistrations")
  /\ a \in DOMAIN peer_registry.mapping
  /\ peer_registry' = [mapping |-> Without(peer_registry.mapping, a),
                       mapped |-> peer_registry.mapped \ {peer_registry.mapping[a].key}]
  /\ unread_blocks' = Append(unread_blocks,
                             [kind |-> "Deregistered", info |-> peer_registry.mapping[a]])
  /\ UNCHANGED <<ever_registered, p2p_phase, current_peers, peer_updates, core,
                 monitor_events, let_in, handed_over, missed_updates>>

\* The events of one finalized block are forwarded, and lost when they cannot be read.
monitor_p2p_registration_events ==
  /\ unread_blocks # <<>>
  /\ unread_blocks' = Tail(unread_blocks)
  /\ \/ /\ peer_updates' = Append(peer_updates, Head(unread_blocks))
        /\ UNCHANGED <<network, missed_updates>>
     \/ /\ Spend("unreadable")
        /\ missed_updates' = TRUE
        /\ UNCHANGED peer_updates
  /\ UNCHANGED <<peer_registry, ever_registered, p2p_phase, current_peers, core,
                 monitor_events, let_in, handed_over>>

-----------------------------------------------------------------------------
(* The operations of P2PContext, from one state of it to the next. *)

Connections(c) == DOMAIN c.active_connections
SetState(c, a, state) == [c EXCEPT !.active_connections[a].state = state]

reset(c, a) == [c EXCEPT !.reconnect_delays = Without(@, a)]

get_delay_for(c, a) ==
  IF a \in DOMAIN c.reconnect_delays
    THEN IF 2 * c.reconnect_delays[a] < ReconnectIntervalMax
           THEN 2 * c.reconnect_delays[a] ELSE ReconnectIntervalMax
    ELSE 1

schedule_reconnect(c, a) ==
  [c EXCEPT !.reconnect_delays = With(@, a, get_delay_for(c, a)), !.timers[a] = @ + 1]

clean_up_for_peer_pubkey(c, key) ==
  [c EXCEPT !.allowed_pubkeys = Without(@, key), !.x25519_to_account_id = Without(@, key)]

connect_to_peer(c, info, idle) ==
  [c EXCEPT !.active_connections =
     With(@, info.account, [state |-> "Connected", info |-> info, idle |-> idle])]

\* Dropping the connection of a known peer, before it is forgotten or replaced.
Forget(c, a) ==
  LET peer == c.active_connections[a]
      removed == [c EXCEPT !.active_connections = Without(@, a)]
  IN clean_up_for_peer_pubkey(
       IF peer.state = "ReconnectionScheduled" THEN reset(removed, a) ELSE removed,
       peer.info.key)

add_or_update_peer(c, info) ==
  LET a == info.account
      known == a \in Connections(c)
      allow(d) == [d EXCEPT !.allowed_pubkeys = With(@, info.key, a),
                            !.x25519_to_account_id = With(@, info.key, a)]
  IN IF a = Us THEN c
     ELSE connect_to_peer(allow(IF known THEN Forget(c, a) ELSE c), info,
                          known /\ c.active_connections[a].idle)

handle_peer_deregistration(c, a) ==
  IF a = Us THEN c
  ELSE reset(IF a \in Connections(c) THEN Forget(c, a) ELSE c, a)

on_peer_update(c, update) ==
  IF update.kind = "Registered" THEN add_or_update_peer(c, update.info)
                                ELSE handle_peer_deregistration(c, update.info.account)

\* A reconnection attempt takes the peer out of active_connections first, and only the
\* attempt that finds the reconnection still scheduled puts it back.
reconnect_to_peer(c, a) ==
  LET peer == c.active_connections[a]
      removed == [c EXCEPT !.active_connections = Without(@, a)]
  IN IF a \notin Connections(c) THEN c
     ELSE IF peer.state = "ReconnectionScheduled"
       THEN connect_to_peer(removed, peer.info, peer.idle)
       ELSE [removed EXCEPT !.dropped = @ \cup {a}]

on_connection_failure(c, a) ==
  LET scheduled == schedule_reconnect(c, a)
  IN IF a \in Connections(c) THEN SetState(scheduled, a, "ReconnectionScheduled")
                             ELSE scheduled

send_without_connecting(c, a) ==                              \* faulty variant
  IF a \in Connections(c) THEN [c EXCEPT !.active_connections[a].idle = FALSE] ELSE c

\* Only a connected peer is sent the message; a stale one is connected to first.
send_message(c, a) ==
  LET active(d) == [d EXCEPT !.active_connections[a].idle = FALSE]
  IN IF a \notin Connections(c) THEN c
     ELSE IF c.active_connections[a].state = "Stale"
       THEN connect_to_peer(c, c.active_connections[a].info, FALSE)
       ELSE active(c)

check_activity(c) ==
  LET stale == {a \in Connections(c) :
                  c.active_connections[a].idle /\ c.active_connections[a].state # "Stale"}
  IN [c EXCEPT !.reconnect_delays = Restrict(@, DOMAIN @ \ stale),
               !.active_connections =
                 [a \in DOMAIN @ |-> IF a \in stale THEN [@[a] EXCEPT !.state = "Stale"]
                                                    ELSE @[a]]]

-----------------------------------------------------------------------------
(* The multiplexer.  A message on the wire has a protocol version and the tag of a *)
(* chain; one too short for a header or with an unknown tag is malformed.          *)

ChainTag == {"Ethereum", "Polkadot", "Bitcoin", "Ed25519"}
MultisigChains == {"Ethereum", "Polkadot", "Bitcoin"}
CURRENT_PROTOCOL_VERSION == 1

\* process_outgoing: what the client of the chain of the tag sends.
add_tag_and_current_version(tag) == [version |-> CURRENT_PROTOCOL_VERSION, tag |-> tag]

Malformed == [version |-> CURRENT_PROTOCOL_VERSION, tag |-> "Unknown"]
WireMessages ==
  {add_tag_and_current_version(tag) : tag \in ChainTag}
    \cup {Malformed, [version |-> 2, tag |-> "Ethereum"]}

\* The chains whose client gets the message.
process_incoming(m) ==
  IF m.version = CURRENT_PROTOCOL_VERSION THEN {m.tag} \cap MultisigChains ELSE {}

-----------------------------------------------------------------------------
(* The steps of the node. *)

ensure_peer_info_registered ==
  /\ p2p_phase = "Registering"
  /\ p2p_phase' = "Ready"
  /\ IF Us \in DOMAIN current_peers /\ current_peers[Us] = network.ours
       THEN UNCHANGED registryVars
       ELSE Register(Us, network.ours.key, network.ours.address)
  /\ UNCHANGED <<network, current_peers, peer_updates, core, monitor_events, let_in,
                 handed_over, missed_updates>>

start_p2p_core ==
  /\ p2p_phase = "Ready"
  /\ p2p_phase' = "Started"
  /\ core' = FoldSet(LAMBDA info, c : add_or_update_peer(c, info), core,
                     Range(current_peers))
  /\ UNCHANGED <<network, registryVars, current_peers, peer_updates, monitor_events,
                 let_in, handed_over, missed_updates>>

restVars == <<registryVars, p2p_phase, current_peers, missed_updates>>

OnPeerUpdate ==
  /\ p2p_phase = "Started" /\ peer_updates # <<>>
  /\ core' = on_peer_update(core, Head(peer_updates))
  /\ peer_updates' = Tail(peer_updates)
  /\ UNCHANGED <<network, monitor_events, let_in, handed_over, restVars>>

\* The monitor thread reports a handshake of the socket of a connected peer.
SocketEvent(a, event) ==
  /\ a \in Connections(core) /\ core.active_connections[a].state = "Connected"
  /\ Spend(IF event = "ConnectionFailure" THEN "failures" ELSE "successes")
  /\ monitor_events' = Append(monitor_events, [event |-> event, account |-> a])
  /\ UNCHANGED <<core, peer_updates, let_in, handed_over, restVars>>

handle_monitor_event ==
  /\ monitor_events # <<>>
  /\ LET e == Head(monitor_events)
     IN core' = IF e.event = "ConnectionFailure" THEN on_connection_failure(core, e.account)
                                                 ELSE reset(core, e.account)
  /\ monitor_events' = Tail(monitor_events)
  /\ UNCHANGED <<network, peer_updates, let_in, handed_over, restVars>>

ReconnectTimer(a) ==
  /\ core.timers[a] > 0
  /\ core' = reconnect_to_peer([core EXCEPT !.timers[a] = @ - 1], a)
  /\ UNCHANGED <<network, peer_updates, monitor_events, let_in, handed_over, restVars>>

BecomesIdle(a) ==
  /\ a \in Connections(core) /\ ~core.active_connections[a].idle
  /\ Spend("idles")
  /\ core' = [core EXCEPT !.active_connections[a].idle = TRUE]
  /\ UNCHANGED <<peer_updates, monitor_events, let_in, handed_over, restVars>>

ActivityTick ==
  /\ p2p_phase = "Started"
  /\ core' = check_activity(core)
  /\ UNCHANGED <<network, peer_updates, monitor_events, let_in, handed_over, restVars>>

SendMessage(a) ==
  /\ p2p_phase = "Started"
  /\ Spend("sends")
  /\ core' = send_message(core, a)
  /\ UNCHANGED <<peer_updates, monitor_events, let_in, handed_over, restVars>>

process_authentication_request(key) ==
  /\ key \in DOMAIN core.allowed_pubkeys \ let_in
  /\ network.incoming > 0
  /\ let_in' = let_in \cup {key}
  /\ UNCHANGED <<network, core, peer_updates, monitor_events, handed_over, restVars>>

forward_incoming_message(key, m) ==
  /\ key \in let_in
  /\ Spend("incoming")
  /\ handed_over' = handed_over \cup
       {[account |-> core.x25519_to_account_id[k], key |-> k, message |-> m, chain |-> c] :
          k \in {key} \cap DOMAIN core.x25519_to_account_id, c \in process_incoming(m)}
  /\ UNCHANGED <<core, peer_updates, monitor_events, let_in, restVars>>

P2PInit ==
  /\ network \in Networks
  /\ current_peers = network.initial
  /\ peer_registry = [mapping |-> network.initial,
                      mapped |-> {i.key : i \in Range(network.initial)}]
  /\ ever_registered = {<<i.account, i.key>> : i \in Range(network.initial)}
  /\ unread_blocks = <<>> /\ peer_updates = <<>> /\ monitor_events = <<>>
  /\ p2p_phase = "Registering"
  /\ core = [active_connections |-> NoEntries, allowed_pubkeys |-> NoEntries,
             x25519_to_account_id |-> NoEntries, reconnect_delays |-> NoEntries,
             timers |-> [a \in OtherPeers |-> 0], dropped |-> {}]
  /\ let_in = {} /\ handed_over = {} /\ missed_updates = FALSE

P2PNext ==
  \/ \E a \in PeerAccounts, k \in PeerKeys, addr \in PeerAddresses :
       register_peer_id(a, k, addr)
  \/ \E a \in PeerAccounts : deregister_peer(a)
  \/ monitor_p2p_registration_events
  \/ ensure_peer_info_registered
  \/ start_p2p_core
  \/ OnPeerUpdate
  \/ \E a \in OtherPeers : SocketEvent(a, "ConnectionFailure")
                           \/ SocketEvent(a, "ConnectionSuccess")
  \/ handle_monitor_event
  \/ \E a \in OtherPeers : ReconnectTimer(a) \/ BecomesIdle(a) \/ SendMessage(a)
  \/ ActivityTick
  \/ \E k \in PeerKeys : process_authentication_request(k)
  \/ \E k \in PeerKeys, m \in WireMessages : forward_incoming_message(k, m)

-----------------------------------------------------------------------------
(* Properties. *)

\* The type of the state: connections and keys belong to other peers, the delays stay
\* between RECONNECT_INTERVAL and RECONNECT_INTERVAL_MAX.
P2PTypeOK ==
  /\ p2p_phase \in {"Registering", "Ready", "Started"}
  /\ \A a \in Connections(core) :
       /\ a \in OtherPeers
       /\ core.active_connections[a] \in
            [state : {"Connected", "ReconnectionScheduled", "Stale"},
             info : [account : {a}, key : PeerKeys, address : PeerAddresses],
             idle : BOOLEAN]
  /\ core.timers \in [OtherPeers -> Nat]
  /\ \A a \in DOMAIN core.reconnect_delays :
       a \in OtherPeers /\ core.reconnect_delays[a] \in 1..ReconnectIntervalMax
  /\ Range(core.x25519_to_account_id) \subseteq OtherPeers
  /\ let_in \subseteq PeerKeys

\* The authenticator lets in exactly the keys by which incoming messages are attributed,
\* and, as long as no block was unreadable, the key of every peer that the node keeps a
\* connection for is one of them, under the peer's own account (the "pubkey must be
\* present" of clean_up_for_peer_pubkey).
KeysMatchConnections ==
  /\ core.allowed_pubkeys = core.x25519_to_account_id
  /\ ~missed_updates => \A a \in Connections(core) :
       LET key == core.active_connections[a].info.key
       IN key \in DOMAIN core.x25519_to_account_id /\ core.x25519_to_account_id[key] = a

\* The node keeps an entry for every other registered peer once it has applied every update
\* of the chain and no block was unreadable: active_connections "Contain entries for all
\* nodes that we *should* be connected to (i.e. all registered nodes)" (core.rs:245-246).
\* The code breaks this: reconnect_to_peer removes the entry before it looks at its state,
\* and puts it back only for ReconnectionScheduled. A timer left over from before a new
\* registration therefore removes the entry of a connected or a stale peer
\* (core.rs:499-525), although it should be ignored (core.rs:172-176).
RegisteredPeersAreKept ==
  (p2p_phase = "Started" /\ peer_updates = <<>> /\ unread_blocks = <<>> /\ ~missed_updates)
    => OtherPeers \cap DOMAIN peer_registry.mapping \subseteq Connections(core)

\* When the node has applied every
\* update of the chain and no block was unreadable, a peer that no left-over reconnection
\* timer has removed is known with exactly the info registered on the chain, and its other
\* keys are no longer accepted. A peer that such a timer removed is not covered: it has no
\* entry (RegisteredPeersAreKept fails) until it registers again.
ConnectionsFollowTheChain ==
  (p2p_phase = "Started" /\ peer_updates = <<>> /\ unread_blocks = <<>> /\ ~missed_updates)
    => \A a \in OtherPeers \ core.dropped :
         /\ a \in Connections(core) <=> a \in DOMAIN peer_registry.mapping
         /\ a \in Connections(core) =>
              core.active_connections[a].info = peer_registry.mapping[a]
         /\ \A k \in DOMAIN core.x25519_to_account_id :
              core.x25519_to_account_id[k] = a =>
                a \in Connections(core) /\ core.active_connections[a].info.key = k

\* A peer without a socket that is waiting to be reconnected to has a timer running, so it
\* does not wait for ever, however often the delay was reset in the meantime.
ScheduledHasTimer ==
  \A a \in Connections(core) :
    core.active_connections[a].state = "ReconnectionScheduled" => core.timers[a] > 0

\* A peer to which a message was sent recently is not left without a connection: it has a
\* socket or a scheduled reconnection, never the state of an inactive peer.
ActivePeersAreConnected ==
  \A a \in Connections(core) :
    core.active_connections[a].state = "Stale" => core.active_connections[a].idle

\* A message handed to the client of a chain was sent, in the current version, by the
\* client of the same chain, from a key that the account it is attributed to registered.
MessagesReachTheirChain ==
  \A d \in handed_over :
    /\ d.message = add_tag_and_current_version(d.chain)
    /\ <<d.account, d.key>> \in ever_registered

\* The connections are those of the registered peers, each active or about to be tried
\* again, whatever fails, idles or is registered anew; except for the peers that a
\* left-over reconnection timer removed (see RegisteredPeersAreKept).
PeersAreReachable ==
  /\ P2PTypeOK /\ KeysMatchConnections /\ ConnectionsFollowTheChain /\ ScheduledHasTimer
  /\ ActivePeersAreConnected /\ MessagesReachTheirChain
=============================================================================
