------------------------- MODULE EndpointSelection -------------------------
(***************************************************************************)
(* select_endpoints_from_config (config.rs): the ordered list of endpoints   *)
(* the supervisor rotates through, from the peers of config.json.  An        *)
(* address and a key are model values; Blank is an address that is empty,    *)
(* Invalid one, or a key, that does not parse.  The host name an endpoint is  *)
(* later greeted with is left out.                                          *)
(***************************************************************************)
EXTENDS Naturals, SequencesExt, Keeping

CONSTANTS
    V4, V6,         \* addresses of the families
    Keys,           \* public keys
    Blank, Invalid,
    PortLists,      \* sequences of ports the API may list for a peer
    Overrides,      \* values of the port option; 0 is none
    MaxPeers        \* bound: peers in masque_peers

ASSUME SelectionConfig ==
    /\ PortLists \subseteq Seq(Nat)
    /\ Overrides \subseteq Nat
    /\ MaxPeers \in Nat
    /\ {Blank, Invalid} \intersect (V4 \union V6 \union Keys) = {}
    /\ Blank # Invalid

VARIABLES
    peers, legacy,          \* masque_peers, and the fields of old configurations
    prefer_ipv6, port_override,
    turn,                   \* where the loops are: peer, family, port
    endpoints,              \* the list they fill, and at last return
    outcome

options == <<peers, legacy, prefer_ipv6, port_override>>
selectVars == <<options, turn, endpoints, outcome>>

Peer == [v4 : V4 \union {Blank, Invalid}, v6 : V6 \union {Blank, Invalid},
         key : Keys \union {Invalid}, ports : PortLists]

(* The older fields; without them a configuration has nothing.              *)
LegacyPeer == [v4 : V4 \union {Blank, Invalid}, v6 : V6 \union {Blank, Invalid},
               key : Keys \union {Invalid}, ports : {<<>>}]

NoLegacy == [v4 |-> Blank, v6 |-> Blank, key |-> Invalid, ports |-> <<>>]

(* The older fields are only read without masque_peers.                     *)
SelectInit ==
    /\ peers \in SeqOf(Peer, MaxPeers)
    /\ legacy \in LegacyPeer /\ (peers # <<>> => legacy = NoLegacy)
    /\ prefer_ipv6 \in BOOLEAN
    /\ port_override \in Overrides
    /\ turn = <<1, 1, 1>>
    /\ endpoints = <<>>
    /\ outcome = "selecting"

-----------------------------------------------------------------------------
(* A configuration without masque_peers has one peer, of the older fields.   *)
Configured == IF peers = <<>> THEN <<legacy>> ELSE peers

Ports(peer) ==
    LET api == Keep(peer.ports, Nat \ {0})
    IN IF port_override # 0 THEN <<port_override>>
       ELSE IF api = <<>> THEN <<443>>
       ELSE api

(* The preferred family first.                                              *)
Families(peer) == IF prefer_ipv6 THEN <<peer.v6, peer.v4>> ELSE <<peer.v4, peer.v6>>

Endpoint(address, port, key) == [address |-> address, port |-> port, key |-> key]

(* The peer and the address of this turn.                                   *)
This == Configured[turn[1]]
Address == Families(This)[turn[2]]

AfterFamily == IF turn[2] = 1 THEN <<turn[1], 2, 1>> ELSE <<turn[1] + 1, 1, 1>>

Going == outcome = "selecting" /\ turn[1] <= Len(Configured)

(* A key or an address that does not parse ends the selection.               *)
Refuse ==
    /\ Going
    /\ This.key = Invalid \/ Address = Invalid
    /\ outcome' = "unusable value"
    /\ UNCHANGED <<options, turn, endpoints>>

SkipFamily ==
    /\ Going /\ This.key # Invalid
    /\ Address = Blank
    /\ turn' = AfterFamily
    /\ UNCHANGED <<options, endpoints, outcome>>

(* seen: the socket and the key.                                            *)
SameEndpoint(e, f) == e = f

Seen(e) == \E i \in 1 .. Len(endpoints) : SameEndpoint(endpoints[i], e)

(* What is in seen is not pushed again.                                     *)
Offer ==
    /\ Going /\ This.key # Invalid
    /\ Address \notin {Blank, Invalid}
    /\ LET e == Endpoint(Address, Ports(This)[turn[3]], This.key)
       IN endpoints' = IF Seen(e) THEN endpoints ELSE Append(endpoints, e)
    /\ turn' = IF turn[3] < Len(Ports(This)) THEN <<turn[1], turn[2], turn[3] + 1>>
               ELSE AfterFamily
    /\ UNCHANGED <<options, outcome>>

Priority(port) == CASE port = 443 -> 0 [] port = 1701 -> 2 [] OTHER -> 1

OfPriority(k) == {e \in ToSet(endpoints) : Priority(e.port) = k}

(* Mutant of Sorted: a reversed iterator makes the sort unstable.           *)
SortedReversed ==
    LET reversed == Reverse(endpoints)
    IN Keep(reversed, OfPriority(0)) \o Keep(reversed, OfPriority(1))
            \o Keep(reversed, OfPriority(2))

(* The stable sort by priority.                                             *)
Sorted ==
    Keep(endpoints, OfPriority(0)) \o Keep(endpoints, OfPriority(1))
        \o Keep(endpoints, OfPriority(2))

(* Behind the loops.                                                        *)
Finish ==
    /\ outcome = "selecting" /\ turn[1] > Len(Configured)
    /\ outcome' = IF endpoints = <<>> THEN "no endpoint" ELSE "selected"
    /\ endpoints' = Sorted
    /\ UNCHANGED <<options, turn>>

Select == Refuse \/ SkipFamily \/ Offer \/ Finish

SelectSpec == SelectInit /\ [][Select]_selectVars

-----------------------------------------------------------------------------
(* Reference definitions, without the loops.                                *)

(* The places of a peer's ports, and the port at a place.                     *)
Listed(peer) == {i \in DOMAIN peer.ports : peer.ports[i] # 0}

PortPlaces(peer) == IF port_override # 0 \/ Listed(peer) = {} THEN {1} ELSE Listed(peer)

PortAt(peer, i) ==
    IF port_override # 0 THEN port_override
    ELSE IF Listed(peer) = {} THEN 443
    ELSE peer.ports[i]

(* Where the configuration names an endpoint: by peer, family and port.      *)
Places ==
    UNION {{p} \X {f \in 1 .. 2 : Families(Configured[p])[f] # Blank} \X PortPlaces(Configured[p])
           : p \in DOMAIN Configured}

Named(c) ==
    LET peer == Configured[c[1]]
    IN Endpoint(Families(peer)[c[2]], PortAt(peer, c[3]), peer.key)

(* Cloudflare's order: peers, then the preferred family, then ports.         *)
Before(c, d) ==
    \/ c[1] < d[1]
    \/ c[1] = d[1] /\ c[2] < d[2]
    \/ c[1] = d[1] /\ c[2] = d[2] /\ c[3] < d[3]

(* Port 443 first and 1701 last over all peers; otherwise in the order in     *)
(* which the configuration first names them.                                *)
Precedes(e, f) ==
    \/ Priority(e.port) < Priority(f.port)
    \/ /\ Priority(e.port) = Priority(f.port)
       /\ \E c \in Places : /\ Named(c) = e
                           /\ \A d \in Places : Named(d) = f => Before(c, d)

Unusable(peer) == Invalid \in {peer.key, peer.v4, peer.v6}

(* The supervisor's rotation is the one the reference defines: no endpoint is *)
(* lost or invented (README, "without inventing or removing"), the order is   *)
(* strict, so that none is tried twice in a round; and a configuration is     *)
(* refused with cause.                                                      *)
SelectedAsDefined ==
    /\ outcome = "selected" =>
          /\ ToSet(endpoints) = {Named(c) : c \in Places}
          /\ \A i, j \in 1 .. Len(endpoints) : i < j => Precedes(endpoints[i], endpoints[j])
          /\ \A p \in DOMAIN Configured : ~ Unusable(Configured[p])
    /\ outcome = "no endpoint" => Places = {}
    /\ outcome = "unusable value" => \E p \in DOMAIN Configured : Unusable(Configured[p])

=============================================================================
