----------------------------- MODULE TunnelPath -----------------------------
(***************************************************************************)
(* What the tunnel promises the host about its TUN interface, without      *)
(* endpoints, handshakes or system calls.  Path capacity belongs to a      *)
(* session: the interface departs from the conservative configuration only *)
(* while a session is up, it carries IPv6 only with the MTU IPv6 needs,     *)
(* and the session is not over before the conservative configuration is    *)
(* back.                                                                    *)
(***************************************************************************)
EXTENDS Naturals

CONSTANTS Mtus, Ipv6MinMtu, InitialMtu, InitialIpv6

VARIABLES phase, mtu, v6

vars == <<phase, mtu, v6>>

Conservative == mtu = InitialMtu /\ v6 = InitialIpv6

Init == phase = "offline" /\ Conservative

SessionStarts == phase = "offline" /\ phase' = "session" /\ UNCHANGED <<mtu, v6>>

Adjust ==
    /\ phase = "session"
    /\ mtu' \in Mtus
    /\ v6' \in BOOLEAN
    /\ v6' => mtu' >= Ipv6MinMtu
    /\ UNCHANGED phase

SessionOver ==
    /\ phase = "session"
    /\ Conservative
    /\ phase' = "offline"
    /\ UNCHANGED <<mtu, v6>>

Stop == phase # "stopped" /\ phase' = "stopped" /\ UNCHANGED <<mtu, v6>>

Next == SessionStarts \/ Adjust \/ SessionOver \/ Stop

Spec == Init /\ [][Next]_vars

=============================================================================
