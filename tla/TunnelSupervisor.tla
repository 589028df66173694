-------------------------- MODULE TunnelSupervisor --------------------------
(***************************************************************************)
(* The reconnect supervisor of masque/supervisor.rs around the session of  *)
(* run_tunnel_session in masque.rs.  One attempt dials the selected         *)
(* endpoint, completes the QUIC handshake, waits for the CONNECT response,  *)
(* announces the session (device-state reporter, hook, statistics task),    *)
(* sends the packet captured while idle and pumps packets until an error.   *)
(* Everything the packet pump does except path-MTU changes is abstracted    *)
(* to "the session may end"; PacketPump models it.                          *)
(***************************************************************************)
EXTENDS TunDevice

CONSTANTS
    NEndpoints,     \* length of cfg.endpoints, in priority order
    Always,         \* cfg.reconnect.always
    PmtudEnabled,   \* cfg.path_mtu.enabled
    InitialMtu,     \* cfg.path_mtu.initial_tun_mtu
    MaxTunMtu,      \* cfg.path_mtu.max_tun_mtu
    FiniteIdle,     \* QUIC max_idle_timeout is not zero
    HasProbe,       \* cfg.activation_probe is Some
    MaxFaults       \* bound: transient local faults and endpoint changes

(* select_endpoints_from_config refuses an empty list; run_tunnel refuses   *)
(* the other combinations before it creates the device.                     *)
ASSUME SupervisorConfig ==
    /\ NEndpoints \in Nat \ {0}
    /\ MaxFaults \in Nat
    /\ {Always, PmtudEnabled, FiniteIdle, HasProbe} \subseteq BOOLEAN
    /\ InitialMtu \in Mtus /\ MaxTunMtu \in Nat
    /\ InitialMtu <= MaxTunMtu
    /\ TunnelIpv6 /\ ~PmtudEnabled => InitialMtu >= Ipv6MinMtu

VARIABLES
    pc,             \* where maintain_native_tun or its session stands
    index,          \* endpoint_index
    established,    \* session_established
    pending,        \* whether pending_pkt is Some
    net,            \* how each endpoint behaves
    faults,         \* transient faults so far
    reported,       \* the state last given to the device-state reporter
    stats,          \* the session's statistics task
    orphans,        \* a statistics task was detached without abort
    lastHook,       \* the lifecycle hook started last
    last            \* history: endpoint and outcome of the previous attempt

sessionVars == <<pc, index, established, pending>>
sideVars == <<reported, stats, orphans, lastHook>>
envVars == <<net, faults>>
vars == <<deviceVars, sessionVars, sideVars, envVars, last>>

Endpoints == 0 .. NEndpoints - 1

Attempting == {"dial", "handshake", "connect"}
InSession == {"probe", "pending", "online"}
PcValues == {"top", "idle", "restore", "sleep", "exited"} \union Attempting \union InSession

Behaviours == {"up", "refusing", "rejecting", "silent"}

InitialIpv6 == TunnelIpv6 /\ ManageIpv6 /\ ~PmtudEnabled

NoJob == [mtu |-> InitialMtu, enable |-> FALSE, step |-> "idle"]

(* Both calls of apply_path_mtu in maintain_native_tun.                     *)
ApplyInitial == ApplyPathMtu(InitialMtu, TunnelIpv6 /\ ~PmtudEnabled)

Init ==
    /\ pc = "top"
    /\ tunMtu = InitialMtu
    /\ ipv6 = InitialIpv6
    /\ job = PathMtuJob(InitialMtu, TunnelIpv6 /\ ~PmtudEnabled)
    /\ index = 0
    /\ established = FALSE
    /\ pending = FALSE
    /\ net \in [Endpoints -> Behaviours]
    /\ faults = 0
    /\ reported = "Disconnected"
    /\ stats = "none"
    /\ orphans = FALSE
    /\ lastHook = "none"
    /\ last = [endpoint |-> 0, ok |-> TRUE]

-----------------------------------------------------------------------------
(* The environment: an endpoint changes its behaviour, or a local operation *)
(* fails although the endpoint is up.                                       *)

Transient == faults < MaxFaults /\ faults' = faults + 1

EndpointChanges ==
    /\ Transient
    /\ \E e \in Endpoints, b \in Behaviours :
          net[e] # b /\ net' = [net EXCEPT ![e] = b]
    /\ UNCHANGED <<deviceVars, sessionVars, sideVars, last>>

-----------------------------------------------------------------------------
(* Calls of apply_path_mtu, made by the supervisor and by the pump.         *)

DeviceStep == DeviceCall /\ UNCHANGED <<sessionVars, sideVars, envVars, last>>

DeviceFault ==
    /\ Transient
    /\ DeviceCallFails
    /\ UNCHANGED <<sessionVars, sideVars, net, last>>

(* The supervisor's `?`: a TUN error ends the process.                      *)
Exit ==
    /\ pc \in {"top", "restore"}
    /\ Returned("failed")
    /\ pc' = "exited"
    /\ job' = NoJob
    /\ UNCHANGED <<tunMtu, ipv6, index, established, pending, sideVars, envVars, last>>

-----------------------------------------------------------------------------
(* One iteration of maintain_native_tun up to the session.                  *)

(* Mutant of StartAttempt: dials without waiting for traffic.               *)
StartAttemptEagerly ==
    /\ pc = "top"
    /\ Returned("ok")
    /\ job' = NoJob
    /\ pc' = "dial"
    /\ established' = FALSE
    /\ UNCHANGED <<tunMtu, ipv6, index, pending, sideVars, envVars, last>>

StartAttempt ==
    /\ pc = "top"
    /\ Returned("ok")
    /\ job' = NoJob
    /\ pc' = IF ~Always /\ ~pending THEN "idle" ELSE "dial"
    /\ established' = FALSE
    /\ UNCHANGED <<tunMtu, ipv6, index, pending, sideVars, envVars, last>>

OutboundActivity ==
    /\ pc = "idle"
    /\ pending' = TRUE
    /\ pc' = "dial"
    /\ UNCHANGED <<deviceVars, index, established, sideVars, envVars, last>>

(* recv_packet returns an error or zero bytes while idle.                   *)
TunClosed ==
    /\ pc = "idle"
    /\ Transient
    /\ pc' = "exited"
    /\ UNCHANGED <<deviceVars, index, established, pending, sideVars, net, last>>

(* run_tunnel_session returns; the supervisor restores the conservative     *)
(* interface before anything else.                                          *)
ReturnToSupervisor ==
    /\ pc' = "restore"
    /\ ApplyInitial
    /\ last' = [endpoint |-> index, ok |-> established]
    /\ UNCHANGED <<tunMtu, ipv6, index, established, net>>

(* Mutant of AttemptFails: pending_pkt was taken before the session was up. *)
AttemptFailsWithPacket ==
    /\ ReturnToSupervisor
    /\ pending' = FALSE
    /\ UNCHANGED sideVars

AttemptFails ==
    /\ ReturnToSupervisor
    /\ UNCHANGED <<pending, sideVars>>

(* TLS material, quiche configuration, socket and first flight.             *)
Dial ==
    /\ pc = "dial"
    /\ pc' = "handshake"
    /\ UNCHANGED <<deviceVars, index, established, pending, sideVars, envVars, last>>

(* A fault of the host ends the attempt, here or at the socket of the         *)
(* handshake loop, whatever the endpoint does.                               *)
DialFails ==
    /\ pc \in {"dial", "handshake"}
    /\ Transient
    /\ AttemptFails

-----------------------------------------------------------------------------
(* complete_quic_handshake, then the endpoint key pin.  The loop ends only  *)
(* when the connection is established or closed or the socket fails: a      *)
(* silent endpoint ends it through the QUIC idle timeout, if there is one;    *)
(* a fault of the socket is in DialFails.                                    *)

HandshakeDone ==
    /\ pc = "handshake"
    /\ net[index] \in {"up", "rejecting"}
    /\ pc' = "connect"
    /\ UNCHANGED <<deviceVars, index, established, pending, sideVars, envVars, last>>

HandshakeFails ==
    /\ pc = "handshake"
    /\ \/ net[index] = "refusing"
       \/ net[index] = "silent" /\ FiniteIdle
    /\ AttemptFails
    /\ UNCHANGED faults

(* wait_connect_response: a 2xx status, or a bail: another status, closed   *)
(* connection, H3 error, socket error, or the ten-second deadline.          *)
ConnectRefused ==
    /\ pc = "connect"
    /\ \/ net[index] # "up" /\ UNCHANGED faults
       \/ net[index] = "up" /\ Transient
    /\ AttemptFails

(* The 2xx arm and everything up to the next await: session_established,    *)
(* reporter.connected, the connect hook, spawn_stats_task, the flow prefix. *)
ConnectAccepted ==
    /\ pc = "connect"
    /\ net[index] = "up"
    /\ established' = TRUE
    /\ reported' = "Connected"
    /\ lastHook' = "connect"
    /\ stats' = "running"
    /\ pc' = IF HasProbe THEN "probe" ELSE IF pending THEN "pending" ELSE "online"
    /\ UNCHANGED <<deviceVars, index, pending, orphans, envVars, last>>

-----------------------------------------------------------------------------
(* The session.                                                             *)

(* The Mesh activation probe: queued, not queued or failed, the session      *)
(* continues.  Then pending_pkt.take() and send_packet_datagram: queued, or   *)
(* dropped for a reason that does not end the session.                      *)
OpeningSent ==
    /\ pc \in {"probe", "pending"}
    /\ pending' = (pending /\ pc = "probe")
    /\ pc' = IF pending' THEN "pending" ELSE "online"
    /\ UNCHANGED <<deviceVars, index, established, sideVars, envVars, last>>

(* The `?` of send_packet_datagram or of the flush behind it: run_tunnel-   *)
(* _session returns past everything that follows data_loop, and dropping    *)
(* the statistics task's handle detaches it.                                *)
PendingFails ==
    /\ pc = "pending"
    /\ pending' = FALSE
    /\ stats' = "none"
    /\ orphans' = TRUE
    /\ ReturnToSupervisor
    /\ UNCHANGED <<reported, lastHook, faults>>

(* Path MTU discovery completes or is revalidated: the writable DATAGRAM    *)
(* capacity less the flow prefix, capped by max_tun_mtu.                    *)
PathMtuFound ==
    /\ pc = "online"
    /\ PmtudEnabled
    /\ Returned("idle")
    /\ \E m \in Mtus : m <= MaxTunMtu /\ ApplyPathMtu(m, TRUE)
    /\ UNCHANGED <<tunMtu, ipv6, sessionVars, sideVars, envVars, last>>

PathMtuApplied ==
    /\ pc = "online"
    /\ Returned("ok")
    /\ job' = NoJob
    /\ UNCHANGED <<tunMtu, ipv6, sessionVars, sideVars, envVars, last>>

(* Mutant of SessionEnds: `?` on data_loop's result before the teardown.    *)
SessionEndsEarly ==
    /\ pc = "online"
    /\ job.step \in {"idle", "failed"}
    /\ stats' = "none"
    /\ ReturnToSupervisor
    /\ UNCHANGED <<pending, reported, orphans, lastHook, faults>>

(* data_loop bails, for any reason of its own or because apply_path_mtu     *)
(* failed; then the session is torn down without an await.                  *)
SessionEnds ==
    /\ pc = "online"
    /\ job.step \in {"idle", "failed"}
    /\ stats' = "none"
    /\ reported' = "Disconnected"
    /\ lastHook' = "disconnect"
    /\ ReturnToSupervisor
    /\ UNCHANGED <<pending, orphans, faults>>

-----------------------------------------------------------------------------
(* Mutants of next_endpoint_index: the outcome ignored; no rotation.        *)
IndexIgnoresOutcome(current, ok) == (current + 1) % NEndpoints
IndexStays(current, ok) == IF ok THEN 0 ELSE current

next_endpoint_index(current, ok) == IF ok THEN 0 ELSE (current + 1) % NEndpoints

(* Mutant of SelectNext: the result of apply_path_mtu is discarded.         *)
SelectNextAnyway ==
    /\ pc = "restore"
    /\ Returned("ok") \/ Returned("failed")
    /\ job' = NoJob
    /\ index' = next_endpoint_index(index, established)
    /\ pc' = "sleep"
    /\ UNCHANGED <<tunMtu, ipv6, established, pending, sideVars, envVars, last>>

(* Conservative again: select the next endpoint and sleep cfg.reconnect.delay. *)
SelectNext ==
    /\ pc = "restore"
    /\ Returned("ok")
    /\ job' = NoJob
    /\ index' = next_endpoint_index(index, established)
    /\ pc' = "sleep"
    /\ UNCHANGED <<tunMtu, ipv6, established, pending, sideVars, envVars, last>>

Wake ==
    /\ pc = "sleep"
    /\ pc' = "top"
    /\ ApplyInitial
    /\ UNCHANGED <<tunMtu, ipv6, index, established, pending, sideVars, envVars, last>>

-----------------------------------------------------------------------------
(* Everything the program does by itself, given what the network does.      *)
Progress ==
    \/ DeviceStep \/ Exit \/ StartAttempt \/ Dial
    \/ HandshakeDone \/ HandshakeFails \/ ConnectRefused \/ ConnectAccepted
    \/ OpeningSent \/ PendingFails \/ PathMtuApplied
    \/ SelectNext \/ Wake

(* Everything that may never happen.                                        *)
Chance ==
    \/ EndpointChanges \/ DeviceFault \/ DialFails \/ OutboundActivity \/ TunClosed
    \/ PathMtuFound \/ SessionEnds

Next == Progress \/ Chance

Spec == Init /\ [][Next]_vars

FairSpec == Spec /\ WF_vars(Progress)

-----------------------------------------------------------------------------
TypeOK ==
    /\ DeviceTypeOK
    /\ pc \in PcValues
    /\ index \in Endpoints
    /\ established \in BOOLEAN
    /\ pending \in BOOLEAN
    /\ net \in [Endpoints -> Behaviours]
    /\ faults \in 0 .. MaxFaults
    /\ reported \in {"Disconnected", "Connected"}
    /\ stats \in {"none", "running"}
    /\ orphans \in BOOLEAN
    /\ lastHook \in {"none", "connect", "disconnect"}
    /\ last \in [endpoint : Endpoints, ok : BOOLEAN]

(* apply_path_mtu's order of calls: at no point, between two system calls   *)
(* or after a failed one, is the IPv6 address on an interface whose MTU is   *)
(* below IPv6's minimum.                                                    *)
Ipv6NeedsMinMtu == ipv6 => tunMtu >= Ipv6MinMtu

(* The comment before the second apply_path_mtu of maintain_native_tun:     *)
(* nothing is dialled, awaited or slept through with the capacity of an     *)
(* earlier path.                                                            *)
OfflineIsConservative ==
    pc \in {"idle", "sleep"} \union Attempting =>
        tunMtu = InitialMtu /\ ipv6 = InitialIpv6

(* reconnect.always is off: no attempt is made before the host has a packet *)
(* to send, across every failed attempt in between.                         *)
OnDemandHasPacket == ~Always /\ pc \in Attempting => pending

(* endpoint_index: a fallback is dialled only after the endpoint just       *)
(* before it failed without establishing a session.                         *)
FallbackOnlyAfterFailure ==
    pc \in Attempting /\ index # 0 => last = [endpoint |-> index - 1, ok |-> FALSE]

(* The packet captured while idle is given up only to an established        *)
(* session.                                                                 *)
PendingSurvivesFailure == [][pending /\ ~pending' => established]_vars

(* What the reporter, the hooks and the statistics task were told matches   *)
(* the session whenever there is none.                                      *)
LifecyclePaired ==
    pc \notin InSession =>
        /\ reported = "Disconnected"
        /\ lastHook # "connect"
        /\ stats = "none"
        /\ ~orphans

(* Rotation: with one endpoint that is up from some time on, the supervisor *)
(* always establishes a session again, unless it waits for traffic or has   *)
(* ended with the TUN device.                                               *)
EventuallyEstablished ==
    (\E e \in Endpoints : <>[](net[e] = "up")) =>
        []<>(established \/ pc \in {"idle", "exited"})

-----------------------------------------------------------------------------
(* The interface as TunnelPath promises it.                                 *)

AbstractPhase ==
    CASE pc = "exited" -> "stopped"
      [] pc \in InSession \/ (pc = "restore" /\ established) -> "session"
      [] OTHER -> "offline"

Path == INSTANCE TunnelPath
            WITH phase <- AbstractPhase, mtu <- tunMtu, v6 <- ipv6

PathSpec == Path!Spec

=============================================================================
