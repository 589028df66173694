--------------------------- MODULE DeviceReporter ---------------------------
(***************************************************************************)
(* The device-state reporter of device_state.rs.  The tunnel task tells it  *)
(* of sessions through a watch channel, which keeps only the latest value,  *)
(* and of metrics through a lock; run_reporter reads the two one after the  *)
(* other, on a change or on its heartbeat, and awaits one HTTPS request     *)
(* before it looks again.  Cloudflare keeps the last report it processed.   *)
(***************************************************************************)
EXTENDS Naturals

CONSTANT MaxSessions    \* bound: sessions announced

ASSUME ReporterConfig == MaxSessions \in Nat

VARIABLES
    phase,          \* the tunnel task: its session, as far as the reporter is told
    session,        \* number of the current or latest session
    state,          \* the watch channel's ConnectionState
    unseen,         \* the channel holds a change the receiver has not marked seen
    metrics,        \* tunnel_metrics: the session that was sampled, or NoMetrics
    rpc,            \* where run_reporter stands
    taken,          \* the state it has read
    due,            \* the interval has a tick to deliver
    posts,          \* reports sent and not answered
    server          \* the state of the last report Cloudflare processed

tunnelVars == <<phase, session, state, metrics>>
vars == <<tunnelVars, unseen, rpc, taken, due, posts, server>>

NoMetrics == 0

ConnectionState == [connected : BOOLEAN, session : 0 .. MaxSessions]

Report == [state : ConnectionState, stats : 0 .. MaxSessions]

(* The position of a state in the history of the tunnel.                    *)
At(s) == 2 * s.session - (IF s.connected THEN 1 ELSE 0)

NeverConnected == [connected |-> FALSE, session |-> 0]

(* start: the channel is created with Disconnected, already seen, and the    *)
(* interval's first tick is immediate.                                      *)
Init ==
    /\ phase = "down" /\ session = 0
    /\ state = NeverConnected /\ unseen = FALSE
    /\ metrics = NoMetrics
    /\ rpc = "select" /\ taken = NeverConnected
    /\ due = TRUE
    /\ posts = {}
    /\ server = NeverConnected

-----------------------------------------------------------------------------
(* The tunnel task, in run_tunnel_session and data_loop.                    *)

reporterOnly == <<rpc, taken, due, posts, server>>

(* send_replace.                                                            *)
Announce(connected, s) ==
    /\ state' = [connected |-> connected, session |-> s]
    /\ unseen' = TRUE

(* The pump starts at once if there is neither probe nor packet to send.     *)
Connected ==
    /\ phase = "down"
    /\ session < MaxSessions
    /\ session' = session + 1
    /\ Announce(TRUE, session')
    /\ phase' \in {"announced", "pumping"}
    /\ UNCHANGED <<metrics, reporterOnly>>

(* The session fails on the packet captured while idle, past its teardown.  *)
SessionLost ==
    /\ phase = "announced"
    /\ phase' = "down"
    /\ UNCHANGED <<session, state, unseen, metrics, reporterOnly>>

StartPump ==
    /\ phase = "announced"
    /\ phase' = "pumping"
    /\ UNCHANGED <<session, state, unseen, metrics, reporterOnly>>

UpdateTunnelMetrics ==
    /\ phase = "pumping"
    /\ metrics' = session
    /\ UNCHANGED <<phase, session, state, unseen, reporterOnly>>

(* Mutant: disconnected() only announces the state.                         *)
KeepMetrics ==
    /\ phase = "pumping"
    /\ phase' = "clearing"
    /\ UNCHANGED <<session, state, unseen, metrics, reporterOnly>>

(* disconnected(): the metrics first, then the state.                       *)
ClearMetrics ==
    /\ phase = "pumping"
    /\ metrics' = NoMetrics
    /\ phase' = "clearing"
    /\ UNCHANGED <<session, state, unseen, reporterOnly>>

Disconnected ==
    /\ phase = "clearing"
    /\ Announce(FALSE, session)
    /\ phase' = "down"
    /\ UNCHANGED <<session, metrics, reporterOnly>>

(* maintain_native_tun returns, and the process ends.                       *)
TunnelExits ==
    /\ phase = "down"
    /\ phase' = "gone"
    /\ UNCHANGED <<session, state, unseen, metrics, reporterOnly>>

Tunnel ==
    \/ Connected \/ SessionLost \/ StartPump \/ UpdateTunnelMetrics
    \/ ClearMetrics \/ Disconnected \/ TunnelExits

-----------------------------------------------------------------------------
(* run_reporter.                                                            *)

(* The interval; a tick missed while a report is awaited is skipped.        *)
Tick ==
    /\ ~due /\ rpc # "ended"
    /\ due' = TRUE
    /\ UNCHANGED <<tunnelVars, unseen, rpc, taken, posts, server>>

(* The heartbeat borrows the state and does not mark it seen.               *)
Heartbeat ==
    /\ rpc = "select" /\ due
    /\ due' = FALSE
    /\ taken' = state
    /\ rpc' = "read"
    /\ UNCHANGED <<tunnelVars, unseen, posts, server>>

Changed ==
    /\ rpc = "select" /\ unseen
    /\ unseen' = FALSE
    /\ taken' = state
    /\ rpc' = "read"
    /\ UNCHANGED <<tunnelVars, due, posts, server>>

(* Mutant: the request is spawned instead of awaited.                       *)
SpawnReport ==
    /\ rpc = "read"
    /\ posts' = posts \union {[state |-> taken,
                               stats |-> IF taken.connected THEN metrics ELSE NoMetrics]}
    /\ rpc' = "select"
    /\ UNCHANGED <<tunnelVars, unseen, taken, due, server>>

(* Reads the metrics, builds the payload, and sends it: a Disconnected       *)
(* report carries no tunnel statistics.                                     *)
SendReport ==
    /\ rpc = "read"
    /\ posts' = posts \union {[state |-> taken,
                               stats |-> IF taken.connected THEN metrics ELSE NoMetrics]}
    /\ rpc' = "post"
    /\ UNCHANGED <<tunnelVars, unseen, taken, due, server>>

Answered(p) ==
    /\ p \in posts
    /\ posts' = posts \ {p}
    /\ rpc' = IF rpc = "post" THEN "select" ELSE rpc
    /\ UNCHANGED <<tunnelVars, unseen, taken, due>>

(* Processed, whether or not the answer arrives.                            *)
Processed == \E p \in posts : Answered(p) /\ server' = p.state

(* Not processed: the request failed, or was answered with an error, which   *)
(* is logged and not retried.                                               *)
NotProcessed == \E p \in posts : Answered(p) /\ UNCHANGED server

(* The sender is dropped with the tunnel, and the runtime stops its tasks.  *)
ReporterEnds ==
    /\ phase = "gone" /\ rpc # "ended"
    /\ rpc' = "ended"
    /\ UNCHANGED <<tunnelVars, unseen, taken, due, posts, server>>

Reporter == Heartbeat \/ Changed \/ SendReport

Next == Tunnel \/ Tick \/ Reporter \/ Processed \/ NotProcessed \/ ReporterEnds

Spec == Init /\ [][Next]_vars

-----------------------------------------------------------------------------
TypeOK ==
    /\ phase \in {"down", "announced", "pumping", "clearing", "gone"}
    /\ session \in 0 .. MaxSessions
    /\ state \in ConnectionState /\ taken \in ConnectionState /\ server \in ConnectionState
    /\ unseen \in BOOLEAN /\ due \in BOOLEAN
    /\ metrics \in 0 .. MaxSessions
    /\ rpc \in {"select", "read", "post", "ended"}
    /\ posts \subseteq Report /\ \A p, q \in posts : p = q

(* run_reporter reads the state and the metrics one after the other without  *)
(* a common lock: a report never shows a session with the statistics of an  *)
(* earlier one, nor statistics while disconnected.                          *)
StatsNotOlder ==
    \A p \in posts :
        p.stats # NoMetrics => p.state.connected /\ p.stats >= p.state.session

(* The device inventory follows the tunnel's history: reports are awaited   *)
(* one at a time, so a delayed one never undoes a later one.                *)
InventoryNotBackwards == [][At(server') >= At(server)]_vars

=============================================================================
