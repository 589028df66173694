---------------------------- MODULE TunnelSystem ----------------------------
(***************************************************************************)
(* The tunnel task and the device-state reporter, two tasks of the program   *)
(* that share a watch channel and a lock.  The tunnel task is that of         *)
(* TunnelSupervisor, with the calls run_tunnel_session and data_loop make on *)
(* the reporter; the reporter's task is that of DeviceReporter, whose own     *)
(* account of the tunnel task is the refinement mapping below.               *)
(***************************************************************************)
EXTENDS TunnelSupervisor

CONSTANT MaxSessions    \* bound: sessions; the last one does not end

ASSUME SystemConfig == MaxSessions \in Nat \ {0}

VARIABLES
    clearing,       \* disconnected() stands between the metrics and the state
    session, state, unseen, metrics,            \* as in DeviceReporter
    rpc, taken, due, posts, server              \* as in DeviceReporter

channelVars == <<session, state, unseen, metrics>>
reporterVars == <<rpc, taken, due, posts, server>>
systemVars == <<vars, clearing, channelVars, reporterVars>>

(* DeviceReporter's phase of the tunnel task, read off TunnelSupervisor.     *)
ReporterPhase ==
    CASE clearing -> "clearing"
      [] ~clearing /\ pc = "online" -> "pumping"
      [] pc \in {"probe", "pending"} -> "announced"
      [] pc = "exited" -> "gone"
      [] OTHER -> "down"

Reporter == INSTANCE DeviceReporter WITH phase <- ReporterPhase

SystemInit ==
    /\ Init
    /\ clearing = FALSE
    /\ session = 0
    /\ state = Reporter!NeverConnected /\ unseen = FALSE
    /\ metrics = Reporter!NoMetrics
    /\ rpc = "select" /\ taken = Reporter!NeverConnected
    /\ due = TRUE
    /\ posts = {}
    /\ server = Reporter!NeverConnected

-----------------------------------------------------------------------------
(* The tunnel task.                                                         *)

MayEnd == session < MaxSessions

(* A step of the tunnel task, the device or the endpoints of which the         *)
(* reporter hears nothing, the early return of the packet captured while idle *)
(* included: neither the 2xx arm nor the teardown behind data_loop, which has *)
(* no other step of its task in it.                                          *)
Unheard(A) ==
    /\ ~clearing
    /\ A
    /\ established' => established
    /\ ~(pc = "online" /\ pc' = "restore")
    /\ MayEnd \/ (pc \in InSession => pc' \in InSession /\ job'.step # "failed")
    /\ UNCHANGED <<clearing, channelVars, reporterVars>>

(* reporter.connected.                                                      *)
SessionAnnounced ==
    /\ ConnectAccepted
    /\ session' = session + 1
    /\ Reporter!Announce(TRUE, session')
    /\ UNCHANGED <<clearing, metrics, reporterVars>>

(* publish_tunnel_metrics, once a second.                                   *)
UpdateTunnelMetrics ==
    /\ pc = "online" /\ ~clearing
    /\ metrics' = session
    /\ UNCHANGED <<vars, clearing, session, state, unseen, reporterVars>>

(* Mutant of ClearMetrics: disconnected() only announces the state.         *)
KeepMetrics ==
    /\ pc = "online" /\ ~clearing /\ MayEnd
    /\ job.step \in {"idle", "failed"}
    /\ clearing' = TRUE
    /\ UNCHANGED <<vars, channelVars, reporterVars>>

(* data_loop has bailed; disconnected() clears the metrics.                  *)
ClearMetrics ==
    /\ pc = "online" /\ ~clearing /\ MayEnd
    /\ job.step \in {"idle", "failed"}
    /\ metrics' = Reporter!NoMetrics
    /\ clearing' = TRUE
    /\ UNCHANGED <<vars, session, state, unseen, reporterVars>>

(* Mutant of DisconnectedAnnounced: the state only changes if someone        *)
(* has looked at the last one.                                              *)
DisconnectedAnnouncedIfSeen ==
    /\ clearing
    /\ SessionEnds
    /\ IF unseen THEN UNCHANGED <<state, unseen>> ELSE Reporter!Announce(FALSE, session)
    /\ clearing' = FALSE
    /\ UNCHANGED <<session, metrics, reporterVars>>

(* ... and announces the state, and the teardown goes on.                    *)
DisconnectedAnnounced ==
    /\ clearing
    /\ SessionEnds
    /\ Reporter!Announce(FALSE, session)
    /\ clearing' = FALSE
    /\ UNCHANGED <<session, metrics, reporterVars>>

TunnelProgress == Unheard(Progress) \/ SessionAnnounced \/ DisconnectedAnnounced

-----------------------------------------------------------------------------
(* run_reporter, and Cloudflare.                                            *)

tunnelSide == <<vars, clearing, session, state, metrics>>

ReporterTask ==
    /\ UNCHANGED tunnelSide
    /\ Reporter!Heartbeat \/ Reporter!Changed \/ Reporter!SendReport

Beat == UNCHANGED tunnelSide /\ Reporter!Tick

Processed == UNCHANGED tunnelSide /\ Reporter!Processed

NotProcessed == UNCHANGED tunnelSide /\ Reporter!NotProcessed

ReporterEnds == UNCHANGED tunnelSide /\ Reporter!ReporterEnds

-----------------------------------------------------------------------------
SystemNext ==
    \/ TunnelProgress \/ Unheard(Chance) \/ UpdateTunnelMetrics \/ ClearMetrics
    \/ ReporterTask \/ Beat \/ Processed \/ NotProcessed \/ ReporterEnds

SystemSpec == SystemInit /\ [][SystemNext]_systemVars

(* Each task runs, system calls return, time passes; every request is         *)
(* answered or fails in the end, and not every report is lost.               *)
FairSystemSpec ==
    /\ SystemSpec
    /\ WF_systemVars(TunnelProgress)
    /\ WF_systemVars(ReporterTask) /\ WF_systemVars(Beat)
    /\ WF_systemVars(Processed \/ NotProcessed) /\ SF_systemVars(Processed)

-----------------------------------------------------------------------------
(* The calls run_tunnel_session makes come in the order DeviceReporter        *)
(* assumes, whichever way a session ends.                                   *)
ReporterSpec == Reporter!Spec

(* A report is not retried; the heartbeat repairs what a lost report or a     *)
(* change coalesced by the channel left wrong.  What the inventory shows is   *)
(* the tunnel's state in the end, across the two tasks: connected in this     *)
(* session while it lasts, not connected when no session comes any more.     *)
(* This needs a tunnel that keeps its session open of its own accord;         *)
(* finding_lifecycle shows how it fails with a packet captured while idle.    *)
InventoryFollowsTunnel ==
    /\ <>[](pc \in InSession) => <>[](server.connected /\ server.session = session)
    /\ <>[](pc \notin InSession) => <>[](~server.connected \/ pc = "exited")

=============================================================================
