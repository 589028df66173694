---------------------------- MODULE TunnelStartup ----------------------------
(***************************************************************************)
(* run_tunnel of commands.rs, from the command line to maintain_native_tun:  *)
(* the options are checked against each other, then the registration is      *)
(* refreshed, the probe built and the endpoints selected, the device-state    *)
(* reporter started, and the interface created.  What the file or Cloudflare *)
(* answers at each await is chosen there.                                   *)
(***************************************************************************)
EXTENDS Naturals

CONSTANTS
    MtuOptions,     \* values of --mtu and --max-tun-mtu
    MinMtu,         \* IPV6_MIN_MTU
    Periods         \* values of --keepalive-period and --max-idle-timeout, 0 for off

ASSUME StartupConfig ==
    /\ MtuOptions \subseteq Nat /\ Periods \subseteq Nat
    /\ MinMtu \in Nat

VARIABLES
    ask,            \* the command, its options and the role config.json records
    at,             \* where run_tunnel stands
    did,            \* what it has done that others can see
    tunnel          \* what maintain_native_tun is given

startupVars == <<ask, at, did, tunnel>>

Roles == {"client", "mesh"}

Effects == {"refresh", "reporter", "interface"}

Command ==
    [role : Roles, fileRole : Roles,
     identity : BOOLEAN,        \* the file has a Mesh identity
     valid : BOOLEAN,           \* the file loads; interface name and socket buffer will do
     mtu : MtuOptions, maxMtu : MtuOptions, ipv6 : BOOLEAN, pmtud : BOOLEAN,
     keepalive : Periods, idle : Periods, always : BOOLEAN]

NotGiven == [idle |-> 0, always |-> FALSE, probe |-> FALSE, reporter |-> FALSE]

StartupInit ==
    /\ ask \in Command
    /\ at = "options"
    /\ did = {}
    /\ tunnel = NotGiven

IsMesh == ask.role = "mesh"

(* --max-idle-timeout is an option of mesh-node; nativetun has none.         *)
role_max_idle_timeout == IF IsMesh THEN ask.idle ELSE 0

maintain_edge_session == ask.always \/ IsMesh

(* The early returns that depend on the options and the file alone.          *)
Acceptable ==
    /\ ask.fileRole = ask.role
    /\ IsMesh => ask.identity
    /\ ask.valid
    /\ ask.mtu <= ask.maxMtu
    /\ ask.ipv6 => ask.maxMtu >= MinMtu /\ (ask.pmtud \/ ask.mtu >= MinMtu)
    /\ IsMesh /\ role_max_idle_timeout # 0 /\ ask.keepalive # 0 =>
          role_max_idle_timeout > ask.keepalive

CheckOptions ==
    /\ at = "options"
    /\ at' = IF Acceptable THEN "refresh" ELSE "refused"
    /\ tunnel' = [tunnel EXCEPT !.idle = role_max_idle_timeout]
    /\ UNCHANGED <<ask, did>>

(* refresh_registration_after_version_change: needed or not; its failure is  *)
(* logged.                                                                  *)
Refresh ==
    /\ at = "refresh"
    /\ did' \in {did, did \union {"refresh"}}
    /\ at' = "prepare"
    /\ UNCHANGED <<ask, tunnel>>

(* build_mesh_activation_probe and select_endpoints_from_config: an assigned *)
(* address that does not parse, or no endpoint, is refused.                  *)
Prepare ==
    /\ at = "prepare"
    /\ at' \in {"reporter", "refused"}
    /\ tunnel' = [tunnel EXCEPT !.probe = IsMesh]
    /\ UNCHANGED <<ask, did>>

(* Mutant of StartReporter: a node that Cloudflare does not know continues.  *)
StartReporterOpen ==
    /\ at = "reporter"
    /\ \E started \in BOOLEAN :
          /\ tunnel' = [tunnel EXCEPT !.reporter = started]
          /\ did' = IF started THEN did \union {"reporter"} ELSE did
    /\ at' = "interface"
    /\ UNCHANGED ask

(* DeviceStateReporter::start: the registration is fetched and has an account *)
(* and a registration id, and the task is spawned; or else a Mesh node stops  *)
(* and a client goes on without.                                            *)
StartReporter ==
    /\ at = "reporter"
    /\ \E started \in BOOLEAN :
          /\ tunnel' = [tunnel EXCEPT !.reporter = started]
          /\ did' = IF started THEN did \union {"reporter"} ELSE did
          /\ at' = IF started \/ ~IsMesh THEN "interface" ELSE "refused"
    /\ UNCHANGED ask

(* TunRsDevice::create, and the configuration of the supervisor, where the   *)
(* private key of the file is decoded: only now may it turn out unusable.    *)
CreateInterface ==
    /\ at = "interface"
    /\ \/ /\ at' = "running"
          /\ did' = did \union {"interface"}
          /\ tunnel' = [tunnel EXCEPT !.always = maintain_edge_session]
       \/ at' = "refused" /\ did' \in {did, did \union {"interface"}} /\ UNCHANGED tunnel
    /\ UNCHANGED ask

Startup == CheckOptions \/ Refresh \/ Prepare \/ StartReporter \/ CreateInterface

StartupSpec == StartupInit /\ [][Startup]_startupVars

-----------------------------------------------------------------------------
StartupTypeOK ==
    /\ ask \in Command
    /\ at \in {"options", "refresh", "prepare", "reporter", "interface", "running", "refused"}
    /\ did \subseteq Effects
    /\ tunnel \in [idle : Periods \union {0}, always : BOOLEAN, probe : BOOLEAN, reporter : BOOLEAN]

(* What TunnelSupervisor and TunDevice assume of their constants, and a       *)
(* connection whose own idle timer does not outrun its keepalive.            *)
Workable ==
    /\ ask.mtu <= ask.maxMtu
    /\ ask.ipv6 => (IF ask.pmtud THEN ask.maxMtu ELSE ask.mtu) >= MinMtu
    /\ tunnel.idle # 0 /\ ask.keepalive # 0 => ask.keepalive < tunnel.idle

(* run_tunnel fails closed, whichever of its checks comes first.  Options      *)
(* that cannot work together are refused before anything has changed: no     *)
(* update of the registration, no report, no interface.  No session is       *)
(* maintained for a Mesh node that is not tracked, has another role's         *)
(* registration, or would not be kept up; a client has neither its probe nor *)
(* its idle timeout.                                                        *)
FailsClosed ==
    /\ did # {} => Workable
    /\ at = "running" =>
          /\ ask.fileRole = ask.role
          /\ IsMesh => tunnel.reporter /\ tunnel.always /\ tunnel.probe /\ tunnel.idle = ask.idle
          /\ ~IsMesh => tunnel.idle = 0 /\ ~tunnel.probe

=============================================================================
