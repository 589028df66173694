------------------------------ MODULE MCSetup ------------------------------
(***************************************************************************)
(* What comes before the packets, for TLC: the start of run_tunnel, the       *)
(* endpoints it selects, the tuning of a session's socket, the exchange with *)
(* an endpoint, and the path MTU of the session after it.  None sees the      *)
(* others' variables, so a behaviour has one of them; the others stand at a   *)
(* fixed state.                                                             *)
(***************************************************************************)
EXTENDS EndpointSelection, SocketTuning, TunnelStartup, Handshake, PathMtu

CONSTANTS a4, b4, a6, k1, k2

(* No list, a port to ignore, ports in and against priority, and repeated.   *)
MCPortLists ==
    {<<>>, <<0>>, <<443, 500>>, <<1701, 500, 443>>, <<500, 0, 4500, 500>>}

NotSelecting ==
    /\ peers = <<>> /\ legacy = NoLegacy /\ prefer_ipv6 = FALSE /\ port_override = 0
    /\ turn = <<1, 1, 1>> /\ endpoints = <<>> /\ outcome = "not asked"

NotTuning ==
    /\ initial = Minimum /\ limit = Minimum /\ target = Minimum
    /\ current = Minimum /\ effective = Minimum /\ candidate = Minimum
    /\ accepted = 0 /\ high = 0 /\ pc = "done"

NotStarting ==
    /\ ask = CHOOSE command \in Command : TRUE
    /\ at = "refused" /\ did = {} /\ tunnel = NotGiven

NotExchanging ==
    /\ cfg = [insecure |-> FALSE, idle |-> CHOOSE t \in IdleTimeouts : TRUE]
    /\ certificate = "none" /\ stage = "failed"
    /\ quic = [established |-> FALSE, draining |-> FALSE, closed |-> FALSE]
    /\ closeIn = 0 /\ left = 0 /\ waited = 0
    /\ requested = FALSE /\ unread = <<>> /\ heard = "nothing" /\ silent = TRUE

NotPumping ==
    /\ path = (CHOOSE s \in Spaces : TRUE) /\ space = path
    /\ found = Unknown /\ applied = Unknown /\ mtu = InitialMtu
    /\ queue = <<>> /\ loop = "ended" /\ budget = 0 /\ told = Nothing

Init ==
    \/ SelectInit /\ NotTuning /\ NotStarting /\ NotExchanging /\ NotPumping
    \/ NotSelecting /\ TuneInit /\ NotStarting /\ NotExchanging /\ NotPumping
    \/ NotSelecting /\ NotTuning /\ StartupInit /\ NotExchanging /\ NotPumping
    \/ NotSelecting /\ NotTuning /\ NotStarting /\ HandshakeInit /\ NotPumping
    \/ NotSelecting /\ NotTuning /\ NotStarting /\ NotExchanging /\ PathMtuInit

Next ==
    \/ Select /\ UNCHANGED <<tuneVars, startupVars, hsVars, pmVars>>
    \/ Tune /\ UNCHANGED <<selectVars, startupVars, hsVars, pmVars>>
    \/ Startup /\ UNCHANGED <<selectVars, tuneVars, hsVars, pmVars>>
    \/ stage # "failed" /\ HandshakeNext /\ UNCHANGED <<selectVars, tuneVars, startupVars, pmVars>>
    \/ loop # "ended" /\ PathMtuNext /\ UNCHANGED <<selectVars, tuneVars, startupVars, hsVars>>

Spec ==
    /\ Init /\ [][Next]_<<selectVars, tuneVars, startupVars, hsVars, pmVars>>
    /\ HandshakeFairness /\ PathMtuFairness

=============================================================================
