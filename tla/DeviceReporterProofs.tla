------------------------ MODULE DeviceReporterProofs ------------------------
(***************************************************************************)
(* Theorems about DeviceReporter, for any number of sessions.               *)
(***************************************************************************)
EXTENDS DeviceReporter, Integers, TLAPS

-----------------------------------------------------------------------------
(* The channel holds a state of the current session, and metrics exist only  *)
(* while that session is pumping.                                           *)
ChannelInv ==
    /\ state.session = session
    /\ phase \in {"announced", "pumping", "clearing"} => state.connected
    /\ metrics # NoMetrics => phase = "pumping" /\ metrics = session

(* What Cloudflare processed, what the reporter read, and what the channel   *)
(* holds, in the order of the tunnel's history.                             *)
OrderInv ==
    /\ At(server) <= At(taken)
    /\ At(taken) <= At(state)
    /\ taken.session <= state.session

(* At most one report is awaited, and it is the one that was read.          *)
AwaitInv ==
    /\ rpc \in {"select", "read"} => posts = {}
    /\ \A p \in posts : p.state = taken

IInv == TypeOK /\ ChannelInv /\ OrderInv /\ AwaitInv /\ StatsNotOlder

-----------------------------------------------------------------------------
(* A state's position is an integer.                                        *)
LEMMA AtType ==
    ASSUME NEW s \in ConnectionState
    PROVE  /\ s.session \in Nat /\ s.connected \in BOOLEAN
           /\ At(s) \in Int
           /\ At(s) = 2 * s.session - (IF s.connected THEN 1 ELSE 0)
BY ReporterConfig DEF At, ConnectionState

(* A state built from its parts.                                            *)
LEMMA BuiltState ==
    ASSUME NEW c \in BOOLEAN, NEW i \in 0 .. MaxSessions
    PROVE  /\ [connected |-> c, session |-> i] \in ConnectionState
           /\ [connected |-> c, session |-> i].connected = c
           /\ [connected |-> c, session |-> i].session = i
BY ReporterConfig DEF ConnectionState

(* The reporter starts with nothing announced.                              *)
LEMMA InitInv == Init => IInv
<1> SUFFICES ASSUME Init PROVE IInv
  OBVIOUS
<1>1. NeverConnected \in ConnectionState /\ NeverConnected.session = 0 /\ ~NeverConnected.connected
  BY ReporterConfig DEF NeverConnected, ConnectionState
<1>2. At(NeverConnected) = 0
  BY <1>1, AtType
<1>3. TypeOK
  <2>1. unseen \in BOOLEAN /\ due \in BOOLEAN
    BY DEF Init
  <2>2. session \in 0 .. MaxSessions /\ metrics \in 0 .. MaxSessions
    BY ReporterConfig DEF Init, NoMetrics
  <2>3. posts \subseteq Report /\ \A p, q \in posts : p = q
    BY DEF Init
  <2> QED BY <1>1, <2>1, <2>2, <2>3 DEF Init, TypeOK
<1>4. ChannelInv
  BY <1>1 DEF Init, ChannelInv, NoMetrics
<1>5. OrderInv
  <2>1. server = NeverConnected /\ taken = NeverConnected /\ state = NeverConnected
    BY DEF Init
  <2> QED BY <1>1, <1>2, <2>1 DEF OrderInv
<1>6. AwaitInv /\ StatsNotOlder
  BY DEF Init, AwaitInv, StatsNotOlder
<1> QED BY <1>3, <1>4, <1>5, <1>6 DEF IInv

(* The steps of the tunnel task move the channel forward.                   *)
LEMMA TunnelKeepsInv == IInv /\ Tunnel => IInv'
<1> SUFFICES ASSUME IInv, Tunnel PROVE IInv'
  OBVIOUS
<1> USE ReporterConfig
<1>1. UNCHANGED <<rpc, taken, due, posts, server>>
  BY DEF Tunnel, Connected, SessionLost, StartPump, UpdateTunnelMetrics, ClearMetrics,
         Disconnected, TunnelExits, reporterOnly
<1>2. taken \in ConnectionState /\ state \in ConnectionState /\ session \in 0 .. MaxSessions
  BY DEF IInv, TypeOK
<1>3. CASE Connected
  <2> DEFINE new == [connected |-> TRUE, session |-> session + 1]
  <2>1. session + 1 \in 0 .. MaxSessions /\ state' = new /\ session' = session + 1
    BY <1>2, <1>3 DEF Connected, Announce
  <2>2. new \in ConnectionState /\ new.connected = TRUE /\ new.session = session + 1
    BY <2>1, BuiltState
  <2>3. At(new) = 2 * (session + 1) - 1
    BY <2>2, AtType
  <2>4. state.session = session /\ At(taken) <= At(state) /\ taken.session <= state.session
    BY DEF IInv, ChannelInv, OrderInv
  <2>5. At(taken) <= At(new) /\ taken.session <= new.session
    BY <1>2, <2>2, <2>3, <2>4, AtType
  <2> HIDE DEF new
  <2>6. TypeOK'
    BY <1>1, <1>3, <2>1, <2>2 DEF Connected, Announce, IInv, TypeOK
  <2>7. ChannelInv'
    BY <1>3, <2>1, <2>2 DEF Connected, IInv, ChannelInv
  <2>8. OrderInv'
    BY <1>1, <2>1, <2>5 DEF IInv, OrderInv, At
  <2> QED BY <1>1, <2>6, <2>7, <2>8 DEF IInv, AwaitInv, StatsNotOlder
<1>4. CASE Disconnected
  <2> DEFINE new == [connected |-> FALSE, session |-> session]
  <2>1. state' = new /\ session' = session
    BY <1>4 DEF Disconnected, Announce
  <2>2. new \in ConnectionState /\ new.connected = FALSE /\ new.session = session
    BY <1>2, BuiltState
  <2>3. At(new) = 2 * session
    BY <1>2, <2>2, AtType
  <2>4. state.session = session /\ At(taken) <= At(state) /\ taken.session <= state.session
    BY DEF IInv, ChannelInv, OrderInv
  <2>5. At(taken) <= At(new) /\ taken.session <= new.session
    BY <1>2, <2>2, <2>3, <2>4, AtType
  <2> HIDE DEF new
  <2>6. TypeOK'
    BY <1>1, <1>4, <2>1, <2>2 DEF Disconnected, Announce, IInv, TypeOK
  <2>7. ChannelInv'
    BY <1>4, <2>1, <2>2 DEF Disconnected, IInv, ChannelInv
  <2>8. OrderInv'
    BY <1>1, <2>1, <2>5 DEF IInv, OrderInv, At
  <2> QED BY <1>1, <2>6, <2>7, <2>8 DEF IInv, AwaitInv, StatsNotOlder
<1>5. CASE SessionLost \/ StartPump \/ UpdateTunnelMetrics \/ ClearMetrics \/ TunnelExits
  <2>1. UNCHANGED <<state, session>>
    BY <1>5 DEF SessionLost, StartPump, UpdateTunnelMetrics, ClearMetrics, TunnelExits
  <2>2. TypeOK' /\ ChannelInv'
    BY <1>1, <1>5, <2>1 DEF SessionLost, StartPump, UpdateTunnelMetrics, ClearMetrics, TunnelExits,
                            IInv, TypeOK, ChannelInv, NoMetrics
  <2>3. OrderInv'
    BY <1>1, <2>1 DEF IInv, OrderInv, At
  <2> QED BY <1>1, <2>1, <2>2, <2>3 DEF IInv, AwaitInv, StatsNotOlder
<1> QED BY <1>3, <1>4, <1>5 DEF Tunnel

(* Reading the channel, on a heartbeat or on a change.                      *)
LEMMA ReadKeepsInv == IInv /\ (Heartbeat \/ Changed) => IInv'
<1> SUFFICES ASSUME IInv, Heartbeat \/ Changed PROVE IInv'
  OBVIOUS
<1>1. UNCHANGED <<tunnelVars, posts, server>> /\ taken' = state /\ rpc = "select" /\ rpc' = "read"
  BY DEF Heartbeat, Changed
<1>2. posts = {}
  BY <1>1 DEF IInv, AwaitInv
<1>3. TypeOK'
  BY <1>1, <1>2 DEF Heartbeat, Changed, IInv, TypeOK, tunnelVars
<1>4. OrderInv'
  <2>1. state \in ConnectionState /\ taken \in ConnectionState /\ server \in ConnectionState
    BY DEF IInv, TypeOK
  <2>2. At(server) <= At(state)
    BY <2>1, AtType DEF IInv, OrderInv
  <2>3. At(state) <= At(state) /\ state.session <= state.session
    BY <2>1, AtType
  <2> QED BY <1>1, <2>2, <2>3 DEF OrderInv, At, tunnelVars
<1> QED BY <1>1, <1>2, <1>3, <1>4 DEF IInv, ChannelInv, AwaitInv, StatsNotOlder, tunnelVars

(* Building a report: the metrics are read after the state.                 *)
LEMMA SendKeepsInv == IInv /\ SendReport => IInv'
<1> SUFFICES ASSUME IInv, SendReport PROVE IInv'
  OBVIOUS
<1> DEFINE stats == IF taken.connected THEN metrics ELSE NoMetrics
           report == [state |-> taken, stats |-> stats]
<1>1. UNCHANGED <<tunnelVars, unseen, taken, due, server>> /\ posts = {} /\ posts' = {report}
      /\ rpc' = "post"
  BY DEF SendReport, IInv, AwaitInv
<1>2. stats \in 0 .. MaxSessions /\ taken \in ConnectionState
  BY ReporterConfig DEF IInv, TypeOK, NoMetrics
<1>3. report \in Report /\ report.state = taken /\ report.stats = stats
  BY <1>2 DEF Report
<1>4. stats # NoMetrics => taken.connected /\ stats >= taken.session
  <2>1. metrics # NoMetrics => metrics = state.session
    BY DEF IInv, ChannelInv
  <2>2. taken.session <= state.session /\ taken.session \in Nat /\ state.session \in Nat
    BY <1>2, AtType DEF IInv, OrderInv, TypeOK
  <2> QED BY <2>1, <2>2
<1> HIDE DEF report
<1>5. TypeOK'
  BY <1>1, <1>3 DEF IInv, TypeOK, tunnelVars
<1>6. StatsNotOlder' /\ AwaitInv'
  BY <1>1, <1>3, <1>4 DEF StatsNotOlder, AwaitInv
<1> QED BY <1>1, <1>5, <1>6 DEF IInv, ChannelInv, OrderInv, At, tunnelVars

(* The answer: what was processed is the report that was read.              *)
LEMMA AnswerKeepsInv == IInv /\ (Processed \/ NotProcessed) => IInv' /\ At(server') >= At(server)
<1> SUFFICES ASSUME IInv, Processed \/ NotProcessed PROVE IInv' /\ At(server') >= At(server)
  OBVIOUS
<1>0. state \in ConnectionState /\ taken \in ConnectionState /\ server \in ConnectionState
  BY DEF IInv, TypeOK
<1>1. PICK p \in posts : Answered(p) /\ (server' = p.state \/ server' = server)
  BY DEF Processed, NotProcessed
<1>2. UNCHANGED <<tunnelVars, unseen, taken, due>> /\ posts' \subseteq posts
      /\ posts' = {} /\ rpc # "select" /\ rpc # "read"
  BY <1>1 DEF Answered, IInv, TypeOK, AwaitInv
<1>3. rpc' \in {"select", "ended"}
  BY <1>1, <1>2 DEF Answered, IInv, TypeOK
<1>4. server' = taken \/ server' = server
  BY <1>1 DEF IInv, AwaitInv
<1>5. At(server') <= At(taken) /\ At(server') >= At(server)
  BY <1>0, <1>4, AtType DEF IInv, OrderInv
<1>6. TypeOK'
  BY <1>0, <1>2, <1>3, <1>4 DEF IInv, TypeOK, tunnelVars
<1>7. OrderInv'
  BY <1>2, <1>5 DEF IInv, OrderInv, At, tunnelVars
<1> QED BY <1>2, <1>3, <1>5, <1>6, <1>7 DEF IInv, ChannelInv, AwaitInv, StatsNotOlder, tunnelVars

(* Every step keeps the invariant, and moves the inventory forward or not at *)
(* all.                                                                     *)
LEMMA NextKeepsInv == IInv /\ [Next]_vars => IInv' /\ At(server') >= At(server)
<1> SUFFICES ASSUME IInv, [Next]_vars PROVE IInv' /\ At(server') >= At(server)
  OBVIOUS
<1>0. At(server) >= At(server)
  BY AtType DEF IInv, TypeOK
<1>1. CASE Tunnel
  <2>1. server' = server
    BY <1>1 DEF Tunnel, Connected, SessionLost, StartPump, UpdateTunnelMetrics, ClearMetrics,
                Disconnected, TunnelExits, reporterOnly
  <2> QED BY <1>0, <1>1, <2>1, TunnelKeepsInv DEF At
<1>2. CASE Reporter
  <2>1. server' = server
    BY <1>2 DEF Reporter, Heartbeat, Changed, SendReport
  <2> QED BY <1>0, <1>2, <2>1, ReadKeepsInv, SendKeepsInv DEF Reporter, At
<1>3. CASE Processed \/ NotProcessed
  BY <1>3, AnswerKeepsInv
<1>4. CASE Tick \/ ReporterEnds \/ UNCHANGED vars
  <2>1. UNCHANGED <<tunnelVars, unseen, taken, posts, server>>
        /\ (rpc' = rpc \/ rpc' = "ended") /\ (due' = due \/ due' = TRUE)
    BY <1>4 DEF Tick, ReporterEnds, vars
  <2>2. TypeOK'
    BY <2>1 DEF IInv, TypeOK, tunnelVars
  <2> QED BY <1>0, <2>1, <2>2
             DEF IInv, ChannelInv, OrderInv, AwaitInv, StatsNotOlder, At, tunnelVars
<1> QED BY <1>1, <1>2, <1>3, <1>4 DEF Next

-----------------------------------------------------------------------------
(* The reporter stays well typed and awaits at most one report.             *)
THEOREM TypeCorrect == Spec => []TypeOK
<1>1. IInv => TypeOK
  BY DEF IInv
<1> QED BY <1>1, InitInv, NextKeepsInv, PTL DEF Spec

(* device_state.rs, run_reporter: no report shows a session with statistics  *)
(* of an earlier one.                                                       *)
THEOREM StatsOfTheSession == Spec => []StatsNotOlder
<1>1. IInv => StatsNotOlder
  BY DEF IInv
<1> QED BY <1>1, InitInv, NextKeepsInv, PTL DEF Spec

(* device_state.rs, report_current_state: awaited one at a time, reports     *)
(* move the inventory forward only.                                         *)
THEOREM InventoryForward == Spec => InventoryNotBackwards
<1> QED BY InitInv, NextKeepsInv, PTL DEF Spec, InventoryNotBackwards

=============================================================================
