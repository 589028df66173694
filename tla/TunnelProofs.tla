---------------------------- MODULE TunnelProofs ----------------------------
(***************************************************************************)
(* Theorems about the tunnel task, for every endpoint list, MTU range and    *)
(* configuration that run_tunnel accepts.  The first part is about            *)
(* TunnelSupervisor; the second is about TunnelSystem, in which the tunnel    *)
(* task and the device-state reporter run side by side: the task takes only   *)
(* the steps it takes alone, so that the first part holds there too, and it   *)
(* makes its calls on the reporter in the order that DeviceReporter assumes,  *)
(* so that what DeviceReporterProofs says of its reports holds of the program. *)
(***************************************************************************)
EXTENDS TunnelSystem, TLAPS


-----------------------------------------------------------------------------
(* Rotation stays within the list, and moves to the next endpoint unless it *)
(* starts over.                                                             *)
LEMMA NextIndex ==
    ASSUME NEW current \in Endpoints, NEW ok \in BOOLEAN
    PROVE  /\ next_endpoint_index(current, ok) \in Endpoints
           /\ next_endpoint_index(current, ok) # 0 =>
                 ~ok /\ current = next_endpoint_index(current, ok) - 1
<1>1. NEndpoints \in Nat \ {0}
  BY SupervisorConfig
<1>2. CASE current + 1 = NEndpoints
  <2>1. (current + 1) % NEndpoints = 0
    BY <1>1, <1>2 DEF Endpoints
  <2> QED BY <1>1, <2>1 DEF Endpoints, next_endpoint_index
<1>3. CASE current + 1 # NEndpoints
  <2>1. current + 1 \in 0 .. NEndpoints - 1
    BY <1>1, <1>3 DEF Endpoints
  <2>2. (current + 1) % NEndpoints = current + 1
    BY <1>1, <2>1
  <2> QED BY <1>1, <2>1, <2>2 DEF Endpoints, next_endpoint_index
<1> QED BY <1>2, <1>3

(* A call of apply_path_mtu is well formed, and enables IPv6 only for an MTU *)
(* that supports it.                                                        *)
LEMMA PathMtuJobType ==
    ASSUME NEW mtu \in Mtus, NEW allow \in BOOLEAN
    PROVE  /\ PathMtuJob(mtu, allow) \in Job
           /\ PathMtuJob(mtu, allow).mtu = mtu
           /\ PathMtuJob(mtu, allow).enable <=> allow /\ mtu >= Ipv6MinMtu
           /\ PathMtuJob(mtu, allow).step =
                 IF PathMtuJob(mtu, allow).enable THEN "setmtu" ELSE "disable"
<1> DEFINE e == allow /\ ipv6_path_supported(mtu)
<1>1. e \in BOOLEAN
  BY DEF ipv6_path_supported
<1>2. PathMtuJob(mtu, allow) =
        [mtu |-> mtu, enable |-> e, step |-> IF e THEN "setmtu" ELSE "disable"]
  BY DEF PathMtuJob
<1>3. e <=> allow /\ mtu >= Ipv6MinMtu
  BY DEF ipv6_path_supported
<1> HIDE DEF e
<1> QED BY <1>1, <1>2, <1>3 DEF Job, JobStep

(* The device and the supervisor start well typed.                          *)
LEMMA InitTypeOK == Init => TypeOK
<1>1. PathMtuJob(InitialMtu, TunnelIpv6 /\ ~PmtudEnabled) \in Job
    BY PathMtuJobType, SupervisorConfig, DeviceConfig
<1>2. InitialMtu \in Mtus /\ InitialIpv6 \in BOOLEAN /\ 0 \in Endpoints /\ 0 \in 0 .. MaxFaults
    BY SupervisorConfig, DeviceConfig DEF InitialIpv6, Endpoints
<1>3. Init => DeviceTypeOK
    BY <1>1, <1>2 DEF Init, DeviceTypeOK
<1>4. Init => TypeOK
  <2> SUFFICES ASSUME Init PROVE TypeOK
    OBVIOUS
  <2>1. last \in [endpoint : Endpoints, ok : BOOLEAN]
    BY <1>2 DEF Init
  <2>2. established \in BOOLEAN /\ pending \in BOOLEAN /\ orphans \in BOOLEAN
    BY DEF Init
  <2>3. faults \in 0 .. MaxFaults /\ index \in Endpoints
    BY <1>2 DEF Init
  <2> QED BY <1>3, <2>1, <2>2, <2>3 DEF Init, TypeOK, PcValues
<1> QED BY <1>4

(* Every step keeps the types.                                              *)
LEMMA NextTypeOK == TypeOK /\ [Next]_vars => TypeOK'
<1> SUFFICES ASSUME TypeOK, [Next]_vars PROVE TypeOK'
    OBVIOUS
<1> USE SupervisorConfig, DeviceConfig
      DEF TypeOK, DeviceTypeOK, Job, JobStep, PcValues, Attempting, InSession,
          vars, deviceVars, sessionVars, sideVars, envVars, NoJob, Transient,
          Returned, Goto, ApplyPathMtu, ApplyInitial, ReturnToSupervisor, AttemptFails
<1>0. /\ PathMtuJob(InitialMtu, TunnelIpv6 /\ ~PmtudEnabled) \in Job
        /\ \A m \in Mtus : PathMtuJob(m, TRUE) \in Job
    BY PathMtuJobType
<1>1. CASE DeviceStep
    <2>1. CASE DisableIpv6 BY <1>1, <2>1, ZenonT(60) DEF DeviceStep, DisableIpv6, SetIpv6Enabled
    <2>2. CASE SetMtu BY <1>1, <2>2 DEF DeviceStep, SetMtu
    <2>3. CASE EnableIpv6 BY <1>1, <2>3, ZenonT(60) DEF DeviceStep, EnableIpv6, SetIpv6Enabled
    <2> QED BY <1>1, <2>1, <2>2, <2>3 DEF DeviceStep, DeviceCall
<1>2. CASE Exit BY <1>2 DEF Exit
<1>3. CASE StartAttempt BY <1>3 DEF StartAttempt
<1>4. CASE Dial BY <1>4 DEF Dial
<1>5. CASE HandshakeDone BY <1>5 DEF HandshakeDone
<1>6. CASE HandshakeFails BY <1>0, <1>6 DEF HandshakeFails
<1>7. CASE ConnectRefused BY <1>0, <1>7 DEF ConnectRefused
<1>8. CASE ConnectAccepted BY <1>8 DEF ConnectAccepted
<1>9. CASE OpeningSent BY <1>9 DEF OpeningSent
<1>10. CASE PendingFails BY <1>0, <1>10 DEF PendingFails
<1>11. CASE PathMtuApplied BY <1>11 DEF PathMtuApplied
<1>12. CASE SelectNext
    BY <1>12, NextIndex DEF SelectNext
<1>13. CASE Wake BY <1>0, <1>13 DEF Wake
<1>14. CASE EndpointChanges BY <1>14 DEF EndpointChanges
<1>15. CASE DeviceFault BY <1>15 DEF DeviceFault, DeviceCallFails
<1>16. CASE DialFails BY <1>0, <1>16 DEF DialFails
<1>17. CASE OutboundActivity BY <1>17 DEF OutboundActivity
<1>18. CASE TunClosed BY <1>18 DEF TunClosed
<1>19. CASE PathMtuFound BY <1>0, <1>19, ZenonT(60) DEF PathMtuFound
<1>20. CASE SessionEnds BY <1>0, <1>20 DEF SessionEnds
<1>21. CASE UNCHANGED vars BY <1>21
<1> QED
    BY <1>1, <1>2, <1>3, <1>4, <1>5, <1>6, <1>7, <1>8, <1>9, <1>10,
       <1>11, <1>12, <1>13, <1>14, <1>15, <1>16, <1>17, <1>18, <1>19, <1>20, <1>21
    DEF Next, Progress, Chance

(* Every step of a run keeps the variables in their types.                  *)
THEOREM TypeCorrect == Spec => []TypeOK
BY InitTypeOK, NextTypeOK, PTL DEF Spec


-----------------------------------------------------------------------------
(* The inductive invariant.  DeviceInv says how far a call of               *)
(* apply_path_mtu has come; CapacityInv that only a session in its pump     *)
(* departs from the conservative interface and that the restore, once it    *)
(* succeeds, has undone that; RotationInv ties endpoint_index to the        *)
(* outcome of the attempt before.                                           *)
DeviceInv ==
    /\ ipv6 => tunMtu >= Ipv6MinMtu /\ TunnelIpv6 /\ ManageIpv6
    /\ job.enable => job.mtu >= Ipv6MinMtu
    /\ job.step = "disable" => ~job.enable
    /\ job.step = "setmtu" /\ ~job.enable => ~ipv6
    /\ job.step = "enable" => job.enable /\ tunMtu = job.mtu

Conservative == tunMtu = InitialMtu /\ (ipv6 <=> InitialIpv6)

InitialJob ==
    /\ job.mtu = InitialMtu
    /\ job.enable <=> TunnelIpv6 /\ ~PmtudEnabled

CapacityInv ==
    /\ pc \notin {"online", "restore", "exited"} => Conservative
    /\ pc \in {"top", "restore"} => InitialJob /\ job.step # "idle"
    /\ pc \notin {"top", "restore", "online"} => job.step = "idle"
    /\ pc = "restore" /\ (job.step = "ok" \/ ~established) => Conservative
    /\ pc = "online" /\ job.step # "idle" => PmtudEnabled
    /\ pc \in {"online", "restore"} /\ ~PmtudEnabled => Conservative

RotationInv ==
    /\ pc \in Attempting \union {"top", "idle", "sleep"} /\ index # 0 =>
          last = [endpoint |-> index - 1, ok |-> FALSE]
    /\ pc = "restore" => last = [endpoint |-> index, ok |-> established]
    /\ pc \in InSession => established
    /\ pc \in Attempting \union {"idle"} => ~established

OnDemandInv ==
    /\ ~Always /\ pc \in Attempting => pending
    /\ Always => ~pending /\ pc \notin {"idle", "pending"}

IInv == TypeOK /\ DeviceInv /\ CapacityInv /\ RotationInv /\ OnDemandInv

(* Both calls of apply_path_mtu in maintain_native_tun ask for the          *)
(* conservative interface; run_tunnel has refused an IPv6 tunnel without    *)
(* discovery whose fixed MTU is too small.                                  *)
LEMMA InitialJobAsked ==
    LET initial == PathMtuJob(InitialMtu, TunnelIpv6 /\ ~PmtudEnabled) IN
    /\ initial \in Job
    /\ initial.mtu = InitialMtu
    /\ initial.enable <=> TunnelIpv6 /\ ~PmtudEnabled
    /\ initial.enable => InitialMtu >= Ipv6MinMtu
    /\ initial.step = IF initial.enable THEN "setmtu" ELSE "disable"
<1>1. (TunnelIpv6 /\ ~PmtudEnabled) \in BOOLEAN /\ InitialMtu \in Mtus
  BY SupervisorConfig
<1> QED BY <1>1, PathMtuJobType, SupervisorConfig

(* The strengthening behind the safety theorems: what each place in the     *)
(* supervisor knows about the interface, the index and the captured packet. *)
THEOREM InductiveInvariant == Spec => []IInv
<1>1. Init => IInv
  <2> SUFFICES ASSUME Init PROVE DeviceInv /\ CapacityInv /\ RotationInv /\ OnDemandInv
    BY InitTypeOK DEF IInv
  <2>1. DeviceInv
    BY InitialJobAsked, SupervisorConfig DEF Init, DeviceInv, InitialIpv6
  <2>2. CapacityInv
    BY InitialJobAsked DEF Init, CapacityInv, Conservative, InitialJob, InitialIpv6
  <2>3. RotationInv /\ OnDemandInv
    BY DEF Init, RotationInv, OnDemandInv, Attempting, InSession
  <2> QED BY <2>1, <2>2, <2>3
<1>2. IInv /\ [Next]_vars => IInv'
  <2> SUFFICES ASSUME IInv, [Next]_vars
               PROVE  DeviceInv' /\ CapacityInv' /\ RotationInv' /\ OnDemandInv'
    BY NextTypeOK DEF IInv
  <2> USE SupervisorConfig, DeviceConfig
      DEF IInv, TypeOK, DeviceTypeOK, Job, JobStep, DeviceInv, CapacityInv, RotationInv,
          OnDemandInv, Conservative, InitialJob, InitialIpv6, PcValues, Attempting, InSession,
          vars, deviceVars, sessionVars, sideVars, envVars, NoJob, Transient,
          Returned, Goto, ApplyPathMtu, ApplyInitial, ReturnToSupervisor, AttemptFails
  <2>0. /\ PathMtuJob(InitialMtu, TunnelIpv6 /\ ~PmtudEnabled).mtu = InitialMtu
        /\ PathMtuJob(InitialMtu, TunnelIpv6 /\ ~PmtudEnabled).enable <=>
              TunnelIpv6 /\ ~PmtudEnabled
        /\ PathMtuJob(InitialMtu, TunnelIpv6 /\ ~PmtudEnabled).enable =>
              InitialMtu >= Ipv6MinMtu
        /\ PathMtuJob(InitialMtu, TunnelIpv6 /\ ~PmtudEnabled).step =
              IF PathMtuJob(InitialMtu, TunnelIpv6 /\ ~PmtudEnabled).enable
                THEN "setmtu" ELSE "disable"
    BY InitialJobAsked
  <2>1. CASE DeviceStep
    <3>1. CASE DisableIpv6
      <4>1. ~ipv6' /\ tunMtu' = tunMtu /\ job' = [job EXCEPT !.step = "setmtu"]
        BY <3>1 DEF DisableIpv6, SetIpv6Enabled, NeedsSwitch
      <4>2. ~job.enable
        BY <3>1 DEF DisableIpv6
      <4> QED BY <2>1, <3>1, <4>1, <4>2 DEF DeviceStep, DisableIpv6
    <3>2. CASE SetMtu BY <2>1, <3>2 DEF DeviceStep, SetMtu
    <3>3. CASE EnableIpv6 BY <2>1, <3>3 DEF DeviceStep, EnableIpv6, SetIpv6Enabled, NeedsSwitch
    <3> QED BY <2>1, <3>1, <3>2, <3>3 DEF DeviceStep, DeviceCall
  <2>2. CASE Exit BY <2>2 DEF Exit
  <2>3. CASE StartAttempt BY <2>3 DEF StartAttempt
  <2>4. CASE Dial BY <2>4 DEF Dial
  <2>5. CASE HandshakeDone BY <2>5 DEF HandshakeDone
  <2>6. CASE HandshakeFails BY <2>0, <2>6 DEF HandshakeFails
  <2>7. CASE ConnectRefused BY <2>0, <2>7 DEF ConnectRefused
  <2>8. CASE ConnectAccepted BY <2>8 DEF ConnectAccepted
  <2>9. CASE OpeningSent BY <2>9 DEF OpeningSent
  <2>10. CASE PendingFails BY <2>0, <2>10 DEF PendingFails
  <2>11. CASE PathMtuApplied BY <2>11 DEF PathMtuApplied
  <2>12. CASE SelectNext BY <2>12, NextIndex DEF SelectNext
  <2>13. CASE Wake BY <2>0, <2>13 DEF Wake
  <2>14. CASE EndpointChanges BY <2>14 DEF EndpointChanges
  <2>15. CASE DeviceFault BY <2>15 DEF DeviceFault, DeviceCallFails
  <2>16. CASE DialFails BY <2>0, <2>16 DEF DialFails
  <2>17. CASE OutboundActivity
    <3>1. ~Always /\ pc = "idle" /\ pc' = "dial" /\ pending'
      BY <2>17 DEF OutboundActivity
    <3>2. UNCHANGED <<tunMtu, ipv6, job, index, established, last>>
      BY <2>17 DEF OutboundActivity
    <3>3. DeviceInv' /\ CapacityInv'
      BY <3>1, <3>2
    <3>4. RotationInv'
      BY <2>17, <3>1, <3>2 DEF OutboundActivity
    <3>5. OnDemandInv'
      BY <3>1
    <3> QED BY <3>3, <3>4, <3>5
  <2>18. CASE TunClosed BY <2>18 DEF TunClosed
  <2>19. CASE PathMtuFound
    <3>1. PICK m \in Mtus : job' = PathMtuJob(m, TRUE)
      BY <2>19 DEF PathMtuFound
    <3>2. /\ job'.mtu = m
          /\ job'.enable <=> m >= Ipv6MinMtu
          /\ job'.step = IF job'.enable THEN "setmtu" ELSE "disable"
      BY <3>1, PathMtuJobType
    <3> QED BY <2>19, <3>2 DEF PathMtuFound
  <2>20. CASE SessionEnds BY <2>0, <2>20 DEF SessionEnds
  <2>21. CASE UNCHANGED vars BY <2>21
  <2> QED
    BY <2>1, <2>2, <2>3, <2>4, <2>5, <2>6, <2>7, <2>8, <2>9, <2>10, <2>11, <2>12, <2>13, <2>14, <2>15, <2>16, <2>17, <2>18, <2>19, <2>20, <2>21
    DEF Next, Progress, Chance
<1> QED BY <1>1, <1>2, PTL DEF Spec

-----------------------------------------------------------------------------
(* native_tun.rs, apply_path_mtu: between any two system calls, and after a  *)
(* failed one, IPv6 is on the interface only with the MTU it needs.          *)
THEOREM Ipv6MinMtuHolds == Spec => []Ipv6NeedsMinMtu
<1>1. IInv => Ipv6NeedsMinMtu
  BY DEF IInv, DeviceInv, Ipv6NeedsMinMtu
<1> QED BY <1>1, InductiveInvariant, PTL

(* supervisor.rs: no endpoint is dialled, no packet awaited and no delay     *)
(* slept through with the interface of an earlier path.                      *)
THEOREM OfflineConservative == Spec => []OfflineIsConservative
<1>1. IInv => OfflineIsConservative
  <2> SUFFICES ASSUME IInv, pc \in {"idle", "sleep"} \union Attempting
               PROVE  tunMtu = InitialMtu /\ ipv6 = InitialIpv6
    BY DEF OfflineIsConservative
  <2>1. tunMtu = InitialMtu /\ (ipv6 <=> InitialIpv6)
    BY DEF IInv, CapacityInv, Conservative, Attempting
  <2>2. ipv6 \in BOOLEAN /\ InitialIpv6 \in BOOLEAN
    BY DEF IInv, TypeOK, DeviceTypeOK, InitialIpv6
  <2> QED BY <2>1, <2>2
<1> QED BY <1>1, InductiveInvariant, PTL

(* supervisor.rs: with on-demand reconnect every attempt, however many       *)
(* failed before it, is made for a packet that is still in hand.             *)
THEOREM OnDemand == Spec => []OnDemandHasPacket
<1>1. IInv => OnDemandHasPacket
  BY DEF IInv, OnDemandInv, OnDemandHasPacket
<1> QED BY <1>1, InductiveInvariant, PTL

(* supervisor.rs, next_endpoint_index: a fallback is dialled only after its  *)
(* predecessor in the list failed before establishment.                      *)
THEOREM FallbackOrder == Spec => []FallbackOnlyAfterFailure
<1>1. IInv => FallbackOnlyAfterFailure
  BY DEF IInv, RotationInv, FallbackOnlyAfterFailure
<1> QED BY <1>1, InductiveInvariant, PTL

(* masque.rs, pending_pkt.take(): an attempt that fails before the session   *)
(* is established leaves the captured packet for the next one.               *)
THEOREM PendingKept == Spec => PendingSurvivesFailure
<1>1. IInv /\ [Next]_vars => [pending /\ ~pending' => established]_vars
  <2> SUFFICES ASSUME IInv, [Next]_vars, pending, ~pending' PROVE established
    OBVIOUS
  <2>1. pc = "pending"
    BY DEF Next, Progress, Chance, DeviceStep, Exit, StartAttempt, Dial, HandshakeDone, HandshakeFails, ConnectRefused, ConnectAccepted, OpeningSent, PendingFails, PathMtuApplied, SelectNext, Wake, EndpointChanges, DeviceFault, DialFails, OutboundActivity, TunClosed, PathMtuFound, SessionEnds,
       AttemptFails, vars, sessionVars
  <2> QED BY <2>1 DEF IInv, RotationInv, InSession
<1> QED BY <1>1, InductiveInvariant, PTL DEF Spec, PendingSurvivesFailure

(* masque.rs, run_tunnel_session: when the supervisor reconnects without     *)
(* waiting for traffic there is never a captured packet to send, so no       *)
(* session returns past its teardown.                                        *)
THEOREM AlwaysPaired ==
    ASSUME Always = TRUE
    PROVE  Spec => []LifecyclePaired
<1> DEFINE Paired == LifecyclePaired /\ ~orphans
<1>1. Init => Paired
  BY DEF Init, LifecyclePaired
<1>2. IInv /\ Paired /\ [Next]_vars => Paired'
  <2> SUFFICES ASSUME IInv, Paired, [Next]_vars PROVE Paired'
    OBVIOUS
  <2>1. pc # "pending"
    BY DEF IInv, OnDemandInv
  <2>2. CASE ConnectAccepted
    BY <2>2 DEF ConnectAccepted, LifecyclePaired, InSession
  <2>3. CASE SessionEnds
    BY <2>3 DEF SessionEnds, ReturnToSupervisor, LifecyclePaired
  <2>4. CASE ~ConnectAccepted /\ ~SessionEnds
    <3>1. UNCHANGED sideVars
      BY <2>1, <2>4 DEF Next, Progress, Chance, DeviceStep, Exit, StartAttempt, Dial, HandshakeDone, HandshakeFails, ConnectRefused, OpeningSent, PendingFails, PathMtuApplied, SelectNext, Wake, EndpointChanges, DeviceFault, DialFails, OutboundActivity, TunClosed, PathMtuFound,
         AttemptFails, vars
    <3>2. pc \in InSession => pc' \in InSession
      BY <2>1, <2>4 DEF InSession, Next, Progress, Chance, DeviceStep, Exit, StartAttempt, Dial, HandshakeDone, HandshakeFails, ConnectRefused, OpeningSent, PendingFails, PathMtuApplied, SelectNext, Wake, EndpointChanges, DeviceFault, DialFails, OutboundActivity, TunClosed, PathMtuFound,
         AttemptFails, vars, sessionVars
    <3> QED BY <3>1, <3>2 DEF LifecyclePaired, sideVars
  <2> QED BY <2>2, <2>3, <2>4
<1>3. Paired => LifecyclePaired
  OBVIOUS
<1> QED BY <1>1, <1>2, <1>3, InductiveInvariant, PTL DEF Spec

(* masque.rs, run_tunnel_session: a captured packet that cannot be sent is    *)
(* the only way past the teardown.  Whatever else ends a session, on demand   *)
(* or not, the reporter, the hooks and the statistics task were told of it.   *)
THEOREM PairedUnlessDetached == Spec => [](orphans \/ LifecyclePaired)
<1> DEFINE Paired == orphans \/ LifecyclePaired
<1>1. Init => Paired
  BY DEF Init, LifecyclePaired
<1>2. Paired /\ [Next]_vars => Paired'
  <2> SUFFICES ASSUME Paired, [Next]_vars PROVE Paired'
    OBVIOUS
  <2>1. CASE ConnectAccepted
    BY <2>1 DEF ConnectAccepted, LifecyclePaired, InSession
  <2>2. CASE SessionEnds
    BY <2>2 DEF SessionEnds, ReturnToSupervisor, LifecyclePaired
  <2>3. CASE PendingFails
    BY <2>3 DEF PendingFails
  <2>4. CASE ~ConnectAccepted /\ ~SessionEnds /\ ~PendingFails
    <3>1. UNCHANGED sideVars
      BY <2>4 DEF Next, Progress, Chance, DeviceStep, Exit, StartAttempt, Dial, HandshakeDone, HandshakeFails, ConnectRefused, OpeningSent, PathMtuApplied, SelectNext, Wake, EndpointChanges, DeviceFault, DialFails, OutboundActivity, TunClosed, PathMtuFound,
         AttemptFails, vars
    <3>2. pc \in InSession => pc' \in InSession
      BY <2>4 DEF InSession, Next, Progress, Chance, DeviceStep, Exit, StartAttempt, Dial, HandshakeDone, HandshakeFails, ConnectRefused, OpeningSent, PathMtuApplied, SelectNext, Wake, EndpointChanges, DeviceFault, DialFails, OutboundActivity, TunClosed, PathMtuFound,
         AttemptFails, vars, sessionVars
    <3> QED BY <3>1, <3>2 DEF LifecyclePaired, sideVars
  <2> QED BY <2>1, <2>2, <2>3, <2>4
<1> QED BY <1>1, <1>2, PTL DEF Spec

-----------------------------------------------------------------------------
(* The interface an abstract step sees: its MTU, its IPv6 address and the    *)
(* phase of the session.                                                     *)
LEMMA StepImplementsPath == IInv /\ IInv' /\ [Next]_vars => [Path!Next]_Path!vars
<1> SUFFICES ASSUME IInv, IInv', [Next]_vars
             PROVE  Path!Next \/ UNCHANGED <<AbstractPhase, tunMtu, ipv6>>
  BY DEF Path!vars
<1> USE DEF Path!Next, AbstractPhase, InSession, Attempting
<1>0. ipv6 \in BOOLEAN /\ InitialIpv6 \in BOOLEAN /\ tunMtu' \in Mtus /\ ipv6' \in BOOLEAN
      /\ (ipv6' => tunMtu' >= Ipv6MinMtu)
  BY DEF IInv, TypeOK, DeviceTypeOK, DeviceInv, InitialIpv6
<1>1. CASE DeviceStep \/ DeviceFault
  <2>1. pc' = pc /\ established' = established /\ job.step # "idle"
    BY <1>1 DEF DeviceStep, DeviceFault, DeviceCall, DeviceCallFails, DisableIpv6, SetMtu,
                EnableIpv6, sessionVars
  <2>2. pc \in {"top", "restore", "online"}
    BY <2>1 DEF IInv, CapacityInv
  <2>3. CASE pc = "top" \/ (pc = "restore" /\ ~established)
    <3>1. Conservative /\ Conservative'
      BY <2>1, <2>3 DEF IInv, CapacityInv
    <3>2. UNCHANGED <<tunMtu, ipv6>>
      BY <1>0, <3>1 DEF Conservative, InitialIpv6
    <3> QED BY <2>1, <3>2
  <2>4. CASE pc = "online" \/ (pc = "restore" /\ established)
    <3>1. AbstractPhase = "session" /\ AbstractPhase' = "session"
      BY <2>1, <2>4
    <3> QED BY <1>0, <3>1 DEF Path!Adjust
  <2> QED BY <2>2, <2>3, <2>4
<1>2. CASE Exit \/ TunClosed
  <2>1. UNCHANGED <<tunMtu, ipv6>> /\ pc # "exited" /\ pc' = "exited"
    BY <1>2 DEF Exit, TunClosed, deviceVars
  <2> QED BY <2>1 DEF Path!Stop
<1>3. CASE ConnectAccepted
  <2>1. UNCHANGED <<tunMtu, ipv6>> /\ pc = "connect" /\ pc' \in InSession
    BY <1>3 DEF ConnectAccepted, deviceVars
  <2> QED BY <2>1 DEF Path!SessionStarts
<1>4. CASE SelectNext
  <2>1. UNCHANGED <<tunMtu, ipv6>> /\ pc = "restore" /\ pc' = "sleep" /\ job.step = "ok"
    BY <1>4 DEF SelectNext, Returned
  <2>2. tunMtu = InitialMtu /\ ipv6 = InitialIpv6
    BY <1>0, <2>1 DEF IInv, CapacityInv, Conservative
  <2>3. CASE established
    BY <2>1, <2>2, <2>3 DEF Path!SessionOver, Path!Conservative
  <2>4. CASE ~established
    BY <2>1, <2>4
  <2> QED BY <2>3, <2>4
<1>5. CASE PendingFails \/ SessionEnds
  BY <1>5 DEF PendingFails, SessionEnds, ReturnToSupervisor, IInv, RotationInv
<1>6. CASE DialFails \/ HandshakeFails \/ ConnectRefused
  BY <1>6 DEF DialFails, HandshakeFails, ConnectRefused, AttemptFails,
              ReturnToSupervisor, IInv, RotationInv
<1>7. CASE StartAttempt \/ Wake
  BY <1>7 DEF StartAttempt, Wake
<1>8. CASE Dial \/ HandshakeDone \/ OutboundActivity
  BY <1>8 DEF Dial, HandshakeDone, OutboundActivity, deviceVars
<1>9. CASE OpeningSent \/ PathMtuFound \/ PathMtuApplied
  BY <1>9 DEF OpeningSent, PathMtuFound, PathMtuApplied, deviceVars, sessionVars
<1>10. CASE EndpointChanges \/ UNCHANGED vars
  BY <1>10 DEF EndpointChanges, vars, deviceVars, sessionVars
<1> QED
  BY <1>1, <1>2, <1>3, <1>4, <1>5, <1>6, <1>7, <1>8, <1>9, <1>10 DEF Next, Progress, Chance

(* The supervisor and its sessions implement TunnelPath: the interface       *)
(* departs from the conservative configuration only within a session, and    *)
(* no session is over before that configuration is back.                     *)
THEOREM ImplementsPath == Spec => PathSpec
<1>1. Init => Path!Init
  BY DEF Init, Path!Init, Path!Conservative, AbstractPhase, InSession
<1> QED BY <1>1, StepImplementsPath, InductiveInvariant, PTL DEF Spec, PathSpec, Path!Spec

-----------------------------------------------------------------------------
(* The two tasks side by side.  A call on the reporter is made by a step of   *)
(* run_tunnel_session or leaves its state alone, and the reporter's own steps *)
(* leave it alone.                                                          *)
LEMMA SystemStepOfTask ==
    ASSUME [SystemNext]_systemVars
    PROVE  [Next]_vars
<1>1. CASE Unheard(Progress) \/ Unheard(Chance)
  BY <1>1 DEF Unheard, Next
<1>2. CASE SessionAnnounced
  BY <1>2 DEF SessionAnnounced, Next, Progress
<1>3. CASE DisconnectedAnnounced
  BY <1>3 DEF DisconnectedAnnounced, Next, Chance
<1>4. CASE UpdateTunnelMetrics \/ ClearMetrics
  BY <1>4 DEF UpdateTunnelMetrics, ClearMetrics
<1>5. CASE ReporterTask \/ Beat \/ Processed \/ NotProcessed \/ ReporterEnds
  BY <1>5 DEF ReporterTask, Beat, Processed, NotProcessed, ReporterEnds, tunnelSide
<1>6. CASE UNCHANGED systemVars
  BY <1>6 DEF systemVars
<1> QED BY <1>1, <1>2, <1>3, <1>4, <1>5, <1>6 DEF SystemNext, TunnelProgress

(* masque.rs: the reporter never holds the tunnel task up or makes it do      *)
(* what it would not do alone, and the order of the calls, the two halves of  *)
(* disconnected() included, is one the task can keep.                        *)
THEOREM ImplementsSupervisor == SystemSpec => Spec
<1>1. SystemInit => Init
  BY DEF SystemInit
<1> QED BY <1>1, SystemStepOfTask, PTL DEF SystemSpec, Spec

(* What the supervisor keeps, it keeps in the program: no IPv6 address below  *)
(* the IPv6 minimum, the conservative interface whenever there is no session, *)
(* no attempt on demand without a packet, a fallback only behind a failure,   *)
(* the captured packet given up only to a session, and the interface as       *)
(* TunnelPath promises it.                                                  *)
THEOREM SupervisorOfTheSystem ==
    SystemSpec => /\ [](/\ Ipv6NeedsMinMtu /\ OfflineIsConservative
                        /\ OnDemandHasPacket /\ FallbackOnlyAfterFailure)
                  /\ PendingSurvivesFailure
                  /\ PathSpec
<1> QED
  BY ImplementsSupervisor, Ipv6MinMtuHolds, OfflineConservative, OnDemand, FallbackOrder,
     PendingKept, ImplementsPath, PTL

(* The program of a Mesh node, whose reconnect.always is set: the reporter,   *)
(* the hooks and the statistics task were told of every end of a session.     *)
THEOREM AlwaysPairedInTheSystem ==
    ASSUME Always = TRUE
    PROVE  SystemSpec => []LifecyclePaired
<1>1. Spec => []LifecyclePaired
  BY AlwaysPaired
<1> QED BY <1>1, ImplementsSupervisor, PTL

-----------------------------------------------------------------------------
(* A session is announced only by an attempt that has none; disconnected()   *)
(* is cut in two only behind data_loop.                                     *)
CallInv ==
    /\ pc \in PcValues
    /\ pc \in {"idle"} \union Attempting => ~established
    /\ clearing \in BOOLEAN
    /\ clearing => pc = "online" /\ session < MaxSessions
    /\ pc \notin InSession => session < MaxSessions

(* Everything is down at first.                                             *)
LEMMA SystemInitInv == SystemInit => CallInv
<1> SUFFICES ASSUME SystemInit PROVE CallInv
  OBVIOUS
<1>1. pc = "top" /\ clearing = FALSE /\ session = 0
  BY DEF SystemInit, Init
<1>2. session < MaxSessions /\ ~clearing
  BY <1>1, SystemConfig
<1>3. pc \in PcValues /\ pc \notin {"idle"} \union Attempting /\ clearing \in BOOLEAN
  BY <1>1 DEF Attempting, PcValues
<1> QED BY <1>2, <1>3 DEF CallInv

(* What a step of the supervisor means to the reporter, which hears nothing  *)
(* of it: its session goes on, begins to pump, or is lost, or the tunnel      *)
(* ends.                                                                    *)
Silently ==
    \/ ReporterPhase' = ReporterPhase
    \/ ReporterPhase = "announced" /\ ReporterPhase' \in {"pumping", "down"}
    \/ ReporterPhase = "down" /\ ReporterPhase' = "gone"

(* The steps of Progress of which the reporter hears nothing.                *)
LEMMA UnheardProgress ==
    ASSUME CallInv, Unheard(Progress)
    PROVE  CallInv' /\ Silently
<1> USE DEF CallInv, Silently, ReporterPhase, InSession, Attempting, PcValues
<1>0. /\ ~clearing /\ ~clearing' /\ clearing' = clearing /\ session' = session
      /\ established' => established
      /\ ~(pc = "online" /\ pc' = "restore")
      /\ MayEnd \/ (pc \in InSession => pc' \in InSession)
      /\ Progress
  BY DEF Unheard, channelVars
<1>1. CASE DeviceStep
  BY <1>0, <1>1 DEF DeviceStep, sessionVars
<1>2. CASE Exit \/ StartAttempt \/ Wake \/ SelectNext
  BY <1>0, <1>2 DEF Exit, StartAttempt, Wake, SelectNext
<1>3. CASE Dial \/ HandshakeDone
  BY <1>0, <1>3 DEF Dial, HandshakeDone
<1>4. CASE HandshakeFails \/ ConnectRefused
  BY <1>0, <1>4 DEF HandshakeFails, ConnectRefused, AttemptFails,
                    ReturnToSupervisor
<1>5. CASE ConnectAccepted
  BY <1>0, <1>5 DEF ConnectAccepted
<1>6. CASE OpeningSent \/ PathMtuApplied
  BY <1>0, <1>6 DEF OpeningSent, PathMtuApplied, sessionVars
<1>7. CASE PendingFails
  BY <1>0, <1>7 DEF PendingFails, ReturnToSupervisor, MayEnd
<1> HIDE DEF CallInv, Silently
<1> QED BY <1>0, <1>1, <1>2, <1>3, <1>4, <1>5, <1>6, <1>7 DEF Progress

(* And those of Chance.                                                     *)
LEMMA UnheardChance ==
    ASSUME CallInv, Unheard(Chance)
    PROVE  CallInv' /\ Silently
<1> USE DEF CallInv, Silently, ReporterPhase, InSession, Attempting, PcValues
<1>0. /\ ~clearing /\ ~clearing' /\ clearing' = clearing /\ session' = session
      /\ ~(pc = "online" /\ pc' = "restore")
      /\ Chance
  BY DEF Unheard, channelVars
<1>1. CASE EndpointChanges \/ DeviceFault \/ PathMtuFound
  <2>1. UNCHANGED <<pc, established>>
    BY <1>1 DEF EndpointChanges, DeviceFault, PathMtuFound, sessionVars
  <2> QED BY <1>0, <2>1
<1>2. CASE DialFails
  BY <1>0, <1>2 DEF DialFails, AttemptFails, ReturnToSupervisor
<1>3. CASE OutboundActivity \/ TunClosed
  BY <1>0, <1>3 DEF OutboundActivity, TunClosed
<1>4. CASE SessionEnds
  BY <1>0, <1>4 DEF SessionEnds, ReturnToSupervisor
<1> HIDE DEF CallInv, Silently
<1> QED BY <1>0, <1>1, <1>2, <1>3, <1>4 DEF Chance

(* A step without a call on the reporter is one of DeviceReporter's tunnel    *)
(* task, or none.                                                           *)
LEMMA SilentStep ==
    ASSUME Silently, UNCHANGED <<channelVars, reporterVars>>
    PROVE  [Reporter!Next]_Reporter!vars
<1> USE DEF channelVars, reporterVars, Reporter!vars, Reporter!tunnelVars, Reporter!reporterOnly
<1>1. CASE ReporterPhase' = ReporterPhase
  BY <1>1
<1>2. CASE ReporterPhase = "announced" /\ ReporterPhase' = "pumping"
  BY <1>2 DEF Reporter!Next, Reporter!Tunnel, Reporter!StartPump
<1>3. CASE ReporterPhase = "announced" /\ ReporterPhase' = "down"
  BY <1>3 DEF Reporter!Next, Reporter!Tunnel, Reporter!SessionLost
<1>4. CASE ReporterPhase = "down" /\ ReporterPhase' = "gone"
  BY <1>4 DEF Reporter!Next, Reporter!Tunnel, Reporter!TunnelExits
<1> QED BY <1>1, <1>2, <1>3, <1>4 DEF Silently

(* The calls of the tunnel task: connected, update_tunnel_metrics, and the   *)
(* two halves of disconnected.                                              *)
LEMMA CallStep ==
    ASSUME CallInv,
           SessionAnnounced \/ UpdateTunnelMetrics \/ ClearMetrics \/ DisconnectedAnnounced
    PROVE  CallInv' /\ Reporter!Tunnel
<1> USE DEF CallInv, ReporterPhase, InSession, Attempting, PcValues, reporterVars,
            Reporter!reporterOnly, Reporter!Tunnel
<1>1. CASE SessionAnnounced
  <2>1. pc = "connect" /\ pc' \in InSession /\ clearing' = clearing /\ ~clearing
    BY <1>1 DEF SessionAnnounced, ConnectAccepted
  <2>2. ReporterPhase = "down" /\ ReporterPhase' \in {"announced", "pumping"} /\ session < MaxSessions
    BY <2>1
  <2>3. UNCHANGED <<metrics, reporterVars>> /\ session' = session + 1
        /\ Reporter!Announce(TRUE, session')
    BY <1>1 DEF SessionAnnounced
  <2> HIDE DEF ReporterPhase
  <2>4. Reporter!Connected
    BY <2>2, <2>3 DEF Reporter!Connected
  <2> QED BY <2>1, <2>4
<1>2. CASE UpdateTunnelMetrics
  <2>1. UNCHANGED <<pc, clearing, session, established>> /\ pc = "online" /\ ~clearing
    BY <1>2 DEF UpdateTunnelMetrics, vars, sessionVars
  <2>2. Reporter!UpdateTunnelMetrics
    BY <1>2, <2>1 DEF UpdateTunnelMetrics, Reporter!UpdateTunnelMetrics
  <2> QED BY <2>1, <2>2
<1>3. CASE ClearMetrics
  <2>1. /\ UNCHANGED <<pc, session, established>> /\ pc = "online"
        /\ session < MaxSessions /\ ~clearing /\ clearing' = TRUE
    BY <1>3 DEF ClearMetrics, MayEnd, vars, sessionVars
  <2>2. Reporter!ClearMetrics
    BY <1>3, <2>1 DEF ClearMetrics, Reporter!ClearMetrics
  <2> QED BY <2>1, <2>2
<1>4. CASE DisconnectedAnnounced
  <2>1. pc = "online" /\ clearing /\ clearing' = FALSE /\ pc' = "restore" /\ session' = session
    BY <1>4 DEF DisconnectedAnnounced, SessionEnds, ReturnToSupervisor
  <2>2. Reporter!Disconnected
    BY <1>4, <2>1 DEF DisconnectedAnnounced, Reporter!Disconnected
  <2> QED BY <2>1, <2>2
<1> QED BY <1>1, <1>2, <1>3, <1>4

(* The steps of the reporter and of Cloudflare are those of DeviceReporter.   *)
LEMMA OwnStep ==
    ASSUME CallInv, ReporterTask \/ Beat \/ Processed \/ NotProcessed \/ ReporterEnds
    PROVE  CallInv' /\ Reporter!Next
<1>1. UNCHANGED tunnelSide
  BY DEF ReporterTask, Beat, Processed, NotProcessed, ReporterEnds
<1>2. CallInv'
  BY <1>1 DEF tunnelSide, vars, sessionVars, CallInv
<1>3. Reporter!Next
  BY DEF ReporterTask, Beat, Processed, NotProcessed, ReporterEnds, Reporter!Next,
         Reporter!Reporter
<1> QED BY <1>2, <1>3

-----------------------------------------------------------------------------
(* Each step of the two tasks keeps the invariant and is one of              *)
(* DeviceReporter's.                                                        *)
LEMMA SystemStep ==
    ASSUME CallInv, [SystemNext]_systemVars
    PROVE  CallInv' /\ [Reporter!Next]_Reporter!vars
<1>1. CASE Unheard(Progress) \/ Unheard(Chance)
  <2>1. UNCHANGED <<channelVars, reporterVars>>
    BY <1>1 DEF Unheard
  <2> QED BY <1>1, <2>1, UnheardProgress, UnheardChance, SilentStep
<1>2. CASE SessionAnnounced \/ UpdateTunnelMetrics \/ ClearMetrics \/ DisconnectedAnnounced
  BY <1>2, CallStep DEF Reporter!Next
<1>3. CASE ReporterTask \/ Beat \/ Processed \/ NotProcessed \/ ReporterEnds
  BY <1>3, OwnStep
<1>4. CASE UNCHANGED systemVars
  <2>1. UNCHANGED <<pc, established, clearing, session>> /\ UNCHANGED <<channelVars, reporterVars>>
    BY <1>4 DEF systemVars, channelVars, vars, sessionVars
  <2>2. Silently
    BY <2>1 DEF Silently, ReporterPhase
  <2> QED BY <2>1, <2>2, SilentStep DEF CallInv
<1> QED BY <1>1, <1>2, <1>3, <1>4 DEF SystemNext, TunnelProgress

(* run_tunnel_session and data_loop, whichever way a session ends, call the   *)
(* reporter in the order DeviceReporter assumes: for a client and a Mesh      *)
(* node, any endpoints, and any number of sessions.                         *)
THEOREM ImplementsReporter == SystemSpec => ReporterSpec
<1>1. SystemInit => Reporter!Init
  BY DEF SystemInit, Init, Reporter!Init, ReporterPhase
<1> QED BY <1>1, SystemInitInv, SystemStep, PTL DEF SystemSpec, ReporterSpec, Reporter!Spec

(* TunnelSupervisor's history of what the reporter was told is the state in    *)
(* the watch channel, which names the session that is or was up.             *)
Announced ==
    /\ state.connected <=> reported = "Connected"
    /\ state.session = session

(* masque.rs: what the tunnel task announced last is what run_reporter will    *)
(* find in the channel, however late it looks; and so a channel that says      *)
(* connected where there is no session is left by the failed packet alone.     *)
THEOREM ChannelHoldsLastAnnouncement ==
    SystemSpec => [](Announced /\ (pc \notin InSession /\ state.connected => orphans))
<1> USE DEF Announced
<1>1. SystemInit => Announced
  BY DEF SystemInit, Init, Reporter!NeverConnected
<1>2. CallInv /\ Announced /\ [SystemNext]_systemVars => Announced'
  <2> SUFFICES ASSUME CallInv, Announced, [SystemNext]_systemVars PROVE Announced'
    OBVIOUS
  <2>1. CASE SessionAnnounced
    BY <2>1 DEF SessionAnnounced, ConnectAccepted, Reporter!Announce
  <2>2. CASE DisconnectedAnnounced
    BY <2>2 DEF DisconnectedAnnounced, SessionEnds, Reporter!Announce
  <2>3. CASE Unheard(Progress) \/ Unheard(Chance)
    <3>1. UNCHANGED <<session, state>> /\ (established' => established)
          /\ ~(pc = "online" /\ pc' = "restore") /\ [Next]_vars
      BY <2>3 DEF Unheard, channelVars, Next
    <3>0. ~ConnectAccepted
      BY <3>1 DEF ConnectAccepted, CallInv, Attempting
    <3>2. UNCHANGED reported
      BY <3>0, <3>1
      DEF Next, Progress, Chance, DeviceStep, Exit, StartAttempt, Dial, HandshakeDone, HandshakeFails, ConnectRefused, OpeningSent, PendingFails, PathMtuApplied, SelectNext, Wake, EndpointChanges, DeviceFault, DialFails, OutboundActivity, TunClosed, PathMtuFound, SessionEnds,
          AttemptFails, ReturnToSupervisor, vars, sideVars
    <3> QED BY <3>1, <3>2
  <2>4. CASE UpdateTunnelMetrics \/ ClearMetrics
    BY <2>4 DEF UpdateTunnelMetrics, ClearMetrics, vars, sideVars
  <2>5. CASE ReporterTask \/ Beat \/ Processed \/ NotProcessed \/ ReporterEnds
    BY <2>5 DEF ReporterTask, Beat, Processed, NotProcessed, ReporterEnds, tunnelSide, vars, sideVars
  <2>6. CASE UNCHANGED systemVars
    BY <2>6 DEF systemVars, channelVars, vars, sideVars
  <2> QED BY <2>1, <2>2, <2>3, <2>4, <2>5, <2>6 DEF SystemNext, TunnelProgress
<1>3. Announced /\ (orphans \/ LifecyclePaired)
         => (pc \notin InSession /\ state.connected => orphans)
  BY DEF LifecyclePaired
<1>4. CallInv /\ [SystemNext]_systemVars => CallInv'
  BY SystemStep
<1> QED BY <1>1, <1>2, <1>3, <1>4, SystemInitInv, PairedUnlessDetached, ImplementsSupervisor, PTL DEF SystemSpec

-----------------------------------------------------------------------------
(* DeviceReporter with its theorems, about the same tunnel task.             *)
Proved == INSTANCE DeviceReporterProofs WITH phase <- ReporterPhase

(* device_state.rs, run_reporter, in the program: whichever way sessions end, *)
(* no report shows one with statistics of an earlier one, and a delayed      *)
(* report never undoes a later one.                                         *)
THEOREM ReportsOfTheSystem ==
    SystemSpec => []Reporter!StatsNotOlder /\ Reporter!InventoryNotBackwards
<1>1. ReporterSpec => Proved!Spec
  <2>1. Reporter!Init => Proved!Init
    BY DEF Reporter!Init, Proved!Init, Reporter!NeverConnected, Proved!NeverConnected,
           Reporter!NoMetrics, Proved!NoMetrics
  <2>2. [Reporter!Next]_Reporter!vars => [Proved!Next]_Proved!vars
    BY DEF Reporter!Next, Proved!Next, Reporter!vars, Proved!vars,
         Reporter!tunnelVars, Proved!tunnelVars, Reporter!NoMetrics, Proved!NoMetrics,
         Reporter!reporterOnly, Proved!reporterOnly,
         Reporter!NeverConnected, Proved!NeverConnected, Reporter!Announce, Proved!Announce,
         Reporter!Connected, Proved!Connected, Reporter!SessionLost, Proved!SessionLost,
         Reporter!StartPump, Proved!StartPump,
         Reporter!UpdateTunnelMetrics, Proved!UpdateTunnelMetrics,
         Reporter!ClearMetrics, Proved!ClearMetrics,
         Reporter!Disconnected, Proved!Disconnected,
         Reporter!TunnelExits, Proved!TunnelExits, Reporter!Tunnel, Proved!Tunnel,
         Reporter!Tick, Proved!Tick, Reporter!Heartbeat, Proved!Heartbeat,
         Reporter!Changed, Proved!Changed, Reporter!SendReport, Proved!SendReport,
         Reporter!Answered, Proved!Answered, Reporter!Processed, Proved!Processed,
         Reporter!NotProcessed, Proved!NotProcessed,
         Reporter!ReporterEnds, Proved!ReporterEnds, Reporter!Reporter, Proved!Reporter
  <2> QED BY <2>1, <2>2, PTL DEF ReporterSpec, Reporter!Spec, Proved!Spec
<1>2. Proved!Spec => []Proved!StatsNotOlder
  BY SystemConfig, Proved!StatsOfTheSession, Zenon
<1>3. Proved!Spec => Proved!InventoryNotBackwards
  BY SystemConfig, Proved!InventoryForward, Zenon
<1>4. Proved!StatsNotOlder => Reporter!StatsNotOlder
  BY DEF Reporter!StatsNotOlder, Proved!StatsNotOlder, Reporter!NoMetrics, Proved!NoMetrics
<1>5. [Proved!At(server') >= Proved!At(server)]_Proved!vars
         => [Reporter!At(server') >= Reporter!At(server)]_Reporter!vars
  BY DEF Reporter!At, Proved!At, Reporter!vars, Proved!vars, Reporter!tunnelVars,
         Proved!tunnelVars
<1> QED
  BY <1>1, <1>2, <1>3, <1>4, <1>5, ImplementsReporter, PTL
  DEF Reporter!InventoryNotBackwards, Proved!InventoryNotBackwards

=============================================================================
