----------------------------- MODULE SetupProofs -----------------------------
(***************************************************************************)
(* Theorems about what precedes the packets: the checks of run_tunnel, the    *)
(* endpoints selected, the tuning of the socket, the exchange with the        *)
(* endpoint, and the path MTU.                                              *)
(***************************************************************************)
EXTENDS EndpointSelection, TunnelStartup, SocketTuning, Handshake, PathMtu,
        KeepingProofs, SequenceTheorems, WellFoundedInduction, TLAPS

-----------------------------------------------------------------------------
(* run_tunnel.                                                              *)

(* What the checks passed so far have made certain.                          *)
Passed ==
    /\ at = "options" => did = {}
    /\ at \in {"refresh", "prepare", "reporter", "interface", "running"} =>
          Acceptable /\ tunnel.idle = role_max_idle_timeout
    /\ at \in {"reporter", "interface", "running"} => tunnel.probe = IsMesh
    /\ at \in {"interface", "running"} => (IsMesh => tunnel.reporter)
    /\ at = "running" => tunnel.always = maintain_edge_session
    /\ did # {} => Acceptable /\ tunnel.idle = role_max_idle_timeout

(* commands.rs, run_tunnel: the command, its progress and what it hands on    *)
(* keep their types.                                                         *)
THEOREM StartupTypes == StartupSpec => []StartupTypeOK
<1>1. StartupInit => StartupTypeOK
  BY DEF StartupInit, StartupTypeOK, NotGiven
<1>2. StartupTypeOK /\ [Startup]_startupVars => StartupTypeOK'
  <2> SUFFICES ASSUME StartupTypeOK, [Startup]_startupVars PROVE StartupTypeOK'
    OBVIOUS
  <2> USE DEF StartupTypeOK
  <2>1. CASE CheckOptions
    BY <2>1 DEF CheckOptions, role_max_idle_timeout, Command
  <2>2. CASE Refresh BY <2>2 DEF Refresh, Effects
  <2>3. CASE Prepare
    <3>1. IsMesh \in BOOLEAN BY DEF IsMesh
    <3> QED BY <2>3, <3>1 DEF Prepare
  <2>4. CASE StartReporter BY <2>4 DEF StartReporter, Effects
  <2>5. CASE CreateInterface
    <3>1. maintain_edge_session \in BOOLEAN
      BY DEF maintain_edge_session, IsMesh, Command
    <3> QED BY <2>5, <3>1 DEF CreateInterface, Effects
  <2>6. CASE UNCHANGED startupVars BY <2>6 DEF startupVars
  <2> QED BY <2>1, <2>2, <2>3, <2>4, <2>5, <2>6 DEF Startup
<1> QED BY <1>1, <1>2, PTL DEF StartupSpec

(* commands.rs, run_tunnel: options that cannot work together are refused     *)
(* before anything has an effect, and a Mesh node that is not tracked never    *)
(* gets a session.                                                           *)
THEOREM StartupFailsClosed == StartupSpec => []FailsClosed
<1>1. StartupInit => Passed
  BY DEF StartupInit, Passed
<1>2. StartupTypeOK /\ Passed /\ [Startup]_startupVars => Passed'
  <2> SUFFICES ASSUME StartupTypeOK, Passed, [Startup]_startupVars PROVE Passed'
    OBVIOUS
  <2> USE DEF Passed, StartupTypeOK, Acceptable, role_max_idle_timeout, IsMesh,
              maintain_edge_session
  <2>1. CASE CheckOptions BY <2>1 DEF CheckOptions
  <2>2. CASE Refresh BY <2>2 DEF Refresh
  <2>3. CASE Prepare BY <2>3 DEF Prepare
  <2>4. CASE StartReporter BY <2>4 DEF StartReporter
  <2>5. CASE CreateInterface BY <2>5 DEF CreateInterface
  <2>6. CASE UNCHANGED startupVars BY <2>6 DEF startupVars
  <2> QED BY <2>1, <2>2, <2>3, <2>4, <2>5, <2>6 DEF Startup
<1>3. StartupTypeOK /\ Passed => FailsClosed
  <2> SUFFICES ASSUME StartupTypeOK, Passed PROVE FailsClosed
    OBVIOUS
  <2>1. Acceptable /\ tunnel.idle = role_max_idle_timeout => Workable
    <3>1. ask \in Command /\ MtuOptions \subseteq Nat /\ Periods \subseteq Nat /\ MinMtu \in Nat
      BY StartupConfig DEF StartupTypeOK
    <3> QED BY <3>1 DEF Acceptable, Workable, role_max_idle_timeout, IsMesh, Command
  <2>2. did # {} => Workable BY <2>1 DEF Passed
  <2>3. at = "running" =>
          /\ ask.fileRole = ask.role
          /\ IsMesh => tunnel.reporter /\ tunnel.always /\ tunnel.probe /\ tunnel.idle = ask.idle
          /\ ~IsMesh => tunnel.idle = 0 /\ ~tunnel.probe
    <3>1. tunnel.probe \in BOOLEAN /\ tunnel.always \in BOOLEAN BY DEF StartupTypeOK
    <3> QED BY <3>1 DEF Passed, Acceptable, maintain_edge_session, role_max_idle_timeout
  <2> QED BY <2>2, <2>3 DEF FailsClosed
<1> QED BY <1>1, <1>2, <1>3, StartupTypes, PTL DEF StartupSpec

-----------------------------------------------------------------------------
(* tune_socket_buffer.                                                      *)

TuneTypeOK ==
    /\ {initial, limit, target, current, candidate, accepted, high, effective} \subseteq Nat
    /\ pc \in {"grow", "search", "done", "limited"}

(* Where the kernel stands, and what the search has excluded.                *)
Tuned ==
    /\ current = (IF accepted = 0 THEN initial ELSE accepted)
    /\ effective = current
    /\ accepted # 0 => initial < accepted /\ accepted <= limit
    /\ candidate >= Minimum
    /\ pc = "grow" => initial < target /\ candidate <= target
    /\ pc = "done" => current >= target
    /\ pc \in {"search", "limited"} => limit < target
    /\ pc = "search" => accepted # 0 /\ limit < high /\ high <= target
    /\ pc = "limited" /\ accepted # 0 => limit - current < 2 * Granularity

(* Rounding down to a multiple loses less than the multiple.                 *)
LEMMA RoundedDown ==
    ASSUME NEW a \in Nat, NEW g \in Nat \ {0}
    PROVE  /\ (a \div g) * g \in Nat
           /\ (a \div g) * g <= a
           /\ a < (a \div g) * g + g
<1>1. PICK q \in Int : q = a \div g BY SMT
<1>2. a = g * q + (a % g) /\ 0 <= a % g /\ a % g < g BY <1>1, SMT
<1>3. q * g = g * q BY <1>1, SMT
<1>4. (a \div g) * g = a - (a % g) BY <1>1, <1>2, <1>3, SMT
<1> QED BY <1>2, <1>4, SMT

(* The midpoint of the search, rounded: below the rejected size, and within a *)
(* granule of the middle.                                                   *)
LEMMA MidpointBounds ==
    ASSUME TuneTypeOK, accepted < high
    PROVE  /\ Midpoint \in Nat
           /\ Midpoint < high
           /\ Midpoint <= accepted => high - accepted < 2 * Granularity
<1> DEFINE middle == accepted + (high - accepted) \div 2
<1>1. Granularity \in Nat \ {0} BY SocketTuningConfig
<1>2. /\ middle \in Nat /\ middle < high
      /\ 2 * (middle - accepted) >= high - accepted - 1
  BY SMT DEF TuneTypeOK
<1>3. /\ Midpoint = (middle \div Granularity) * Granularity
  BY DEF Midpoint
<1> HIDE DEF middle
<1>4. Midpoint \in Nat /\ Midpoint <= middle /\ middle < Midpoint + Granularity
  BY <1>1, <1>2, <1>3, RoundedDown
<1> QED BY <1>1, <1>2, <1>4 DEF TuneTypeOK

LEMMA TuneInvariant == TuneSpec => [](TuneTypeOK /\ Tuned)
<1>1. TuneInit => TuneTypeOK /\ Tuned
  <2> SUFFICES ASSUME TuneInit PROVE TuneTypeOK /\ Tuned
    OBVIOUS
  <2>1. Minimum \in Nat /\ MaxSize \in Nat BY SocketTuningConfig
  <2>2. target \in Nat /\ target >= Minimum BY <2>1 DEF TuneInit, Larger
  <2> QED BY <2>1, <2>2 DEF TuneInit, TuneTypeOK, Tuned
<1>2. TuneTypeOK /\ Tuned /\ [Tune]_tuneVars => (TuneTypeOK /\ Tuned)'
  <2> SUFFICES ASSUME TuneTypeOK, Tuned, [Tune]_tuneVars PROVE (TuneTypeOK /\ Tuned)'
    OBVIOUS
  <2>0. Minimum \in Nat \ {0} BY SocketTuningConfig
  <2>1. CASE Skip BY <2>0, <2>1 DEF Skip, Advance, Smaller, parameters, TuneTypeOK, Tuned
  <2>2. CASE Grow BY <2>0, <2>2 DEF Grow, Advance, Smaller, parameters, TuneTypeOK, Tuned
  <2>3. CASE Rejected BY <2>3 DEF Rejected, parameters, TuneTypeOK, Tuned
  <2>4. CASE SearchStep
    <3>1. accepted < high BY <2>4 DEF SearchStep, Tuned, TuneTypeOK
    <3>2. Midpoint \in Nat /\ Midpoint > accepted /\ Midpoint < high
      BY <2>4, <3>1, MidpointBounds DEF SearchStep, Searching
    <3> QED BY <2>0, <2>4, <3>2 DEF SearchStep, parameters, TuneTypeOK, Tuned
  <2>5. CASE SearchEnds
    <3>1. accepted < high BY <2>5 DEF SearchEnds, Tuned, TuneTypeOK
    <3>2. high - accepted < 2 * Granularity
      <4>1. Granularity \in Nat \ {0} BY SocketTuningConfig
      <4> QED BY <2>5, <3>1, <4>1, MidpointBounds DEF SearchEnds, Searching, TuneTypeOK
    <3>3. accepted # 0 /\ current = accepted /\ limit < high /\ pc = "search"
      BY <2>5 DEF SearchEnds, Tuned
    <3>4. Granularity \in Nat BY SocketTuningConfig
    <3>5. limit - current < 2 * Granularity BY <3>2, <3>3, <3>4 DEF TuneTypeOK
    <3> QED BY <2>5, <3>3, <3>5 DEF SearchEnds, parameters, TuneTypeOK, Tuned
  <2>6. CASE UNCHANGED tuneVars BY <2>6 DEF tuneVars, parameters, TuneTypeOK, Tuned
  <2> QED BY <2>1, <2>2, <2>3, <2>4, <2>5, <2>6 DEF Tune
<1> QED BY <1>1, <1>2, PTL DEF TuneSpec

(* udp.rs, tune_socket_buffer: the buffer is never smaller than the kernel's   *)
(* default, reaches its target if the kernel grants it, and is otherwise      *)
(* within two granules of what the kernel grants; for every kernel limit,     *)
(* target and granularity.                                                  *)
THEOREM TunedFar == TuneSpec => []TunedAsFarAsPossible
<1>1. TuneTypeOK /\ Tuned => TunedAsFarAsPossible
  BY DEF TuneTypeOK, Tuned, TunedAsFarAsPossible
<1> QED BY <1>1, TuneInvariant, PTL

(* A bound on the system calls that are left: the sizes up to the target, then *)
(* what lies between the accepted and the rejected size.                     *)
TuneLeft ==
    CASE pc = "grow" -> 2 * target + 2 - candidate
      [] pc = "search" -> high - accepted + 1
      [] OTHER -> 0

TuneNearer == TuneLeft \in Nat /\ TuneLeft' \in Nat /\ TuneLeft' < TuneLeft

LEMMA TuneStepsCount ==
    ASSUME TuneTypeOK, Tuned, Tune
    PROVE  TuneNearer
<1> USE DEF TuneNearer, TuneLeft, TuneTypeOK, Tuned
<1>1. Minimum \in Nat \ {0} BY SocketTuningConfig
<1>2. CASE Skip BY <1>1, <1>2 DEF Skip, Advance, Smaller, parameters
<1>3. CASE Grow BY <1>1, <1>3 DEF Grow, Advance, Smaller, parameters
<1>4. CASE Rejected BY <1>1, <1>4 DEF Rejected, parameters
<1>5. CASE SearchStep
  <2>1. pc = "search" /\ pc' = "search" /\ accepted < high BY <1>5 DEF SearchStep
  <2>2. Midpoint \in Nat /\ accepted < Midpoint /\ Midpoint < high
    BY <1>5, <2>1, MidpointBounds DEF SearchStep, Searching
  <2>3. \/ accepted' = Midpoint /\ high' = high
        \/ high' = Midpoint /\ accepted' = accepted
    BY <1>5 DEF SearchStep
  <2> QED BY <2>1, <2>2, <2>3
<1>6. CASE SearchEnds BY <1>6 DEF SearchEnds
<1> QED BY <1>2, <1>3, <1>4, <1>5, <1>6 DEF Tune

(* udp.rs, tune_socket_buffer: neither loop can repeat itself: every system   *)
(* call, granted or rejected, brings the end nearer, so that the doubling and *)
(* the search end for every kernel limit, target and granularity.            *)
THEOREM TuningEnds == TuneSpec => [][TuneNearer]_tuneVars
<1>1. (TuneTypeOK /\ Tuned) /\ [Tune]_tuneVars => [TuneNearer]_tuneVars
  BY TuneStepsCount DEF TuneNearer
<1> QED BY <1>1, TuneInvariant, PTL DEF TuneSpec

-----------------------------------------------------------------------------
(* The path MTU.                                                            *)

(* mtu is what the last applied result leaves, and a burst runs under it.     *)
MtuInv ==
    /\ found # Unknown => space = found
    /\ applied # Unknown => found # Unknown
    /\ applied # Unknown /\ loop # "ended" => mtu + Prefix <= applied
    /\ loop = "pending" => applied = Unknown
    /\ loop = "queue" /\ applied # Unknown => applied = found

ToldType == [size : 0 .. MaxTunMtu, mtu : -1 .. MaxTunMtu, settled : BOOLEAN]

(* What the sender of a refused packet is told.                              *)
LEMMA RefusalType ==
    ASSUME PathMtuTypeOK, NEW size \in 0 .. MaxTunMtu
    PROVE  /\ Refusal(size) \in ToldType
           /\ Refusal(size).size = size /\ Refusal(size).mtu = mtu
           /\ Refusal(size).settled <=> applied # Unknown
<1>1. mtu \in -1 .. MaxTunMtu BY PathMtuConfig DEF PathMtuTypeOK
<1> DEFINE settled == applied # Unknown
<1>2. settled \in BOOLEAN OBVIOUS
<1>3. Refusal(size) = [size |-> size, mtu |-> mtu, settled |-> settled] BY DEF Refusal
<1> HIDE DEF settled
<1>4. Refusal(size) \in ToldType BY <1>1, <1>2, <1>3 DEF ToldType
<1>5. /\ Refusal(size).size = size /\ Refusal(size).mtu = mtu
      /\ Refusal(size).settled = settled
  BY <1>3
<1> QED BY <1>4, <1>5 DEF settled

(* masque.rs, data_loop: sizes and MTUs stay in their ranges.                *)
THEOREM PathMtuTypes == PathMtuSpec => []PathMtuTypeOK
<1> USE PathMtuConfig
<1>1. PathMtuInit => PathMtuTypeOK
  BY DEF PathMtuInit, PathMtuTypeOK, Nothing, Unknown
<1>2. PathMtuTypeOK /\ [PathMtuNext]_pmVars => PathMtuTypeOK'
  <2> SUFFICES ASSUME PathMtuTypeOK, [PathMtuNext]_pmVars PROVE PathMtuTypeOK'
    OBVIOUS
  <2> USE DEF PathMtuTypeOK, quicheVars
  <2>1. CASE SendPending
    <3>1. told' \in ToldType
      <4>1. \A size \in 1 .. mtu : size \in 0 .. MaxTunMtu OBVIOUS
      <4> QED BY <2>1, <4>1, RefusalType DEF SendPending, ToldType
    <3> QED BY <2>1, <3>1 DEF SendPending, ToldType
  <2>2. CASE Apply
    <3>1. Discovered => CapTunMtu(space) \in 0 .. MaxTunMtu
      BY DEF Discovered, CapTunMtu, AtMost, Unknown
    <3> QED BY <2>2, <3>1 DEF Apply
  <2>3. CASE ApplyFails
    <3>1. CapTunMtu(space) \in 0 .. MaxTunMtu
      BY <2>3 DEF ApplyFails, Discovered, CapTunMtu, AtMost, Unknown
    <3> QED BY <2>3, <3>1 DEF ApplyFails
  <2>4. CASE QueueDatagram
    <3>1. Head(queue) \in 1 .. MaxTunMtu /\ Tail(queue) \in Seq(1 .. MaxTunMtu)
      BY <2>4, HeadTailProperties DEF QueueDatagram
    <3>2. Refusal(Head(queue)) \in ToldType BY <3>1, RefusalType
    <3>3. told' \in ToldType BY <2>4, <3>2 DEF QueueDatagram, ToldType
    <3>4. budget' \in 0 .. Burst
      <4>1. budget > 0 /\ (budget' = budget \/ budget' = budget - 1)
        BY <2>4, Zenon DEF QueueDatagram
      <4> QED BY <4>1, SMTT(30)
    <3>5. UNCHANGED <<path, found, space, applied, mtu, loop>> BY <2>4 DEF QueueDatagram
    <3>6. queue' \in Seq(1 .. MaxTunMtu) BY <2>4, <3>1 DEF QueueDatagram
    <3> QED BY <3>3, <3>4, <3>5, <3>6 DEF ToldType
  <2>5. CASE QueueDone BY <2>5 DEF QueueDone
  <2>6. CASE Continue BY <2>6 DEF Continue
  <2>7. CASE Revalidate BY <2>7 DEF Revalidate
  <2>8. CASE PathChanges BY <2>8 DEF PathChanges
  <2>9. CASE Probed BY <2>9 DEF Probed
  <2>10. CASE HostSends BY <2>10 DEF HostSends
  <2>11. CASE UNCHANGED pmVars BY <2>11 DEF pmVars
  <2> QED BY <2>1, <2>2, <2>3, <2>4, <2>5, <2>6, <2>7, <2>8, <2>9, <2>10, <2>11
          DEF PathMtuNext, DataLoop
<1> QED BY <1>1, <1>2, PTL DEF PathMtuSpec

(* masque.rs, queue_tx_datagrams: once a discovery has been applied, the MTU a *)
(* refused packet's sender is told is below the size of that packet, under    *)
(* whichever MTU the packet was accepted and however the path changed since.  *)
THEOREM PacketTooBigIsUseful == PathMtuSpec => []TooBigIsUseful
<1> USE PathMtuConfig
<1>1. PathMtuInit => MtuInv /\ TooBigIsUseful
  BY DEF PathMtuInit, MtuInv, TooBigIsUseful, Nothing
<1>2. PathMtuTypeOK /\ MtuInv /\ TooBigIsUseful /\ [PathMtuNext]_pmVars
        => (MtuInv /\ TooBigIsUseful)'
  <2> SUFFICES ASSUME PathMtuTypeOK, MtuInv, TooBigIsUseful, [PathMtuNext]_pmVars
               PROVE  (MtuInv /\ TooBigIsUseful)'
    OBVIOUS
  <2> USE DEF PathMtuTypeOK, MtuInv, TooBigIsUseful, quicheVars
  <2>1. CASE SendPending
    <3>1. told' = told \/ ~told'.settled
      <4>1. \A size \in 1 .. mtu : size \in 0 .. MaxTunMtu OBVIOUS
      <4> QED BY <2>1, <4>1, RefusalType DEF SendPending
    <3> QED BY <2>1, <3>1 DEF SendPending
  <2>2. CASE Apply
    <3>1. Discovered => CapTunMtu(space) + Prefix <= space
      BY DEF Discovered, CapTunMtu, AtMost, Unknown
    <3>2. space >= Prefix OBVIOUS
    <3>3. ~Discovered => found = Unknown \/ applied = found
      BY <3>2 DEF Discovered, CapTunMtu, AtMost, Unknown
    <3> QED BY <2>2, <3>1, <3>3 DEF Apply, Discovered
  <2>3. CASE ApplyFails BY <2>3 DEF ApplyFails
  <2>4. CASE QueueDatagram
    <3>1. CASE Fits(Head(queue)) BY <2>4, <3>1 DEF QueueDatagram
    <3>2. CASE ~Fits(Head(queue))
      <4>1. Head(queue) \in 1 .. MaxTunMtu
        BY <2>4, HeadTailProperties DEF QueueDatagram
      <4>2. applied # Unknown => mtu < Head(queue)
        BY <2>4, <3>2, <4>1, SMTT(30) DEF QueueDatagram, Fits
      <4>3. told' = Refusal(Head(queue)) BY <2>4, <3>2 DEF QueueDatagram
      <4>4. told'.settled => told'.mtu < told'.size
        BY <4>1, <4>2, <4>3, RefusalType, SMTT(30)
      <4> QED BY <2>4, <4>4 DEF QueueDatagram
    <3> QED BY <3>1, <3>2
  <2>5. CASE QueueDone BY <2>5 DEF QueueDone
  <2>6. CASE Continue BY <2>6 DEF Continue
  <2>7. CASE Revalidate BY <2>7 DEF Revalidate
  <2>8. CASE PathChanges BY <2>8 DEF PathChanges
  <2>9. CASE Probed BY <2>9 DEF Probed, Unknown
  <2>10. CASE HostSends BY <2>10 DEF HostSends
  <2>11. CASE UNCHANGED pmVars BY <2>11 DEF pmVars
  <2> QED BY <2>1, <2>2, <2>3, <2>4, <2>5, <2>6, <2>7, <2>8, <2>9, <2>10, <2>11
          DEF PathMtuNext, DataLoop
<1> QED BY <1>1, <1>2, PathMtuTypes, PTL DEF PathMtuSpec

-----------------------------------------------------------------------------
(* The exchange with the endpoint.                                          *)

(* Until the answer nothing that decides has been heard.                     *)
Undecided ==
    /\ stage \notin Final => heard = "nothing" /\ unread = <<>>
    /\ stage = "accepted" <=> heard = "2xx"

(* How far the flow from the pin to the answer has come.                     *)
PinInv ==
    /\ stage \in {"handshake", "handshakeFlush"} => ~requested
    /\ stage = "verify" => quic.established /\ ~requested
    /\ stage \in {"requestFlush", "response", "responseFlush", "accepted"} => requested
    /\ requested => quic.established /\ (cfg.insecure \/ certificate = "pinned")

(* The time a wait and its flush may still take.                            *)
WaitInv ==
    /\ \E w \in Waits : closeIn <= w
    /\ stage = "response" => \E w \in Waits : waited + left < Deadline + w
    /\ stage = "responseFlush" =>
          \E w \in Waits : waited + left < Deadline + w + LongestFlush

QuicType == [established : BOOLEAN, draining : BOOLEAN, closed : BOOLEAN]

(* No event, no verdict.                                                    *)
LEMMA NoVerdict == Verdict(<<>>) = "nothing"
  BY DEF Verdict

(* The first decision among the events of a datagram is one.                 *)
LEMMA VerdictType ==
    ASSUME NEW n \in Nat, NEW events \in [1 .. n -> Events]
    PROVE  Verdict(events) \in Decisions \union {"nothing"}
<1> DEFINE D == {i \in 1 .. n : events[i] \in Decisions}
<1>1. CASE D = {} BY <1>1 DEF Verdict
<1>2. CASE D # {}
  <2>1. D \subseteq Nat OBVIOUS
  <2>2. PICK first \in D : \A j \in D : <<j, first>> \notin OpToRel(<, Nat)
    <3>1. IsWellFoundedOn(OpToRel(<, Nat), Nat) BY NatLessThanWellFounded
    <3> HIDE DEF D
    <3> QED BY <1>2, <2>1, <3>1, WFMin
  <2>3. \A j \in 1 .. first - 1 : events[j] \notin Decisions
    <3> SUFFICES ASSUME NEW j \in 1 .. first - 1, events[j] \in Decisions PROVE FALSE
      OBVIOUS
    <3>1. j \in D /\ j < first /\ j \in Nat /\ first \in Nat OBVIOUS
    <3>2. <<j, first>> \in OpToRel(<, Nat) BY <3>1 DEF OpToRel
    <3> QED BY <2>2, <3>1, <3>2
  <2> DEFINE F(i) == /\ events[i] \in Decisions
                     /\ \A j \in 1 .. i - 1 : events[j] \notin Decisions
  <2>4. \E i \in DOMAIN events : F(i) BY <2>2, <2>3
  <2>5. (CHOOSE i \in DOMAIN events : F(i)) \in DOMAIN events
        /\ F(CHOOSE i \in DOMAIN events : F(i))
    BY <2>4
  <2>6. Verdict(events) = events[CHOOSE i \in DOMAIN events : F(i)]
    BY <1>2 DEF Verdict
  <2> QED BY <2>5, <2>6
<1> QED BY <1>1, <1>2

(* A select without a datagram that decides goes on to its flush.            *)
LEMMA SelectUndecided ==
    ASSUME stage \in Selects, unread = <<>>, AfterSelect(<<>>)
    PROVE  /\ stage' = (IF stage = "handshake" THEN "handshakeFlush" ELSE "responseFlush")
           /\ left' = LongestFlush /\ unread' = <<>>
<1>1. unread \o <<>> = <<>> OBVIOUS
<1> QED BY <1>1, NoVerdict DEF AfterSelect, PollResponse, BeginFlush, Selects

(* A datagram: in the handshake it decides nothing, afterwards the first       *)
(* decision among its events does.                                           *)
LEMMA Received ==
    ASSUME HandshakeTypeOK, Undecided, Receive
    PROVE  /\ stage \in Selects
           /\ UNCHANGED <<cfg, waited, requested, certificate, silent>>
           /\ quic.established => quic'.established
           /\ quic' \in QuicType
           /\ closeIn' \in {closeIn, cfg.idle} \union 1 .. LongestPto
           /\ unread' = <<>>
           /\ heard' \in Decisions \union {"nothing"}
           /\ \/ heard' = "nothing" /\ left' = LongestFlush
                 /\ stage' = (IF stage = "handshake" THEN "handshakeFlush" ELSE "responseFlush")
              \/ /\ stage = "response" /\ heard' \in Decisions /\ left' = 0
                 /\ stage' = (IF heard' = "2xx" THEN "accepted" ELSE "failed")
<1>1. stage \in Selects /\ unread = <<>> /\ heard = "nothing"
  BY DEF Receive, Undecided, Selects, Final
<1>2. PICK established \in BOOLEAN, closes \in BOOLEAN, reset \in BOOLEAN,
           events \in UNION {[1 .. n -> Events] : n \in 0 .. MaxEvents} :
          /\ events # <<>> => stage = "response"
          /\ quic' = [established |-> quic.established \/ established,
                      draining |-> quic.draining \/ closes,
                      closed |-> reset]
          /\ IF closes THEN closeIn' \in 1 .. LongestPto
             ELSE IF quic.draining THEN UNCHANGED closeIn
             ELSE closeIn' = cfg.idle
          /\ heard' = IF heard = "nothing" THEN Verdict(events) ELSE heard
          /\ AfterSelect(events)
  BY DEF Receive
<1>3. UNCHANGED <<cfg, waited, requested, certificate, silent>>
  BY DEF Receive, peerVars
<1>4. heard' = Verdict(events) /\ Verdict(events) \in Decisions \union {"nothing"}
  <2>1. MaxEvents \in Nat BY HandshakeConfig
  <2>2. PICK n \in Nat : events \in [1 .. n -> Events] BY <1>2, <2>1
  <2> QED BY <1>1, <1>2, <2>2, VerdictType
<1>5. closeIn' \in {closeIn, cfg.idle} \union 1 .. LongestPto
  BY <1>2
<1>6. /\ quic.established => quic'.established
      /\ quic' \in QuicType
  <2> DEFINE e == quic.established \/ established
             d == quic.draining \/ closes
  <2>1. e \in BOOLEAN /\ d \in BOOLEAN OBVIOUS
  <2>2. quic.established => e BY DEF HandshakeTypeOK
  <2>3. quic' = [established |-> e, draining |-> d, closed |-> reset] BY <1>2
  <2> HIDE DEF e, d
  <2>4. quic'.established = e BY <2>3
  <2> QED BY <2>1, <2>2, <2>3, <2>4 DEF QuicType
<1>7. CASE stage = "handshake"
  <2>1. events = <<>> BY <1>2, <1>7
  <2>2. /\ stage' = "handshakeFlush" /\ left' = LongestFlush /\ unread' = <<>>
    BY <1>1, <1>2, <1>7 DEF AfterSelect, BeginFlush
  <2> QED BY <1>1, <1>3, <1>4, <1>5, <1>6, <1>7, <2>1, <2>2, NoVerdict
<1>8. CASE stage = "response"
  <2>1. events \in Seq(Events)
    <3>1. MaxEvents \in Nat BY HandshakeConfig
    <3>2. PICK n \in Nat : events \in [1 .. n -> Events] BY <1>2, <3>1
    <3> QED BY <3>2, SeqDef
  <2>2. unread \o events = events BY <1>1, <2>1
  <2>3. PollResponse(events) BY <1>2, <1>8, <2>2 DEF AfterSelect
  <2>4. /\ unread' = <<>>
        /\ heard' = "nothing" => stage' = "responseFlush" /\ left' = LongestFlush
        /\ heard' # "nothing" =>
              stage' = (IF heard' = "2xx" THEN "accepted" ELSE "failed") /\ left' = 0
    BY <1>4, <2>3 DEF PollResponse, BeginFlush
  <2> QED BY <1>1, <1>3, <1>4, <1>5, <1>6, <1>8, <2>4
<1> QED BY <1>1, <1>7, <1>8 DEF Selects

(* masque/handshake.rs: the state of the exchange keeps its types.            *)
THEOREM HandshakeTypes == HandshakeSpec => [](HandshakeTypeOK /\ Undecided)
<1> USE HandshakeConfig
<1>1. HandshakeInit => HandshakeTypeOK /\ Undecided
  <2> SUFFICES ASSUME HandshakeInit PROVE HandshakeTypeOK /\ Undecided
    OBVIOUS
  <2>1. closeIn \in Nat BY DEF HandshakeInit
  <2>2. left \in Nat BY <2>1 DEF HandshakeInit, Timeouts
  <2>3. quic \in QuicType BY DEF HandshakeInit, QuicType
  <2>4. unread \in Seq(Events) /\ stage \in Stages
    BY DEF HandshakeInit, Stages, Selects
  <2>5. HandshakeTypeOK
    BY <2>1, <2>2, <2>3, <2>4 DEF HandshakeInit, HandshakeTypeOK, QuicType
  <2> QED BY <2>5 DEF HandshakeInit, Undecided
<1>2. HandshakeTypeOK /\ Undecided /\ [HandshakeNext]_hsVars => (HandshakeTypeOK /\ Undecided)'
  <2> SUFFICES ASSUME HandshakeTypeOK, Undecided, [HandshakeNext]_hsVars
               PROVE  (HandshakeTypeOK /\ Undecided)'
    OBVIOUS
  <2>0. 0 \in Nat OBVIOUS
  <2>1. Timeouts \subseteq Nat
    BY DEF HandshakeTypeOK, Timeouts
  <2> USE DEF HandshakeTypeOK, Undecided, Stages, Selects, Flushes, Final, peerVars
  <2>2. CASE Tick
    <3>1. closeIn' \in Nat /\ left' \in Nat /\ waited' \in Nat
      <4>1. closeIn \in Nat /\ left \in Nat /\ waited \in Nat OBVIOUS
      <4>2. /\ left > 0 /\ left' = left - 1
            /\ closeIn' = IF closeIn > 0 THEN closeIn - 1 ELSE 0
            /\ waited' \in {waited, waited + 1}
        BY <2>2, Zenon DEF Tick
      <4> HIDE DEF HandshakeTypeOK, Undecided, Stages, Selects, Flushes, Final
      <4> QED BY <4>1, <4>2
    <3>2. UNCHANGED <<cfg, stage, quic, requested, unread, heard, certificate, silent>>
      BY <2>2 DEF Tick
    <3> QED BY <3>1, <3>2
  <2>3. CASE EndpointGoesSilent BY <2>3 DEF EndpointGoesSilent
  <2>4. CASE Receive
    <3>1. closeIn' \in Nat /\ left' \in Nat
      <4>1. /\ closeIn \in Nat /\ LongestPto \in Nat /\ cfg.idle \in Nat
            /\ LongestFlush \in Nat
        OBVIOUS
      <4>2. closeIn' \in {closeIn, cfg.idle} \union 1 .. LongestPto
        BY <2>4, Received
      <4>3. left' = 0 \/ left' = LongestFlush BY <2>4, Received, Zenon
      <4> HIDE DEF HandshakeTypeOK, Undecided, Stages, Selects, Flushes, Final
      <4> QED BY <4>1, <4>2, <4>3
    <3>2. unread' \in Seq(Events) BY <2>4, Received
    <3> QED BY <2>4, <3>1, <3>2, Received DEF QuicType, Decisions
  <2>5. CASE TimerFires
    <3>1. quic' \in QuicType
      <4> DEFINE c == Armed /\ closeIn = 0
      <4>1. c \in BOOLEAN OBVIOUS
      <4>2. quic' = [quic EXCEPT !.closed = c] BY <2>5 DEF TimerFires
      <4> HIDE DEF c
      <4> QED BY <4>1, <4>2 DEF QuicType
    <3>2. /\ stage' = (IF stage = "handshake" THEN "handshakeFlush" ELSE "responseFlush")
          /\ left' = LongestFlush /\ unread' = <<>>
      BY <2>5, SelectUndecided DEF TimerFires
    <3> QED BY <2>5, <3>1, <3>2 DEF TimerFires, QuicType
  <2>6. CASE SocketFails BY <2>6 DEF SocketFails
  <2>7. CASE HandshakeFlushed
    <3>1. /\ stage = "handshakeFlush" /\ stage' \in {"failed", "verify", "handshake"}
          /\ left' \in Nat
      <4>1. left' = 0 \/ left' \in Timeouts BY <2>7, Zenon DEF HandshakeFlushed, Await
      <4>2. left' \in Nat BY <2>0, <2>1, <4>1, Zenon
      <4>3. stage = "handshakeFlush" /\ stage' \in {"failed", "verify", "handshake"}
        BY <2>7 DEF HandshakeFlushed, Await
      <4> QED BY <4>2, <4>3
    <3>2. UNCHANGED <<cfg, quic, closeIn, waited, requested, unread, heard, certificate, silent>>
      BY <2>7 DEF HandshakeFlushed
    <3> QED BY <3>1, <3>2
  <2>8. CASE Verify
    <3>1. /\ stage = "verify" /\ stage' \in {"failed", "requestFlush"}
          /\ left' \in Nat /\ requested' \in BOOLEAN
      <4>1. \/ requested' = TRUE /\ stage' = "requestFlush" /\ left' = LongestFlush
            \/ requested' = requested /\ stage' = "failed" /\ left' = 0
        BY <2>8, Zenon DEF Verify, BeginFlush
      <4>2. stage = "verify" /\ LongestFlush \in Nat /\ 0 \in Nat /\ requested \in BOOLEAN
        BY <2>8 DEF Verify
      <4> HIDE DEF HandshakeTypeOK, Undecided, Stages, Selects, Flushes, Final
      <4> QED BY <4>1, <4>2, Zenon
    <3>2. UNCHANGED <<cfg, quic, closeIn, waited, unread, heard, certificate, silent>>
      BY <2>8 DEF Verify
    <3> QED BY <3>1, <3>2
  <2>9. CASE RequestFlushed BY <2>1, <2>9 DEF RequestFlushed, Await
  <2>10. CASE ResponseFlushed
    <3>1. /\ stage = "responseFlush" /\ stage' \in {"failed", "response"}
          /\ left' \in Nat
      <4>1. left' = 0 \/ left' \in Timeouts BY <2>10, Zenon DEF ResponseFlushed, Await
      <4>2. stage' \in {"failed", "response"} BY <2>10 DEF ResponseFlushed, Await
      <4>3. left' \in Nat BY <2>0, <2>1, <4>1, Zenon
      <4>4. stage = "responseFlush" BY <2>10 DEF ResponseFlushed
      <4> QED BY <4>2, <4>3, <4>4
    <3>2. UNCHANGED <<cfg, quic, closeIn, waited, requested, unread, heard, certificate, silent>>
      BY <2>10 DEF ResponseFlushed
    <3> QED BY <3>1, <3>2
  <2>11. CASE UNCHANGED hsVars BY <2>11 DEF hsVars
  <2> QED BY <2>2, <2>3, <2>4, <2>5, <2>6, <2>7, <2>8, <2>9, <2>10, <2>11
          DEF HandshakeNext, Session
<1> QED BY <1>1, <1>2, PTL DEF HandshakeSpec

(* wait_connect_response: no status lies unread while it waits, and the first  *)
(* one decides, whatever arrives in one datagram.                            *)
THEOREM FirstAnswerDecides == HandshakeSpec => []AnswerDecides
<1>1. Undecided => AnswerDecides
  BY DEF Undecided, AnswerDecides, Final
<1> QED BY <1>1, HandshakeTypes, PTL

(* masque.rs, run_tunnel_session: no request goes to, and no session is made    *)
(* with, an endpoint without the enrolled key, unless --insecure is given.    *)
THEOREM PinBeforeRequest == HandshakeSpec => []OnlyPinnedEndpoint
<1>1. HandshakeInit => PinInv
  BY DEF HandshakeInit, PinInv
<1>2. HandshakeTypeOK /\ Undecided /\ PinInv /\ [HandshakeNext]_hsVars => PinInv'
  <2> SUFFICES ASSUME HandshakeTypeOK, Undecided, PinInv, [HandshakeNext]_hsVars
               PROVE  PinInv'
    OBVIOUS
  <2> USE DEF PinInv, Selects, Flushes, peerVars
  <2>1. CASE Tick BY <2>1 DEF Tick
  <2>2. CASE EndpointGoesSilent BY <2>2 DEF EndpointGoesSilent
  <2>3. CASE Receive
    <3>1. /\ stage \in Selects /\ UNCHANGED <<cfg, requested, certificate>>
          /\ quic.established => quic'.established
      BY <2>3, Received
    <3>2. stage = "handshake" => stage' = "handshakeFlush"
      BY <2>3, Received
    <3>3. stage = "response" => stage' \in {"responseFlush", "accepted", "failed"}
      BY <2>3, Received
    <3> QED BY <3>1, <3>2, <3>3
  <2>4. CASE TimerFires
    <3>1. quic'.established = quic.established
      BY <2>4 DEF TimerFires, HandshakeTypeOK
    <3>2. stage' = (IF stage = "handshake" THEN "handshakeFlush" ELSE "responseFlush")
      BY <2>4, SelectUndecided DEF TimerFires, Undecided, Final
    <3> QED BY <2>4, <3>1, <3>2 DEF TimerFires
  <2>5. CASE SocketFails BY <2>5 DEF SocketFails
  <2>6. CASE HandshakeFlushed BY <2>6 DEF HandshakeFlushed, Await
  <2>7. CASE Verify
    <3>1. /\ stage = "verify" /\ UNCHANGED <<cfg, quic, certificate>>
          /\ \/ KeyAccepted /\ stage' = "requestFlush" /\ requested'
             \/ requested' = requested /\ stage' = "failed"
      BY <2>7, Zenon DEF Verify, BeginFlush
    <3>2. CASE KeyAccepted /\ stage' = "requestFlush" /\ requested'
      BY <3>1, <3>2 DEF KeyAccepted
    <3>3. CASE requested' = requested /\ stage' = "failed"
      BY <3>1, <3>3
    <3> QED BY <3>1, <3>2, <3>3
  <2>8. CASE RequestFlushed BY <2>8 DEF RequestFlushed, Await
  <2>9. CASE ResponseFlushed BY <2>9 DEF ResponseFlushed, Await
  <2>10. CASE UNCHANGED hsVars BY <2>10 DEF hsVars
  <2> QED BY <2>1, <2>2, <2>3, <2>4, <2>5, <2>6, <2>7, <2>8, <2>9, <2>10
          DEF HandshakeNext, Session
<1>3. PinInv => OnlyPinnedEndpoint
  BY DEF PinInv, OnlyPinnedEndpoint
<1> QED BY <1>1, <1>2, <1>3, HandshakeTypes, PTL DEF HandshakeSpec

Within(t) == \E w \in Waits : t <= w

(* Every wait quiche asks for is one of those named, or shorter.             *)
LEMMA TimeoutsWithin ==
    ASSUME HandshakeTypeOK, Within(closeIn), NEW t \in Timeouts
    PROVE  t \in Nat /\ Within(t)
<1>1. Fallback \in Waits /\ LongestPto \in Waits BY DEF Waits
<1>2. {Fallback, LongestPto, closeIn} \subseteq Nat BY HandshakeConfig DEF HandshakeTypeOK
<1>3. t = closeIn \/ t = Fallback \/ t \in 1 .. LongestPto BY DEF Timeouts
<1>4. CASE t = closeIn BY <1>2, <1>4
<1>5. CASE t = Fallback BY <1>1, <1>2, <1>5 DEF Within
<1>6. CASE t \in 1 .. LongestPto BY <1>1, <1>2, <1>6 DEF Within
<1> QED BY <1>3, <1>4, <1>5, <1>6

(* The flush behind a wait adds at most its own length.                      *)
LEMMA LaterByAFlush ==
    ASSUME NEW t \in Nat, NEW d \in Nat, NEW w \in Nat, NEW f \in Nat, NEW l \in Nat,
           t < d + w, l <= f
    PROVE  t + l < d + w + f
  OBVIOUS

(* masque/handshake.rs, wait_connect_response: the deadline limits when a wait *)
(* may begin, so that the call lasts at most one wait and one flush longer,    *)
(* however often datagrams interrupt it.                                     *)
THEOREM ResponseDeadline == HandshakeSpec => []GivesUpInTime
<1>a. Deadline \in Nat /\ Deadline > 0 /\ LongestPto \in Nat /\ LongestFlush \in Nat
  BY HandshakeConfig
<1>b. Waits \subseteq Nat BY HandshakeConfig DEF Waits
<1>1. HandshakeInit => WaitInv
  <2> SUFFICES ASSUME HandshakeInit PROVE WaitInv
    OBVIOUS
  <2>1. cfg.idle \in Waits /\ closeIn = cfg.idle BY DEF HandshakeInit, Waits
  <2>2. closeIn <= cfg.idle
    <3>1. cfg.idle \in Nat BY <1>a, <1>b, <2>1
    <3> QED BY <2>1, <3>1
  <2> QED BY <2>1, <2>2 DEF HandshakeInit, WaitInv
<1>2. HandshakeTypeOK /\ Undecided /\ WaitInv /\ [HandshakeNext]_hsVars => WaitInv'
  <2> SUFFICES ASSUME HandshakeTypeOK, Undecided, WaitInv, [HandshakeNext]_hsVars
               PROVE  WaitInv'
    OBVIOUS
  <2>0. Within(closeIn) BY DEF WaitInv, Within
  <2>1. closeIn \in Nat /\ left \in Nat /\ waited \in Nat
    BY DEF HandshakeTypeOK
  <2>2. \A t \in Timeouts : t \in Nat /\ Within(t) BY <2>0, TimeoutsWithin
  <2>3. stage = "response" => \E w \in Waits : waited < Deadline + w
    <3> SUFFICES ASSUME stage = "response" PROVE \E w \in Waits : waited < Deadline + w
      OBVIOUS
    <3>1. PICK w \in Waits : waited + left < Deadline + w BY DEF WaitInv
    <3> QED BY <1>a, <1>b, <2>1, <3>1
  <2>4. CASE Tick
    <3>1. /\ stage' = stage /\ left' = left - 1
          /\ closeIn' = IF closeIn > 0 THEN closeIn - 1 ELSE 0
          /\ stage \in {"response", "responseFlush"} => waited' = waited + 1
      BY <2>4, Zenon DEF Tick
    <3>4. closeIn' <= closeIn /\ closeIn' \in Nat BY <2>1, <3>1
    <3>2. Within(closeIn')
      <4>1. PICK w \in Waits : closeIn <= w BY <2>0 DEF Within
      <4>2. w \in Nat BY <1>b
      <4>3. closeIn' <= w BY <2>1, <3>4, <4>1, <4>2
      <4> QED BY <4>3 DEF Within
    <3>3. stage \in {"response", "responseFlush"} => waited' + left' = waited + left
      BY <2>1, <3>1
    <3> QED BY <3>1, <3>2, <3>3 DEF WaitInv, Within
  <2>5. ASSUME stage' = "responseFlush" => stage = "response",
               stage' # "response", waited' = waited, left' = 0 \/ left' = LongestFlush,
               Within(closeIn')
        PROVE  WaitInv'
    <3>1. stage' = "responseFlush" =>
              \E w \in Waits : waited' + left' < Deadline + w + LongestFlush
      <4> SUFFICES ASSUME stage' = "responseFlush"
                   PROVE  \E w \in Waits : waited' + left' < Deadline + w + LongestFlush
        OBVIOUS
      <4>1. PICK w \in Waits : waited < Deadline + w BY <2>3, <2>5
      <4>2. left' <= LongestFlush /\ left' \in Nat BY <1>a, <2>5
      <4>3. w \in Nat BY <1>b
      <4>4. waited + left' < Deadline + w + LongestFlush
        BY <1>a, <2>1, <4>1, <4>2, <4>3, LaterByAFlush
      <4>5. waited' = waited BY <2>5
      <4> QED BY <4>4, <4>5
    <3> QED BY <2>5, <3>1 DEF WaitInv, Within
  <2>6. CASE Receive
    <3>1. cfg.idle \in Waits /\ LongestPto \in Waits
      BY DEF HandshakeTypeOK, Waits
    <3>2. closeIn' \in {closeIn, cfg.idle} \union 1 .. LongestPto
      BY <2>6, Received
    <3>3. Within(closeIn')
      <4>1. CASE closeIn' = closeIn BY <2>0, <4>1 DEF Within
      <4>2. CASE closeIn' = cfg.idle
        <5>1. cfg.idle \in Nat BY <1>a, <1>b, <3>1
        <5>2. cfg.idle <= cfg.idle BY <5>1
        <5> QED BY <3>1, <4>2, <5>2 DEF Within
      <4>3. CASE closeIn' \in 1 .. LongestPto BY <1>a, <1>b, <3>1, <4>3 DEF Within
      <4> QED BY <3>2, <4>1, <4>2, <4>3
    <3>4. /\ stage \in Selects /\ waited' = waited /\ (left' = 0 \/ left' = LongestFlush)
          /\ stage' = "responseFlush" => stage # "handshake"
          /\ stage' # "response"
      BY <2>6, Received
    <3> QED BY <2>5, <3>3, <3>4 DEF Selects
  <2>7. CASE TimerFires
    <3>1. /\ stage \in Selects /\ closeIn' = closeIn /\ waited' = waited
          /\ left' = LongestFlush
          /\ stage' = (IF stage = "handshake" THEN "handshakeFlush" ELSE "responseFlush")
      BY <2>7, SelectUndecided DEF TimerFires, Undecided, Final, Selects
    <3> QED BY <2>0, <2>5, <3>1 DEF Selects, Within
  <2>8. CASE HandshakeFlushed
    <3>1. /\ stage' \in {"failed", "verify", "handshake"} /\ closeIn' = closeIn
      BY <2>8 DEF HandshakeFlushed, Await
    <3> QED BY <2>0, <3>1 DEF WaitInv, Within
  <2>9. CASE Verify
    <3>1. stage' \in {"failed", "requestFlush"} /\ closeIn' = closeIn
      BY <2>9 DEF Verify, BeginFlush
    <3> QED BY <2>0, <3>1 DEF WaitInv, Within
  <2>10. ASSUME stage' = "response", waited' \in Nat, waited' < Deadline, left' \in Timeouts,
                closeIn' = closeIn
         PROVE  WaitInv'
    <3>1. PICK w \in Waits : left' <= w BY <2>2, <2>10 DEF Within
    <3>2. waited' + left' < Deadline + w BY <1>a, <1>b, <2>2, <2>10, <3>1
    <3> QED BY <2>0, <2>10, <3>2 DEF WaitInv, Within
  <2>11. CASE RequestFlushed
    <3>1. stage' = "response" /\ waited' = 0 /\ left' \in Timeouts /\ closeIn' = closeIn
      BY <2>11 DEF RequestFlushed, Await
    <3> QED BY <1>a, <1>b, <2>10, <3>1
  <2>12. CASE ResponseFlushed
    <3>1. \/ stage' = "failed" /\ closeIn' = closeIn
          \/ /\ stage' = "response" /\ waited' = waited /\ waited < Deadline
             /\ left' \in Timeouts /\ closeIn' = closeIn
      BY <2>12, Zenon DEF ResponseFlushed, Await
    <3>2. CASE stage' = "failed" /\ closeIn' = closeIn
      BY <2>0, <3>2 DEF WaitInv, Within
    <3> QED BY <2>1, <2>10, <3>1, <3>2
  <2>13. CASE SocketFails
    <3>1. stage' = "failed" /\ closeIn' = closeIn BY <2>13 DEF SocketFails
    <3> QED BY <2>0, <3>1 DEF WaitInv, Within
  <2>14. CASE EndpointGoesSilent \/ UNCHANGED hsVars
    BY <2>14 DEF EndpointGoesSilent, hsVars, WaitInv
  <2> QED BY <2>4, <2>6, <2>7, <2>8, <2>9, <2>11, <2>12, <2>13, <2>14
          DEF HandshakeNext, Session
<1>3. HandshakeTypeOK /\ WaitInv => GivesUpInTime
  <2> SUFFICES ASSUME HandshakeTypeOK, WaitInv, stage \in {"response", "responseFlush"}
               PROVE  \E w \in Waits : waited < Deadline + w + LongestFlush
    BY DEF GivesUpInTime
  <2>1. left \in Nat /\ waited \in Nat BY DEF HandshakeTypeOK
  <2>2. PICK w \in Waits :
            waited + left < Deadline + w \/ waited + left < Deadline + w + LongestFlush
    BY DEF WaitInv
  <2>3. w \in Nat BY <1>b
  <2>4. waited < Deadline + w + LongestFlush BY <1>a, <2>1, <2>2, <2>3
  <2> QED BY <2>4
<1> QED BY <1>1, <1>2, <1>3, HandshakeTypes, PTL DEF HandshakeSpec

(* What is left of the exchange with an endpoint that says nothing more.      *)
(* The stages come in this order,                                           *)
StageLeft ==
    CASE stage \in {"handshake", "handshakeFlush"} -> 4
      [] stage = "verify" -> 3
      [] stage = "requestFlush" -> 2
      [] stage \in {"response", "responseFlush"} -> 1
      [] OTHER -> 0

(* and in a loop the timer, or the deadline, comes nearer with each wait;     *)
TimeLeft ==
    CASE stage = "handshake" -> closeIn - left
      [] stage = "handshakeFlush" -> closeIn
      [] stage = "response" -> IF waited + left < Deadline THEN Deadline - waited - left ELSE 0
      [] stage = "responseFlush" -> IF waited < Deadline THEN Deadline - waited ELSE 0
      [] OTHER -> 0

(* when it has come, one more wait of no length closes the connection.        *)
TurnsLeft ==
    CASE stage \in Selects -> IF Armed /\ closeIn = 0 THEN 1 ELSE 3
      [] stage \in {"handshakeFlush", "responseFlush"} -> IF quic.closed THEN 0 ELSE 2
      [] OTHER -> 0

(* The four numbers, the last of them left, in lexicographic order.          *)
Lowered ==
    \/ StageLeft' < StageLeft
    \/ StageLeft' = StageLeft /\ TimeLeft' < TimeLeft
    \/ StageLeft' = StageLeft /\ TimeLeft' = TimeLeft /\ TurnsLeft' < TurnsLeft
    \/ /\ StageLeft' = StageLeft /\ TimeLeft' = TimeLeft /\ TurnsLeft' = TurnsLeft
       /\ left' < left

(* The cases SilenceIsNoticed speaks of: the handshake has an idle or draining *)
(* timer, or is over.                                                       *)
Abandoned ==
    /\ silent /\ stage \notin Final
    /\ stage \in {"handshake", "handshakeFlush"} => Armed

SilenceCounts ==
    Abandoned =>
        /\ {StageLeft, TimeLeft, TurnsLeft, left} \subseteq Nat
        /\ Lowered
        /\ Abandoned' \/ stage' \in Final

(* A select under a closing timer lasts no longer than that timer.            *)
TimerInv == stage \in Selects /\ Armed => left <= closeIn

LEMMA TimerKept ==
    ASSUME HandshakeTypeOK, Undecided, TimerInv, [HandshakeNext]_hsVars
    PROVE  TimerInv'
<1>0. LongestPto \in Nat /\ closeIn \in Nat /\ left \in Nat
  BY HandshakeConfig DEF HandshakeTypeOK
<1>1. ASSUME stage' \in Selects, left' \in Timeouts, UNCHANGED <<cfg, quic, closeIn>>
      PROVE  TimerInv'
  BY <1>0, <1>1 DEF TimerInv, Timeouts, Armed
<1>2. ASSUME stage' \notin Selects PROVE TimerInv'
  BY <1>2 DEF TimerInv
<1>3. CASE Tick
  <2>1. /\ UNCHANGED <<cfg, quic, stage>> /\ left > 0 /\ left' = left - 1
        /\ closeIn' = IF closeIn > 0 THEN closeIn - 1 ELSE 0
    BY <1>3 DEF Tick
  <2> QED BY <1>0, <2>1 DEF TimerInv, Armed
<1>4. CASE Receive
  <2>1. stage' \notin Selects
    BY <1>4, Received DEF Selects
  <2> QED BY <1>2, <2>1
<1>5. CASE TimerFires
  <2>1. stage' \notin Selects
    BY <1>5, SelectUndecided DEF TimerFires, Undecided, Final, Selects
  <2> QED BY <1>2, <2>1
<1>6. CASE HandshakeFlushed \/ RequestFlushed \/ ResponseFlushed
  <2>1. \/ stage' \notin Selects
        \/ stage' \in Selects /\ left' \in Timeouts /\ UNCHANGED <<cfg, quic, closeIn>>
    BY <1>6 DEF HandshakeFlushed, RequestFlushed, ResponseFlushed, Await, Selects
  <2> QED BY <1>1, <1>2, <2>1
<1>7. CASE Verify \/ SocketFails
  <2>1. stage' \notin Selects
    BY <1>7 DEF Verify, SocketFails, BeginFlush, Selects
  <2> QED BY <1>2, <2>1
<1>8. CASE EndpointGoesSilent \/ UNCHANGED hsVars
  <2>1. UNCHANGED <<cfg, quic, closeIn, stage, left>>
    BY <1>8 DEF EndpointGoesSilent, hsVars
  <2> QED BY <2>1 DEF TimerInv, Armed
<1> QED BY <1>3, <1>4, <1>5, <1>6, <1>7, <1>8 DEF HandshakeNext, Session

(* The wait chosen when a select begins: none at all if the timer has come.   *)
LEMMA NextWait ==
    ASSUME HandshakeTypeOK, NEW t \in Timeouts
    PROVE  /\ t \in Nat
           /\ t = 0 => Armed /\ closeIn = 0
           /\ Armed => t <= closeIn
<1>1. /\ LongestPto \in Nat /\ Fallback \in Nat \ {0} /\ closeIn \in Nat
  BY HandshakeConfig DEF HandshakeTypeOK
<1> QED BY <1>1 DEF Timeouts

LEMMA CountedStep ==
    ASSUME HandshakeTypeOK, Undecided, TimerInv, Abandoned, HandshakeNext
    PROVE  SilenceCounts
<1>0. /\ closeIn \in Nat /\ left \in Nat /\ waited \in Nat
      /\ Deadline \in Nat /\ Deadline > 0 /\ LongestFlush \in Nat
  BY HandshakeConfig DEF HandshakeTypeOK
<1>1. {StageLeft, TimeLeft, TurnsLeft, left} \subseteq Nat
  <2>1. stage = "handshake" => left <= closeIn
    BY DEF Abandoned, TimerInv, Selects
  <2>2. TimeLeft \in Nat
    BY <1>0, <2>1 DEF TimeLeft
  <2> QED BY <1>0, <2>2 DEF StageLeft, TurnsLeft
<1>2. silent /\ stage \notin Final /\ stage \in Stages
  BY DEF Abandoned, HandshakeTypeOK
<1>3. ASSUME stage' \in Final PROVE SilenceCounts
  <2>1. StageLeft' = 0 /\ StageLeft > 0
    BY <1>2, <1>3 DEF StageLeft, Stages, Selects, Flushes, Final
  <2> QED BY <1>1, <1>3, <2>1 DEF SilenceCounts, Lowered
<1>4. ASSUME stage' \notin Final, UNCHANGED <<cfg, silent>>, quic'.draining = quic.draining,
             stage' \in {"handshake", "handshakeFlush"} => stage \in {"handshake", "handshakeFlush"}
      PROVE  Abandoned'
  BY <1>4 DEF Abandoned, Armed
<1>5. CASE Tick
  <2>1. /\ UNCHANGED <<cfg, quic, stage, silent>>
        /\ left > 0 /\ left' = left - 1
        /\ closeIn' = (IF closeIn > 0 THEN closeIn - 1 ELSE 0)
        /\ stage \in {"response", "responseFlush"} => waited' = waited + 1
        /\ stage \in Selects \union Flushes
    BY <1>5 DEF Tick, peerVars
  <2>2. Abandoned' BY <1>2, <1>4, <2>1
  <2>3. StageLeft' = StageLeft BY <2>1 DEF StageLeft
  <2>4. Armed' = Armed BY <2>1 DEF Armed
  <2>5. CASE stage = "handshake"
    <3>1. Armed /\ left <= closeIn BY <2>5 DEF Abandoned, TimerInv, Selects
    <3>2. closeIn > 0 /\ closeIn' = closeIn - 1 BY <1>0, <2>1, <3>1
    <3>3. TimeLeft' = TimeLeft BY <1>0, <2>1, <2>5, <3>2 DEF TimeLeft
    <3>4. TurnsLeft' <= TurnsLeft /\ TurnsLeft = 3 /\ TurnsLeft' \in {1, 3}
      BY <1>0, <2>1, <2>4, <2>5, <3>2 DEF TurnsLeft, Selects
    <3>5. left' < left BY <1>0, <2>1
    <3> QED BY <1>1, <2>2, <2>3, <3>3, <3>4, <3>5 DEF SilenceCounts, Lowered
  <2>6. CASE stage = "response"
    <3>1. waited' + left' = waited + left BY <1>0, <2>1, <2>6
    <3>2. TimeLeft' = TimeLeft
      <4>1. waited' \in Nat /\ left' \in Nat BY <1>0, <2>1, <2>6
      <4> QED BY <1>0, <2>1, <2>6, <3>1, <4>1 DEF TimeLeft
    <3>3. Armed => closeIn > 0 BY <1>0, <2>1, <2>6 DEF TimerInv, Selects
    <3>4. TurnsLeft = 3 /\ TurnsLeft' \in {1, 3}
      BY <1>0, <2>1, <2>6, <3>3 DEF TurnsLeft, Selects
    <3>5. left' < left BY <1>0, <2>1
    <3> QED BY <1>1, <2>2, <2>3, <3>2, <3>4, <3>5 DEF SilenceCounts, Lowered
  <2>7. CASE stage \in Flushes
    <3>1. TurnsLeft' = TurnsLeft BY <2>1, <2>7 DEF TurnsLeft, Flushes, Selects
    <3>2. TimeLeft' < TimeLeft \/ TimeLeft' = TimeLeft
      BY <1>0, <2>1, <2>7 DEF TimeLeft, Flushes
    <3>3. left' < left BY <1>0, <2>1
    <3> QED BY <1>1, <2>2, <2>3, <3>1, <3>2, <3>3 DEF SilenceCounts, Lowered
  <2> QED BY <2>1, <2>5, <2>6, <2>7 DEF Selects
<1>6. CASE TimerFires
  <2>1. /\ stage \in Selects /\ left = 0 /\ UNCHANGED <<cfg, closeIn, waited, silent>>
        /\ quic' = [quic EXCEPT !.closed = Armed /\ closeIn = 0]
        /\ AfterSelect(<<>>)
    BY <1>6 DEF TimerFires, peerVars
  <2>2. stage' = (IF stage = "handshake" THEN "handshakeFlush" ELSE "responseFlush")
    BY <2>1, SelectUndecided DEF Undecided, Final, Selects
  <2>3. quic'.draining = quic.draining /\ (quic'.closed <=> Armed /\ closeIn = 0)
    BY <2>1 DEF HandshakeTypeOK
  <2>4. Abandoned' BY <1>4, <2>1, <2>2, <2>3 DEF Final, Selects
  <2>5. StageLeft' = StageLeft BY <2>1, <2>2 DEF StageLeft, Selects
  <2>6. TimeLeft' = TimeLeft BY <1>0, <2>1, <2>2 DEF TimeLeft, Selects
  <2>7. TurnsLeft' < TurnsLeft BY <2>1, <2>2, <2>3 DEF TurnsLeft, Selects
  <2> QED BY <1>1, <2>4, <2>5, <2>6, <2>7 DEF SilenceCounts, Lowered
<1>7. CASE HandshakeFlushed
  <2>1. /\ stage = "handshakeFlush" /\ UNCHANGED <<cfg, quic, closeIn, waited, silent>>
        /\ \/ stage' = "failed"
           \/ stage' = "verify"
           \/ ~quic.closed /\ stage' = "handshake" /\ left' \in Timeouts
    BY <1>7 DEF HandshakeFlushed, Await, peerVars
  <2>2. CASE stage' = "failed" BY <1>3, <2>2 DEF Final
  <2>3. CASE stage' = "verify"
    <3>1. Abandoned' BY <1>4, <2>1, <2>3 DEF Final
    <3>2. StageLeft' < StageLeft BY <2>1, <2>3 DEF StageLeft
    <3> QED BY <1>1, <3>1, <3>2 DEF SilenceCounts, Lowered
  <2>4. CASE ~quic.closed /\ stage' = "handshake" /\ left' \in Timeouts
    <3>1. Abandoned' BY <1>4, <2>1, <2>4 DEF Final
    <3>2. StageLeft' = StageLeft BY <2>1, <2>4 DEF StageLeft
    <3>3. /\ left' \in Nat /\ left' <= closeIn
          /\ left' = 0 => closeIn = 0
          /\ Armed /\ Armed'
      BY <2>1, <2>4, <3>1, NextWait DEF Abandoned
    <3>4. TimeLeft' = closeIn - left' /\ TimeLeft = closeIn
      BY <2>1, <2>4 DEF TimeLeft
    <3>5. CASE left' # 0
      <4>1. TimeLeft' < TimeLeft
        <5>1. \A t \in Nat \ {0} : closeIn - t < closeIn BY <1>0
        <5>2. left' \in Nat \ {0} BY <3>3, <3>5
        <5> QED BY <3>4, <5>1, <5>2
      <4> QED BY <1>1, <3>1, <3>2, <4>1 DEF SilenceCounts, Lowered
    <3>6. CASE left' = 0
      <4>1. TimeLeft' = TimeLeft BY <1>0, <3>4, <3>6
      <4>2. TurnsLeft' = 1 /\ TurnsLeft = 2
        BY <2>1, <2>4, <3>3, <3>6 DEF TurnsLeft, Selects
      <4>3. TurnsLeft' < TurnsLeft BY <4>2
      <4> QED BY <1>1, <3>1, <3>2, <4>1, <4>3 DEF SilenceCounts, Lowered
    <3> QED BY <3>5, <3>6
  <2> QED BY <2>1, <2>2, <2>3, <2>4
<1>8. CASE ResponseFlushed
  <2>1. /\ stage = "responseFlush" /\ UNCHANGED <<cfg, quic, closeIn, waited, silent>>
        /\ \/ stage' = "failed"
           \/ /\ ~quic.closed /\ waited < Deadline
              /\ stage' = "response" /\ left' \in Timeouts
    BY <1>8, Zenon DEF ResponseFlushed, Await, peerVars
  <2>2. CASE stage' = "failed" BY <1>3, <2>2 DEF Final
  <2>3. CASE ~quic.closed /\ waited < Deadline /\ stage' = "response" /\ left' \in Timeouts
    <3>1. Abandoned' BY <1>4, <2>1, <2>3 DEF Final
    <3>2. StageLeft' = StageLeft BY <2>1, <2>3 DEF StageLeft
    <3>3. /\ left' \in Nat
          /\ left' = 0 => closeIn = 0 /\ Armed
      BY <2>3, NextWait
    <3>4. /\ TimeLeft = Deadline - waited
          /\ TimeLeft' = IF waited + left' < Deadline THEN Deadline - waited - left' ELSE 0
      BY <2>1, <2>3 DEF TimeLeft
    <3>5. CASE left' # 0
      <4>1. TimeLeft' < TimeLeft
        <5>1. waited < Deadline BY <2>3
        <5>2. \A t \in Nat \ {0} :
                 (IF waited + t < Deadline THEN Deadline - waited - t ELSE 0) < Deadline - waited
          BY <1>0, <5>1
        <5>3. left' \in Nat \ {0} BY <3>3, <3>5
        <5> QED BY <3>4, <5>2, <5>3
      <4> QED BY <1>1, <3>1, <3>2, <4>1 DEF SilenceCounts, Lowered
    <3>6. CASE left' = 0
      <4>1. TimeLeft' = TimeLeft BY <1>0, <2>3, <3>4, <3>6
      <4>2. Armed' BY <2>1, <3>3, <3>6 DEF Armed
      <4>3. TurnsLeft' = 1 /\ TurnsLeft = 2
        BY <2>1, <2>3, <3>3, <3>6, <4>2 DEF TurnsLeft, Selects
      <4>4. TurnsLeft' < TurnsLeft BY <4>3
      <4> QED BY <1>1, <3>1, <3>2, <4>1, <4>4 DEF SilenceCounts, Lowered
    <3> QED BY <3>5, <3>6
  <2> QED BY <2>1, <2>2, <2>3
<1>9. CASE Verify
  <2>1. /\ stage = "verify" /\ stage' \in {"requestFlush", "failed"}
        /\ UNCHANGED <<cfg, quic, silent>>
    BY <1>9 DEF Verify, BeginFlush, peerVars
  <2>2. CASE stage' = "failed" BY <1>3, <2>2 DEF Final
  <2>3. CASE stage' = "requestFlush"
    <3>1. Abandoned' BY <1>4, <2>1, <2>3 DEF Final
    <3>2. StageLeft' < StageLeft BY <2>1, <2>3 DEF StageLeft
    <3> QED BY <1>1, <3>1, <3>2 DEF SilenceCounts, Lowered
  <2> QED BY <2>1, <2>2, <2>3
<1>10. CASE RequestFlushed
  <2>1. /\ stage = "requestFlush" /\ stage' = "response"
        /\ UNCHANGED <<cfg, quic, silent>>
    BY <1>10 DEF RequestFlushed, Await, peerVars
  <2>2. Abandoned' BY <1>4, <2>1 DEF Final
  <2>3. StageLeft' < StageLeft BY <2>1 DEF StageLeft
  <2> QED BY <1>1, <2>2, <2>3 DEF SilenceCounts, Lowered
<1>11. CASE SocketFails BY <1>3, <1>11 DEF SocketFails, Final
<1>12. ~Receive /\ ~EndpointGoesSilent BY <1>2 DEF Receive, EndpointGoesSilent
<1> QED BY <1>5, <1>6, <1>7, <1>8, <1>9, <1>10, <1>11, <1>12 DEF HandshakeNext, Session

(* masque/handshake.rs: once the endpoint has fallen silent, both loops end by *)
(* counting, whatever quiche's timers are: each step, a unit of time           *)
(* included, lowers four numbers in lexicographic order until the attempt has  *)
(* ended.  The case left out is the one finding_silent_endpoint shows: a       *)
(* handshake without an idle timeout.                                       *)
THEOREM SilenceEndsByCounting == HandshakeSpec => [][SilenceCounts]_hsVars
<1>1. HandshakeInit => TimerInv
  <2> SUFFICES ASSUME HandshakeInit PROVE TimerInv
    OBVIOUS
  <2>1. closeIn \in Nat /\ LongestPto \in Nat
    BY HandshakeConfig DEF HandshakeInit
  <2> QED BY <2>1 DEF HandshakeInit, TimerInv, Timeouts
<1>2. (HandshakeTypeOK /\ Undecided) /\ TimerInv /\ [HandshakeNext]_hsVars => TimerInv'
  BY TimerKept
<1>3. (HandshakeTypeOK /\ Undecided) /\ TimerInv /\ [HandshakeNext]_hsVars
         => [SilenceCounts]_hsVars
  BY CountedStep DEF SilenceCounts
<1> QED BY <1>1, <1>2, <1>3, HandshakeTypes, PTL DEF HandshakeSpec

-----------------------------------------------------------------------------
(* select_endpoints_from_config.                                            *)

Addresses == V4 \union V6 \union {Blank, Invalid}
AnyPeer == [v4 : Addresses, v6 : Addresses, key : Keys \union {Invalid}, ports : Seq(Nat)]
AnyEndpoint == [address : Addresses, port : Nat, key : Keys \union {Invalid}]
Turns == Nat \X Nat \X Nat

(* The turns of the loops that offer an endpoint, and what they offer.       *)
Offering ==
    {c \in Turns :
        /\ c[1] \in 1 .. Len(Configured) /\ c[2] \in 1 .. 2
        /\ c[3] \in 1 .. Len(Ports(Configured[c[1]]))
        /\ Families(Configured[c[1]])[c[2]] # Blank}

Offered(c) ==
    LET peer == Configured[c[1]]
    IN Endpoint(Families(peer)[c[2]], Ports(peer)[c[3]], peer.key)

Walked == {c \in Offering : Before(c, turn)}

(* Nothing changes what is configured.                                      *)
ConfigTypes ==
    /\ Configured \in Seq(AnyPeer) /\ Len(Configured) >= 1
    /\ port_override \in Nat /\ prefer_ipv6 \in BOOLEAN

(* Where the loops are.                                                     *)
TurnTypes ==
    /\ turn \in Turns
    /\ turn[1] \in 1 .. Len(Configured) + 1 /\ turn[2] \in 1 .. 2
    /\ turn[1] <= Len(Configured) => turn[3] \in 1 .. Len(Ports(Configured[turn[1]]))

(* What the loops have pushed: all they passed, each where it came first.    *)
Pushed ==
    /\ endpoints \in Seq(AnyEndpoint)
    /\ \A c \in Walked : \E i \in 1 .. Len(endpoints) : endpoints[i] = Offered(c)
    /\ \A i \in 1 .. Len(endpoints) : \E c \in Walked : endpoints[i] = Offered(c)
    /\ \A i, j \in 1 .. Len(endpoints) : i < j =>
          \E c \in Walked : /\ Offered(c) = endpoints[i]
                            /\ \A d \in Walked : Offered(d) = endpoints[j] => Before(c, d)

(* What they have looked at can be used.                                    *)
Usable ==
    \A p \in 1 .. Len(Configured), f \in 1 .. 2 :
        p < turn[1] \/ (p = turn[1] /\ f < turn[2]) =>
            Configured[p].key # Invalid /\ Families(Configured[p])[f] # Invalid

SelectInv ==
    /\ ConfigTypes
    /\ outcome \in {"selecting", "selected", "no endpoint", "unusable value"}
    /\ outcome = "selecting" => TurnTypes /\ Pushed /\ Usable
    /\ outcome # "selecting" => SelectedAsDefined

(* config.rs: the ports of a peer, and where the API listed them.           *)
LEMMA PortsType ==
    ASSUME NEW peer \in AnyPeer, port_override \in Nat
    PROVE  Ports(peer) \in Seq(Nat) /\ Len(Ports(peer)) >= 1
<1>1. peer.ports \in Seq(Nat) BY DEF AnyPeer
<1> DEFINE api == Keep(peer.ports, Nat \ {0})
<1>2. api \in Seq(Nat) BY <1>1, KeepMembers
<1> HIDE DEF api
<1>3. CASE port_override # 0 BY <1>3 DEF Ports
<1>4. CASE port_override = 0 /\ api = <<>> BY <1>4 DEF Ports, api
<1>5. CASE port_override = 0 /\ api # <<>>
  <2>1. Ports(peer) = api BY <1>5 DEF Ports, api
  <2> QED BY <1>2, <1>5, <2>1
<1> QED BY <1>3, <1>4, <1>5

ListedAs(m, peer) ==
    /\ m \in [1 .. Len(Ports(peer)) -> Nat]
    /\ \A i \in 1 .. Len(Ports(peer)) :
          m[i] \in PortPlaces(peer) /\ PortAt(peer, m[i]) = Ports(peer)[i]
    /\ \A i, j \in 1 .. Len(Ports(peer)) : i < j => m[i] < m[j]
    /\ \A k \in PortPlaces(peer) : \E i \in 1 .. Len(Ports(peer)) : m[i] = k

LEMMA PortsListed ==
    ASSUME NEW peer \in AnyPeer, port_override \in Nat
    PROVE  \E m : ListedAs(m, peer)
<1>1. peer.ports \in Seq(Nat) /\ Len(peer.ports) \in Nat
      /\ DOMAIN peer.ports = 1 .. Len(peer.ports)
  BY DEF AnyPeer
<1> DEFINE api == Keep(peer.ports, Nat \ {0})
           n == Len(peer.ports)
<1>2. api \in Seq(Nat) BY <1>1, KeepMembers
<1>3. PICK h : KeptFrom(h, peer.ports, Nat \ {0}, n)
  <2>1. n \in 0 .. n BY <1>1
  <2> QED BY <1>1, <2>1, KeptPlaces
<1>4. /\ h \in [1 .. Len(api) -> 1 .. n]
      /\ \A i, j \in 1 .. Len(api) : i < j => h[i] < h[j]
      /\ \A j \in 1 .. Len(api) : api[j] = peer.ports[h[j]] /\ peer.ports[h[j]] \in Nat \ {0}
      /\ \A i \in 1 .. n : peer.ports[i] \in Nat \ {0} => \E j \in 1 .. Len(api) : h[j] = i
  BY <1>3, Zenon DEF KeptFrom, Keep
<1>5. ASSUME NEW i \in 1 .. n PROVE i \in Listed(peer) <=> peer.ports[i] \in Nat \ {0}
  <2>1. peer.ports[i] \in Nat BY <1>1, ElementOfSeq
  <2> QED BY <1>1, <2>1 DEF Listed
<1>6. \A i \in Listed(peer) : i \in 1 .. n BY <1>1 DEF Listed
<1> HIDE DEF api, n
<1>7. Len(api) \in Nat /\ (api = <<>> <=> Len(api) = 0) BY <1>2
<1>8. CASE port_override # 0
  <2> DEFINE m == [i \in 1 .. 1 |-> 1]
  <2>1. Ports(peer) = <<port_override>> /\ PortPlaces(peer) = {1} BY <1>8 DEF Ports, PortPlaces
  <2>2. PortAt(peer, 1) = port_override BY <1>8 DEF PortAt
  <2>3. ListedAs(m, peer) BY <2>1, <2>2 DEF ListedAs
  <2> QED BY <2>3
<1>9. CASE port_override = 0 /\ api = <<>>
  <2> DEFINE m == [i \in 1 .. 1 |-> 1]
  <2>0. Listed(peer) = {} BY <1>4, <1>5, <1>6, <1>7, <1>9
  <2>1. Ports(peer) = <<443>> /\ PortPlaces(peer) = {1} BY <1>9, <2>0 DEF Ports, PortPlaces, api
  <2>2. PortAt(peer, 1) = 443 BY <1>9, <2>0 DEF PortAt
  <2>3. ListedAs(m, peer) BY <2>1, <2>2 DEF ListedAs
  <2> QED BY <2>3
<1>10. CASE port_override = 0 /\ api # <<>>
  <2>1. Ports(peer) = api BY <1>10 DEF Ports, api
  <2>2. \A j \in 1 .. Len(api) : h[j] \in 1 .. n BY <1>4
  <2>3. \A j \in 1 .. Len(api) : h[j] \in Listed(peer) BY <1>4, <1>5, <2>2
  <2>4. Listed(peer) # {}
    <3>1. 1 \in 1 .. Len(api) BY <1>7, <1>10
    <3> QED BY <2>3, <3>1
  <2>5. PortPlaces(peer) = Listed(peer) BY <1>10, <2>4 DEF PortPlaces
  <2>6. \A i : PortAt(peer, i) = peer.ports[i] BY <1>10, <2>4 DEF PortAt
  <2>7. h \in [1 .. Len(api) -> Nat]
    <3>1. 1 .. n \subseteq Nat BY <1>1 DEF n
    <3> QED BY <1>4, <3>1
  <2>8. \A k \in Listed(peer) : \E i \in 1 .. Len(api) : h[i] = k BY <1>4, <1>5, <1>6
  <2>9. \A i \in 1 .. Len(api) : PortAt(peer, h[i]) = api[i] BY <1>4, <2>6
  <2>10. \A i, j \in 1 .. Len(api) : i < j => h[i] < h[j] BY <1>4
  <2>11. ListedAs(h, peer)
    BY <2>1, <2>3, <2>5, <2>7, <2>8, <2>9, <2>10, Zenon DEF ListedAs
  <2> QED BY <2>11
<1> QED BY <1>8, <1>9, <1>10

(* A configured peer, and the families of one.                              *)
LEMMA ConfiguredPeer ==
    ASSUME ConfigTypes, NEW p \in 1 .. Len(Configured)
    PROVE  /\ Configured[p] \in AnyPeer
           /\ \A f \in 1 .. 2 : Families(Configured[p])[f] \in Addresses
           /\ Ports(Configured[p]) \in Seq(Nat) /\ Len(Ports(Configured[p])) \in Nat
           /\ Len(Ports(Configured[p])) >= 1
<1>1. Configured[p] \in AnyPeer BY DEF ConfigTypes
<1> DEFINE peer == Configured[p]
<1> HIDE DEF peer
<1>2. peer \in AnyPeer BY <1>1 DEF peer
<1>3. peer.v4 \in Addresses /\ peer.v6 \in Addresses BY <1>2 DEF AnyPeer
<1>4. ASSUME NEW f \in 1 .. 2 PROVE Families(peer)[f] \in Addresses
  <2>1. f = 1 \/ f = 2 OBVIOUS
  <2> QED BY <1>3, <2>1 DEF Families
<1>5. Ports(peer) \in Seq(Nat) /\ Len(Ports(peer)) >= 1 BY <1>2, PortsType DEF ConfigTypes
<1>6. Len(Ports(peer)) \in Nat BY <1>5
<1> QED BY <1>1, <1>4, <1>5, <1>6 DEF peer

(* The loops come by the places at which the configuration names endpoints,  *)
(* in the same order: the place of a turn is strictly later than that of an   *)
(* earlier turn, and no place is missed.                                    *)
Placed(place) ==
    /\ \A c \in Offering : place[c] \in Places /\ Named(place[c]) = Offered(c)
    /\ \A c, d \in Offering : Before(c, d) <=> Before(place[c], place[d])
    /\ \A k \in Places : \E c \in Offering : place[c] = k

LEMMA TurnsArePlaces ==
    ASSUME ConfigTypes
    PROVE  \E place : Placed(place)
<1> DEFINE N == 1 .. Len(Configured)
           m == [p \in N |-> CHOOSE m : ListedAs(m, Configured[p])]
           place == [c \in Offering |-> <<c[1], c[2], m[c[1]][c[3]]>>]
<1>0. DOMAIN Configured = N BY DEF ConfigTypes
<1>1. ASSUME NEW p \in N PROVE ListedAs(m[p], Configured[p])
  <2>1. \E w : ListedAs(w, Configured[p])
    BY ConfiguredPeer, PortsListed DEF ConfigTypes
  <2> QED BY <2>1
<1> HIDE DEF m
<1>2. ASSUME NEW c \in Offering
      PROVE  /\ c[1] \in N /\ c[2] \in 1 .. 2 /\ c[3] \in 1 .. Len(Ports(Configured[c[1]]))
             /\ Families(Configured[c[1]])[c[2]] # Blank
             /\ c = <<c[1], c[2], c[3]>>
             /\ c[1] \in Nat /\ c[2] \in Nat /\ c[3] \in Nat
  BY DEF Offering, Turns
<1>3. ASSUME NEW c \in Offering
      PROVE  place[c] \in Places /\ Named(place[c]) = Offered(c)
  <2> DEFINE p == c[1]
             peer == Configured[p]
             k == m[p][c[3]]
  <2>1. p \in N /\ place[c] = <<p, c[2], k>> BY <1>2
  <2>2. k \in PortPlaces(peer) /\ PortAt(peer, k) = Ports(peer)[c[3]]
    BY <1>1, <1>2 DEF ListedAs
  <2> HIDE DEF k
  <2>3. <<p, c[2], k>>
          \in {p} \X {f \in 1 .. 2 : Families(Configured[p])[f] # Blank} \X PortPlaces(Configured[p])
    BY <1>2, <2>2
  <2>4. place[c] \in Places BY <1>0, <2>1, <2>3 DEF Places
  <2>5. Named(<<p, c[2], k>>) = Offered(c) BY <2>2 DEF Named, Offered
  <2> QED BY <2>1, <2>4, <2>5
<1>4. ASSUME NEW c \in Offering, NEW d \in Offering
      PROVE  Before(c, d) <=> Before(place[c], place[d])
  <2>1. /\ place[c] = <<c[1], c[2], m[c[1]][c[3]]>>
        /\ place[d] = <<d[1], d[2], m[d[1]][d[3]]>>
    OBVIOUS
  <2>2. c[1] = d[1] => (c[3] < d[3] <=> m[c[1]][c[3]] < m[d[1]][d[3]])
    <3> SUFFICES ASSUME c[1] = d[1] PROVE c[3] < d[3] <=> m[c[1]][c[3]] < m[c[1]][d[3]]
      OBVIOUS
    <3> DEFINE w == m[c[1]]
               ports == Ports(Configured[c[1]])
    <3>1. ListedAs(w, Configured[c[1]]) BY <1>1, <1>2
    <3>2. /\ w \in [1 .. Len(ports) -> Nat]
          /\ \A i, j \in 1 .. Len(ports) : i < j => w[i] < w[j]
          /\ c[3] \in 1 .. Len(ports) /\ d[3] \in 1 .. Len(ports)
      BY <1>2, <3>1 DEF ListedAs
    <3>3. c[3] \in Nat /\ d[3] \in Nat BY <1>2
    <3> HIDE DEF w, ports
    <3>4. w[c[3]] \in Nat /\ w[d[3]] \in Nat BY <3>2
    <3>5. /\ c[3] < d[3] => w[c[3]] < w[d[3]]
          /\ d[3] < c[3] => w[d[3]] < w[c[3]]
          /\ c[3] = d[3] => w[d[3]] = w[c[3]]
      BY <3>2
    <3>6. c[3] < d[3] <=> w[c[3]] < w[d[3]] BY <3>3, <3>4, <3>5
    <3> QED BY <3>6 DEF w
  <2> HIDE DEF place
  <2>3. /\ place[c][1] = c[1] /\ place[c][2] = c[2] /\ place[c][3] = m[c[1]][c[3]]
        /\ place[d][1] = d[1] /\ place[d][2] = d[2] /\ place[d][3] = m[d[1]][d[3]]
    BY <2>1
  <2> QED BY <2>2, <2>3 DEF Before
<1>5. ASSUME NEW k \in Places PROVE \E c \in Offering : place[c] = k
  <2>1. PICK p \in N :
           k \in {p} \X {f \in 1 .. 2 : Families(Configured[p])[f] # Blank} \X PortPlaces(Configured[p])
    BY <1>0 DEF Places
  <2>2. /\ k = <<p, k[2], k[3]>> /\ k[2] \in 1 .. 2 /\ Families(Configured[p])[k[2]] # Blank
        /\ k[3] \in PortPlaces(Configured[p])
    BY <2>1
  <2>3. PICK i \in 1 .. Len(Ports(Configured[p])) : m[p][i] = k[3]
    BY <1>1, <2>2 DEF ListedAs
  <2> DEFINE c == <<p, k[2], i>>
  <2>4. c \in Offering
    <3>1. p \in Nat /\ k[2] \in Nat /\ i \in Nat BY <2>2
    <3>2. c \in Turns BY <3>1 DEF Turns
    <3> QED BY <2>2, <3>2 DEF Offering
  <2>5. place[c] = k BY <2>2, <2>3, <2>4
  <2> QED BY <2>4, <2>5
<1> HIDE DEF place
<1>6. Placed(place) BY <1>3, <1>4, <1>5 DEF Placed
<1> QED BY <1>6

(* Where the loops stand after a turn.                                      *)
LEMMA NextTurn ==
    ASSUME ConfigTypes, TurnTypes, turn[1] <= Len(Configured),
           NEW next, next = IF turn[3] < Len(Ports(This)) /\ Address # Blank
                            THEN <<turn[1], turn[2], turn[3] + 1>> ELSE AfterFamily
    PROVE  /\ next \in Turns
           /\ next[1] \in 1 .. Len(Configured) + 1 /\ next[2] \in 1 .. 2
           /\ next[1] <= Len(Configured) => next[3] \in 1 .. Len(Ports(Configured[next[1]]))
           /\ \A c \in Offering : Before(c, next) => Before(c, turn) \/ c = turn
           /\ \A c \in Offering : Before(c, turn) => Before(c, next)
           /\ Before(turn, next)
           /\ \A p, f \in Nat : p < next[1] \/ (p = next[1] /\ f < next[2]) =>
                 \/ p < turn[1] \/ (p = turn[1] /\ f < turn[2])
                 \/ p = turn[1] /\ f = turn[2]
                 \/ f \notin 1 .. 2
<1> DEFINE P == turn[1]
           F == turn[2]
           Q == turn[3]
           L == Len(Ports(Configured[P]))
<1>1. /\ P \in 1 .. Len(Configured) /\ F \in 1 .. 2 /\ Q \in 1 .. L
      /\ turn = <<P, F, Q>> /\ P \in Nat /\ F \in Nat /\ Q \in Nat
  BY DEF TurnTypes, Turns
<1>2. L \in Nat /\ L >= 1 /\ Len(Configured) \in Nat BY <1>1, ConfiguredPeer DEF ConfigTypes
<1>3. ASSUME NEW p \in 1 .. Len(Configured) PROVE 1 \in 1 .. Len(Ports(Configured[p]))
  BY ConfiguredPeer
<1>4. next = IF Q < L /\ Address # Blank THEN <<P, F, Q + 1>>
             ELSE IF F = 1 THEN <<P, 2, 1>> ELSE <<P + 1, 1, 1>>
  BY DEF This, AfterFamily
<1>5. ASSUME NEW c \in Offering
      PROVE  /\ c = <<c[1], c[2], c[3]>> /\ c[1] \in Nat /\ c[2] \in 1 .. 2 /\ c[3] \in Nat
             /\ c[3] >= 1 /\ (c[1] = P => c[3] <= L)
             /\ c[1] = P /\ c[2] = F => Address # Blank
  BY DEF Offering, Turns, Address, This
<1> HIDE DEF P, F, Q, L
<1>6. turn[1] = P /\ turn[2] = F /\ turn[3] = Q BY DEF P, F, Q
<1>7. CASE Q < L /\ Address # Blank
  <2>1. next = <<P, F, Q + 1>> BY <1>4, <1>7
  <2>2. next \in Turns /\ next[1] = P /\ next[2] = F /\ next[3] = Q + 1 BY <1>1, <2>1 DEF Turns
  <2>3. next[3] \in 1 .. Len(Ports(Configured[next[1]])) BY <1>1, <1>2, <1>7, <2>2 DEF L
  <2>4. ASSUME NEW c \in Offering
        PROVE  /\ Before(c, next) => Before(c, turn) \/ c = turn
               /\ Before(c, turn) => Before(c, next)
    <3>1. c[3] < Q + 1 => c[3] < Q \/ c[3] = Q BY <1>1, <1>5
    <3>2. c[3] < Q => c[3] < Q + 1 BY <1>1, <1>5
    <3>3. c[1] = P /\ c[2] = F /\ c[3] = Q => c = turn BY <1>1, <1>5
    <3> QED BY <1>6, <2>2, <3>1, <3>2, <3>3 DEF Before
  <2>5. Before(turn, next) BY <1>1, <1>6, <2>2 DEF Before
  <2> QED BY <1>1, <1>2, <1>6, <2>2, <2>3, <2>4, <2>5, SMTT(30)
<1>8. CASE ~ (Q < L /\ Address # Blank) /\ F = 1
  <2>1. next = <<P, 2, 1>> BY <1>4, <1>8
  <2>2. next \in Turns /\ next[1] = P /\ next[2] = 2 /\ next[3] = 1 BY <1>1, <2>1 DEF Turns
  <2>3. next[3] \in 1 .. Len(Ports(Configured[next[1]])) BY <1>1, <1>3, <2>2
  <2>4. ASSUME NEW c \in Offering
        PROVE  /\ Before(c, next) => Before(c, turn) \/ c = turn
               /\ Before(c, turn) => Before(c, next)
    <3>1. ~ (c[3] < 1) BY <1>5
    <3>2. c[2] < 2 => c[2] = 1 BY <1>5
    <3>3. c[1] = P /\ c[2] = 1 => c[3] < Q \/ c[3] = Q BY <1>1, <1>2, <1>5, <1>8
    <3>4. c[1] = P /\ c[2] = F /\ c[3] = Q => c = turn BY <1>1, <1>5
    <3>5. c[2] = 1 => c[2] < 2 OBVIOUS
    <3>6. ~ (c[2] < 1) BY <1>5
    <3> QED BY <1>6, <1>8, <2>2, <3>1, <3>2, <3>3, <3>4, <3>5, <3>6 DEF Before
  <2>5. Before(turn, next) BY <1>6, <1>8, <2>2 DEF Before
  <2>6. ASSUME NEW p \in Nat, NEW f \in Nat, p < next[1] \/ (p = next[1] /\ f < next[2])
        PROVE  \/ p < P \/ (p = P /\ f < F)
               \/ p = P /\ f = F
               \/ f \notin 1 .. 2
    BY <1>1, <1>8, <2>2, <2>6
  <2>7. next[1] \in 1 .. Len(Configured) + 1 /\ next[2] \in 1 .. 2
    BY <1>1, <1>2, <2>2
  <2> QED BY <1>6, <2>2, <2>3, <2>4, <2>5, <2>6, <2>7
<1>9. CASE ~ (Q < L /\ Address # Blank) /\ F = 2
  <2>1. next = <<P + 1, 1, 1>> BY <1>4, <1>9
  <2>2. next \in Turns /\ next[1] = P + 1 /\ next[2] = 1 /\ next[3] = 1 BY <1>1, <2>1 DEF Turns
  <2>3. next[1] <= Len(Configured) => next[3] \in 1 .. Len(Ports(Configured[next[1]]))
    BY <1>1, <1>2, <1>3, <2>2
  <2>4. ASSUME NEW c \in Offering
        PROVE  /\ Before(c, next) => Before(c, turn) \/ c = turn
               /\ Before(c, turn) => Before(c, next)
    <3>1. ~ (c[3] < 1) /\ ~ (c[2] < 1) BY <1>5
    <3>2. c[1] < P + 1 => c[1] < P \/ c[1] = P BY <1>1, <1>5
    <3>3. c[2] < F \/ c[2] = F BY <1>5, <1>9
    <3>4. c[1] = P /\ c[2] = F => c[3] < Q \/ c[3] = Q BY <1>1, <1>2, <1>5, <1>9
    <3>5. c[1] = P /\ c[2] = F /\ c[3] = Q => c = turn BY <1>1, <1>5
    <3>6. c[1] < P \/ c[1] = P => c[1] < P + 1 BY <1>1, <1>5
    <3> QED BY <1>6, <2>2, <3>1, <3>2, <3>3, <3>4, <3>5, <3>6 DEF Before
  <2>5. Before(turn, next) BY <1>1, <1>6, <2>2 DEF Before
  <2>6. ASSUME NEW p \in Nat, NEW f \in Nat, p < next[1] \/ (p = next[1] /\ f < next[2])
        PROVE  \/ p < P \/ (p = P /\ f < F)
               \/ p = P /\ f = F
               \/ f \notin 1 .. 2
    BY <1>1, <1>9, <2>2, <2>6
  <2>7. next[1] \in 1 .. Len(Configured) + 1 /\ next[2] \in 1 .. 2
    BY <1>1, <1>2, <2>2
  <2> QED BY <1>6, <2>2, <2>3, <2>4, <2>5, <2>6, <2>7
<1>10. F = 1 \/ F = 2 BY <1>1
<1> QED BY <1>7, <1>8, <1>9, <1>10

(* The options stay, and with them all that is made of them.                *)
LEMMA OptionsStay ==
    ASSUME UNCHANGED options
    PROVE  /\ Configured' = Configured /\ Offering' = Offering /\ Places' = Places
           /\ (ConfigTypes => ConfigTypes')
           /\ \A c : Offered(c)' = Offered(c) /\ Named(c)' = Named(c)
           /\ \A peer : Families(peer)' = Families(peer) /\ Ports(peer)' = Ports(peer)
<1>1. /\ peers' = peers /\ legacy' = legacy /\ prefer_ipv6' = prefer_ipv6
      /\ port_override' = port_override
  BY DEF options
<1>2. Configured' = Configured BY <1>1 DEF Configured
<1>3. \A peer : Families(peer)' = Families(peer) BY <1>1 DEF Families
<1>4. \A peer : Ports(peer)' = Ports(peer) BY <1>1 DEF Ports
<1>5. Offering' = Offering BY <1>2, <1>3, <1>4 DEF Offering
<1>6. \A peer : PortPlaces(peer)' = PortPlaces(peer) BY <1>1 DEF PortPlaces
<1>7. \A peer, i : PortAt(peer, i)' = PortAt(peer, i) BY <1>1 DEF PortAt
<1>8. Places' = Places BY <1>2, <1>3, <1>6 DEF Places
<1>9. \A c : Offered(c)' = Offered(c) BY <1>2, <1>3, <1>4 DEF Offered
<1>10. \A c : Named(c)' = Named(c) BY <1>2, <1>3, <1>7 DEF Named
<1>11. ConfigTypes => ConfigTypes' BY <1>1, <1>2 DEF ConfigTypes
<1> QED BY <1>2, <1>3, <1>4, <1>5, <1>8, <1>9, <1>10, <1>11

LEMMA PushedNext ==
    ASSUME UNCHANGED options, endpoints' \in Seq(AnyEndpoint),
           \A c \in Walked' : \E i \in 1 .. Len(endpoints') : endpoints'[i] = Offered(c),
           \A i \in 1 .. Len(endpoints') : \E c \in Walked' : endpoints'[i] = Offered(c),
           \A i, j \in 1 .. Len(endpoints') : i < j =>
              \E c \in Walked' : /\ Offered(c) = endpoints'[i]
                                /\ \A d \in Walked' : Offered(d) = endpoints'[j] => Before(c, d)
    PROVE  Pushed'
<1>1. \A c : Offered(c)' = Offered(c) BY OptionsStay
<1>2. \A c, d : Before(c, d)' <=> Before(c, d) BY DEF Before
<1>3. \A c \in Walked' : \E i \in 1 .. Len(endpoints') : endpoints'[i] = Offered(c)'
  BY <1>1
<1>4. \A i \in 1 .. Len(endpoints') : \E c \in Walked' : endpoints'[i] = Offered(c)'
  BY <1>1
<1>5. ASSUME NEW i \in 1 .. Len(endpoints'), NEW j \in 1 .. Len(endpoints'), i < j
      PROVE  \E c \in Walked' : /\ Offered(c)' = endpoints'[i]
                               /\ \A d \in Walked' : Offered(d)' = endpoints'[j] => Before(c, d)'
  <2>1. PICK c \in Walked' : /\ Offered(c) = endpoints'[i]
                             /\ \A d \in Walked' : Offered(d) = endpoints'[j] => Before(c, d)
    BY <1>5
  <2> QED BY <1>1, <1>2, <2>1
<1> QED BY <1>3, <1>4, <1>5, Zenon DEF Pushed

LEMMA PrecedesStays ==
    ASSUME UNCHANGED options, NEW i, NEW j, Precedes(endpoints'[i], endpoints'[j])
    PROVE  Precedes(endpoints[i], endpoints[j])'
<1>1. \A c, d : Before(c, d)' <=> Before(c, d) BY DEF Before
<1>2. Places' = Places /\ \A c : Named(c)' = Named(c) BY OptionsStay
<1> QED BY <1>1, <1>2 DEF Precedes

LEMMA SkipFamilyStep ==
    ASSUME SelectInv, SkipFamily
    PROVE  SelectInv'
<1>1. /\ Going /\ This.key # Invalid /\ Address = Blank
      /\ turn' = AfterFamily /\ UNCHANGED options
      /\ endpoints' = endpoints /\ outcome' = outcome
  BY DEF SkipFamily
<1>2. ConfigTypes /\ TurnTypes /\ Pushed /\ Usable /\ outcome = "selecting"
      /\ turn[1] <= Len(Configured)
  BY <1>1 DEF SelectInv, Going
<1>3. turn' = IF turn[3] < Len(Ports(This)) /\ Address # Blank
              THEN <<turn[1], turn[2], turn[3] + 1>> ELSE AfterFamily
  BY <1>1
<1> DEFINE next == turn'
<1>4. /\ next \in Turns
      /\ next[1] \in 1 .. Len(Configured) + 1 /\ next[2] \in 1 .. 2
      /\ next[1] <= Len(Configured) => next[3] \in 1 .. Len(Ports(Configured[next[1]]))
      /\ \A c \in Offering : Before(c, next) => Before(c, turn) \/ c = turn
      /\ \A c \in Offering : Before(c, turn) => Before(c, next)
      /\ \A p, f \in Nat : p < next[1] \/ (p = next[1] /\ f < next[2]) =>
            \/ p < turn[1] \/ (p = turn[1] /\ f < turn[2])
            \/ p = turn[1] /\ f = turn[2]
            \/ f \notin 1 .. 2
  BY <1>2, <1>3, NextTurn
<1>5. turn \notin Offering BY <1>1 DEF Offering, Address, This
<1>6. Walked' = Walked
  <2>1. Offering' = Offering BY <1>1, OptionsStay
  <2>2. \A c \in Offering : Before(c, turn') <=> Before(c, turn) BY <1>4, <1>5
  <2>3. \A c : Before(c, turn)' <=> Before(c, turn') BY DEF Before
  <2> QED BY <2>1, <2>2, <2>3 DEF Walked
<1>7. TurnTypes' BY <1>1, <1>4, OptionsStay DEF TurnTypes
<1>8. Pushed'
  <2>1. \A c : Offered(c)' = Offered(c) BY <1>1, OptionsStay
  <2>2. \A c, d : Before(c, d)' <=> Before(c, d) BY DEF Before
  <2>3. /\ endpoints' \in Seq(AnyEndpoint)
        /\ \A c \in Walked' : \E i \in 1 .. Len(endpoints') : endpoints'[i] = Offered(c)
        /\ \A i \in 1 .. Len(endpoints') : \E c \in Walked' : endpoints'[i] = Offered(c)
        /\ \A i, j \in 1 .. Len(endpoints') : i < j =>
              \E c \in Walked' : /\ Offered(c) = endpoints'[i]
                                /\ \A d \in Walked' : Offered(d) = endpoints'[j] => Before(c, d)
    BY <1>1, <1>2, <1>6 DEF Pushed
  <2> QED BY <1>1, <2>3, PushedNext
<1>9. Usable'
  <2>1. This.key # Invalid /\ Address # Invalid BY <1>1, SelectionConfig
  <2> QED BY <1>1, <1>2, <1>4, <2>1, OptionsStay DEF Usable, This, Address
<1> QED BY <1>1, <1>2, <1>7, <1>8, <1>9, OptionsStay DEF SelectInv

LEMMA OfferStep ==
    ASSUME SelectInv, Offer
    PROVE  SelectInv'
<1> DEFINE e == Endpoint(Address, Ports(This)[turn[3]], This.key)
<1>1. /\ Going /\ This.key # Invalid /\ Address \notin {Blank, Invalid}
      /\ endpoints' = IF Seen(e) THEN endpoints ELSE Append(endpoints, e)
      /\ turn' = IF turn[3] < Len(Ports(This)) THEN <<turn[1], turn[2], turn[3] + 1>>
                 ELSE AfterFamily
      /\ UNCHANGED options /\ outcome' = outcome
  BY DEF Offer
<1>2. ConfigTypes /\ TurnTypes /\ Pushed /\ Usable /\ outcome = "selecting"
      /\ turn[1] <= Len(Configured)
  BY <1>1 DEF SelectInv, Going
<1>3. turn' = IF turn[3] < Len(Ports(This)) /\ Address # Blank
              THEN <<turn[1], turn[2], turn[3] + 1>> ELSE AfterFamily
  BY <1>1
<1> DEFINE next == turn'
<1>4. /\ next \in Turns
      /\ next[1] \in 1 .. Len(Configured) + 1 /\ next[2] \in 1 .. 2
      /\ next[1] <= Len(Configured) => next[3] \in 1 .. Len(Ports(Configured[next[1]]))
      /\ \A c \in Offering : Before(c, next) => Before(c, turn) \/ c = turn
      /\ \A c \in Offering : Before(c, turn) => Before(c, next)
      /\ Before(turn, next)
      /\ \A p, f \in Nat : p < next[1] \/ (p = next[1] /\ f < next[2]) =>
            \/ p < turn[1] \/ (p = turn[1] /\ f < turn[2])
            \/ p = turn[1] /\ f = turn[2]
            \/ f \notin 1 .. 2
  BY <1>2, <1>3, NextTurn
<1>5. turn \in Offering /\ e = Offered(turn)
  <2>1. turn \in Offering BY <1>1, <1>2 DEF Offering, TurnTypes, Address, This
  <2> QED BY <2>1 DEF Offered, Address, This
<1>6. Walked' = Walked \union {turn}
  <2>1. Offering' = Offering BY <1>1, OptionsStay
  <2>2. \A c \in Offering : Before(c, turn') <=> Before(c, turn) \/ c = turn BY <1>4
  <2>3. \A c : Before(c, turn)' <=> Before(c, turn') BY DEF Before
  <2> QED BY <1>5, <2>1, <2>2, <2>3 DEF Walked
<1>7. TurnTypes' BY <1>1, <1>4, OptionsStay DEF TurnTypes
<1>8. Pushed'
  <2> HIDE DEF e, next
  <2>2. e \in AnyEndpoint
    <3>1. This \in AnyPeer /\ Address \in Addresses /\ Ports(This) \in Seq(Nat)
      BY <1>2, ConfiguredPeer DEF This, Address, TurnTypes
    <3>2. turn[3] \in 1 .. Len(Ports(This)) BY <1>2 DEF TurnTypes, This
    <3>3. Ports(This)[turn[3]] \in Nat BY <3>1, <3>2, ElementOfSeq
    <3> QED BY <3>1, <3>3 DEF e, Endpoint, AnyEndpoint, AnyPeer
  <2>3. \A c \in Walked : Before(c, turn) BY DEF Walked
  <2>4. endpoints \in Seq(AnyEndpoint) /\ Len(endpoints) \in Nat BY <1>2 DEF Pushed
  <2>5. CASE Seen(e)
    <3>1. endpoints' = endpoints BY <1>1, <2>5
    <3>2. PICK i \in 1 .. Len(endpoints) : endpoints[i] = e
      BY <2>5 DEF Seen, SameEndpoint
    <3>3. \A c \in Walked' : \E k \in 1 .. Len(endpoints) : endpoints[k] = Offered(c)
      BY <1>2, <1>5, <1>6, <3>2 DEF Pushed
    <3>4. \A k \in 1 .. Len(endpoints) : \E c \in Walked' : endpoints[k] = Offered(c)
      BY <1>2, <1>6 DEF Pushed
    <3>5. ASSUME NEW k \in 1 .. Len(endpoints), NEW l \in 1 .. Len(endpoints), k < l
          PROVE  \E c \in Walked' : /\ Offered(c) = endpoints[k]
                                   /\ \A d \in Walked' : Offered(d) = endpoints[l] => Before(c, d)
      <4>1. PICK c \in Walked : /\ Offered(c) = endpoints[k]
                                /\ \A d \in Walked : Offered(d) = endpoints[l] => Before(c, d)
        BY <1>2, <3>5 DEF Pushed
      <4> QED BY <1>6, <2>3, <4>1
    <3>6. /\ \A c \in Walked' : \E k \in 1 .. Len(endpoints') : endpoints'[k] = Offered(c)
          /\ \A k \in 1 .. Len(endpoints') : \E c \in Walked' : endpoints'[k] = Offered(c)
          /\ \A k, l \in 1 .. Len(endpoints') : k < l =>
                \E c \in Walked' : /\ Offered(c) = endpoints'[k]
                                  /\ \A d \in Walked' : Offered(d) = endpoints'[l] => Before(c, d)
      BY <3>1, <3>3, <3>4, <3>5
    <3>7. endpoints' \in Seq(AnyEndpoint) BY <2>4, <3>1
    <3> QED BY <1>1, <3>6, <3>7, PushedNext
  <2>6. CASE ~ Seen(e)
    <3> DEFINE n == Len(endpoints) + 1
    <3>1. /\ endpoints' \in Seq(AnyEndpoint) /\ Len(endpoints') = n
          /\ \A i \in 1 .. Len(endpoints) : endpoints'[i] = endpoints[i]
          /\ endpoints'[n] = e
      BY <1>1, <2>2, <2>4, <2>6, AppendProperties
    <3>2. \A i \in 1 .. n : i = n \/ i \in 1 .. Len(endpoints) BY <2>4
    <3>3. n \in 1 .. n /\ \A i \in 1 .. Len(endpoints) : i \in 1 .. n BY <2>4
    <3>4. \A c \in Walked : Offered(c) # e
      BY <1>2, <2>6 DEF Pushed, Seen, SameEndpoint
    <3>5. \A c \in Walked' : \E k \in 1 .. n : endpoints'[k] = Offered(c)
      BY <1>2, <1>5, <1>6, <3>1, <3>3 DEF Pushed
    <3>6. \A k \in 1 .. n : \E c \in Walked' : endpoints'[k] = Offered(c)
      BY <1>2, <1>5, <1>6, <3>1, <3>2 DEF Pushed
    <3>7. ASSUME NEW k \in 1 .. n, NEW l \in 1 .. n, k < l
          PROVE  \E c \in Walked' : /\ Offered(c) = endpoints'[k]
                                   /\ \A d \in Walked' : Offered(d) = endpoints'[l] => Before(c, d)
      <4>1. k \in 1 .. Len(endpoints) /\ endpoints'[k] = endpoints[k] BY <2>4, <3>1, <3>7
      <4>2. CASE l = n
        <5>1. PICK c \in Walked : endpoints[k] = Offered(c) BY <1>2, <4>1 DEF Pushed
        <5>2. \A d \in Walked' : Offered(d) = endpoints'[l] => d = turn
          BY <1>6, <3>1, <3>4, <4>2
        <5> QED BY <1>6, <2>3, <4>1, <5>1, <5>2
      <4>3. CASE l \in 1 .. Len(endpoints)
        <5>1. endpoints'[l] = endpoints[l] BY <3>1, <4>3
        <5>2. PICK c \in Walked : /\ Offered(c) = endpoints[k]
                                  /\ \A d \in Walked : Offered(d) = endpoints[l] => Before(c, d)
          BY <1>2, <3>7, <4>1, <4>3 DEF Pushed
        <5> QED BY <1>6, <2>3, <4>1, <5>1, <5>2
      <4> QED BY <3>2, <4>2, <4>3
    <3>8. /\ \A c \in Walked' : \E k \in 1 .. Len(endpoints') : endpoints'[k] = Offered(c)
          /\ \A k \in 1 .. Len(endpoints') : \E c \in Walked' : endpoints'[k] = Offered(c)
          /\ \A k, l \in 1 .. Len(endpoints') : k < l =>
                \E c \in Walked' : /\ Offered(c) = endpoints'[k]
                                  /\ \A d \in Walked' : Offered(d) = endpoints'[l] => Before(c, d)
      BY <3>1, <3>5, <3>6, <3>7
    <3> QED BY <1>1, <3>1, <3>8, PushedNext
  <2> QED BY <2>5, <2>6
<1>9. Usable'
  <2>1. This.key # Invalid /\ Address # Invalid BY <1>1
  <2> QED BY <1>1, <1>2, <1>4, <2>1, OptionsStay DEF Usable, This, Address
<1> QED BY <1>1, <1>2, <1>7, <1>8, <1>9, OptionsStay DEF SelectInv

(* A peer's addresses are its families, in whichever order.                  *)
LEMMA UnusableFamilies ==
    ASSUME prefer_ipv6 \in BOOLEAN, NEW peer
    PROVE  Unusable(peer) <=> \/ peer.key = Invalid
                              \/ Families(peer)[1] = Invalid \/ Families(peer)[2] = Invalid
<1>1. CASE prefer_ipv6 = TRUE BY <1>1 DEF Unusable, Families
<1>2. CASE prefer_ipv6 = FALSE BY <1>2 DEF Unusable, Families
<1> QED BY <1>1, <1>2

LEMMA RefuseStep ==
    ASSUME SelectInv, Refuse
    PROVE  SelectInv'
<1>1. /\ Going /\ (This.key = Invalid \/ Address = Invalid)
      /\ outcome' = "unusable value" /\ UNCHANGED options
  BY DEF Refuse
<1>2. ConfigTypes /\ TurnTypes BY <1>1 DEF SelectInv, Going
<1>3. turn[1] \in DOMAIN Configured
  <2>1. DOMAIN Configured = 1 .. Len(Configured) BY <1>2 DEF ConfigTypes
  <2>2. turn[1] \in 1 .. Len(Configured)
    <3>1. Len(Configured) \in Nat BY <1>2 DEF ConfigTypes
    <3>2. turn[1] \in 1 .. Len(Configured) + 1 BY <1>2 DEF TurnTypes
    <3>3. turn[1] <= Len(Configured) BY <1>1 DEF Going
    <3> QED BY <3>1, <3>2, <3>3
  <2> QED BY <2>1, <2>2
<1>4. Unusable(Configured[turn[1]])
  <2>1. turn[2] = 1 \/ turn[2] = 2 BY <1>2 DEF TurnTypes
  <2> QED BY <1>1, <1>2, <2>1, UnusableFamilies DEF This, Address, ConfigTypes
<1>5. Configured' = Configured BY <1>1, OptionsStay
<1>6. SelectedAsDefined' BY <1>1, <1>3, <1>4, <1>5 DEF SelectedAsDefined, Unusable
<1> QED BY <1>1, <1>2, <1>6, OptionsStay DEF SelectInv

(* Three sequences one behind the other.                                    *)
Behind(r, u, v, w) ==
    /\ \A i \in 1 .. Len(r) :
          \/ i \in 1 .. Len(u) /\ r[i] = u[i]
          \/ i - Len(u) \in 1 .. Len(v) /\ r[i] = v[i - Len(u)]
          \/ i - Len(u) - Len(v) \in 1 .. Len(w) /\ r[i] = w[i - Len(u) - Len(v)]
    /\ \A i \in 1 .. Len(u) : \E j \in 1 .. Len(r) : r[j] = u[i]
    /\ \A i \in 1 .. Len(v) : \E j \in 1 .. Len(r) : r[j] = v[i]
    /\ \A i \in 1 .. Len(w) : \E j \in 1 .. Len(r) : r[j] = w[i]

LEMMA Threefold ==
    ASSUME NEW X, NEW u \in Seq(X), NEW v \in Seq(X), NEW w \in Seq(X),
           NEW r, r = (u \o v) \o w
    PROVE  r \in Seq(X) /\ Behind(r, u, v, w)
<1> DEFINE uv == u \o v
<1>1. /\ uv \in Seq(X) /\ Len(uv) = Len(u) + Len(v)
      /\ \A i \in 1 .. Len(u) + Len(v) : uv[i] = IF i <= Len(u) THEN u[i] ELSE v[i - Len(u)]
  BY ConcatProperties
<1>2. r = uv \o w OBVIOUS
<1> HIDE DEF uv
<1>3. /\ r \in Seq(X) /\ Len(r) = Len(uv) + Len(w)
      /\ \A i \in 1 .. Len(uv) + Len(w) : r[i] = IF i <= Len(uv) THEN uv[i] ELSE w[i - Len(uv)]
  <2>1. /\ uv \o w \in Seq(X) /\ Len(uv \o w) = Len(uv) + Len(w)
        /\ \A i \in 1 .. Len(uv) + Len(w) :
              (uv \o w)[i] = IF i <= Len(uv) THEN uv[i] ELSE w[i - Len(uv)]
    <3>1. uv \in Seq(X) BY <1>1
    <3> QED BY <3>1, ConcatProperties, Zenon
  <2> QED BY <1>2, <2>1
<1>4. Len(u) \in Nat /\ Len(v) \in Nat /\ Len(w) \in Nat OBVIOUS
<1>5. ASSUME NEW i \in 1 .. Len(r)
      PROVE  \/ i \in 1 .. Len(u) /\ r[i] = u[i]
             \/ i - Len(u) \in 1 .. Len(v) /\ r[i] = v[i - Len(u)]
             \/ i - Len(u) - Len(v) \in 1 .. Len(w) /\ r[i] = w[i - Len(u) - Len(v)]
  <2>1. CASE i <= Len(u) BY <1>1, <1>3, <1>4, <2>1
  <2>2. CASE i > Len(u) /\ i <= Len(uv) BY <1>1, <1>3, <1>4, <2>2
  <2>3. CASE i > Len(uv)
    <3>1. i - Len(uv) = i - Len(u) - Len(v) BY <1>1, <1>4
    <3> QED BY <1>1, <1>3, <1>4, <2>3, <3>1
  <2> QED BY <1>1, <1>4, <2>1, <2>2, <2>3
<1>6. ASSUME NEW i \in 1 .. Len(u) PROVE \E j \in 1 .. Len(r) : r[j] = u[i]
  <2>1. i \in 1 .. Len(r) /\ r[i] = u[i] BY <1>1, <1>3, <1>4
  <2> QED BY <2>1
<1>7. ASSUME NEW i \in 1 .. Len(v) PROVE \E j \in 1 .. Len(r) : r[j] = v[i]
  <2>1. Len(u) + i \in 1 .. Len(r) /\ (Len(u) + i) - Len(u) = i BY <1>1, <1>3, <1>4
  <2>2. r[Len(u) + i] = v[i] BY <1>1, <1>3, <1>4, <2>1
  <2> QED BY <2>1, <2>2
<1>8. ASSUME NEW i \in 1 .. Len(w) PROVE \E j \in 1 .. Len(r) : r[j] = w[i]
  <2>1. Len(uv) + i \in 1 .. Len(r) /\ (Len(uv) + i) - Len(uv) = i BY <1>1, <1>3, <1>4
  <2>2. r[Len(uv) + i] = w[i] BY <1>1, <1>3, <1>4, <2>1
  <2> QED BY <2>1, <2>2
<1> QED BY <1>3, <1>5, <1>6, <1>7, <1>8 DEF Behind

(* config.rs, sort_by_key: what is sorted is what was there; of two, the      *)
(* first has the better priority, or the same and was first.                *)
LEMMA SortedStably ==
    ASSUME endpoints \in Seq(AnyEndpoint)
    PROVE  /\ Sorted \in Seq(AnyEndpoint)
           /\ \A i \in 1 .. Len(endpoints) : \E j \in 1 .. Len(Sorted) : Sorted[j] = endpoints[i]
           /\ \A j \in 1 .. Len(Sorted) : \E i \in 1 .. Len(endpoints) : Sorted[j] = endpoints[i]
           /\ \A i, j \in 1 .. Len(Sorted) : i < j =>
                 \/ Priority(Sorted[i].port) < Priority(Sorted[j].port)
                 \/ /\ Priority(Sorted[i].port) = Priority(Sorted[j].port)
                    /\ \E a, b \in 1 .. Len(endpoints) :
                          a < b /\ Sorted[i] = endpoints[a] /\ Sorted[j] = endpoints[b]
<1> DEFINE K(k) == Keep(endpoints, OfPriority(k))
           r == Sorted
<1>1. ASSUME NEW k \in {0, 1, 2}
      PROVE  /\ K(k) \in Seq(AnyEndpoint) /\ Len(K(k)) \in Nat
             /\ \A i \in 1 .. Len(endpoints) :
                   Priority(endpoints[i].port) = k => \E j \in 1 .. Len(K(k)) : K(k)[j] = endpoints[i]
             /\ \A j \in 1 .. Len(K(k)) :
                   Priority(K(k)[j].port) = k /\ \E i \in 1 .. Len(endpoints) : K(k)[j] = endpoints[i]
             /\ \A i, j \in 1 .. Len(K(k)) : i < j =>
                   \E a, b \in 1 .. Len(endpoints) :
                      a < b /\ K(k)[i] = endpoints[a] /\ K(k)[j] = endpoints[b]
  <2>1. \A i \in 1 .. Len(endpoints) :
           endpoints[i] \in OfPriority(k) <=> Priority(endpoints[i].port) = k
    BY DEF OfPriority, ToSet
  <2>2. \A e \in OfPriority(k) : Priority(e.port) = k BY DEF OfPriority
  <2> DEFINE S == OfPriority(k)
  <2> HIDE DEF S
  <2>3. /\ Keep(endpoints, S) \in Seq(AnyEndpoint)
        /\ \A i \in 1 .. Len(endpoints) :
              endpoints[i] \in S => \E j \in 1 .. Len(Keep(endpoints, S)) : Keep(endpoints, S)[j] = endpoints[i]
        /\ \A j \in 1 .. Len(Keep(endpoints, S)) :
              Keep(endpoints, S)[j] \in S /\ \E i \in 1 .. Len(endpoints) : Keep(endpoints, S)[j] = endpoints[i]
        /\ \A i, j \in 1 .. Len(Keep(endpoints, S)) : i < j =>
              \E a, b \in 1 .. Len(endpoints) :
                 a < b /\ Keep(endpoints, S)[i] = endpoints[a] /\ Keep(endpoints, S)[j] = endpoints[b]
    BY KeepMembers
  <2>4. Len(Keep(endpoints, S)) \in Nat BY <2>3
  <2> QED BY <2>1, <2>2, <2>3, <2>4 DEF S
<1>2. r = (K(0) \o K(1)) \o K(2) BY DEF Sorted
<1> HIDE DEF K, r
<1> DEFINE u == K(0)
           v == K(1)
           w == K(2)
<1>3. /\ r \in Seq(AnyEndpoint)
      /\ \A i \in 1 .. Len(r) :
            \/ i \in 1 .. Len(u) /\ r[i] = u[i]
            \/ i - Len(u) \in 1 .. Len(v) /\ r[i] = v[i - Len(u)]
            \/ i - Len(u) - Len(v) \in 1 .. Len(w) /\ r[i] = w[i - Len(u) - Len(v)]
      /\ \A i \in 1 .. Len(u) : \E j \in 1 .. Len(r) : r[j] = u[i]
      /\ \A i \in 1 .. Len(v) : \E j \in 1 .. Len(r) : r[j] = v[i]
      /\ \A i \in 1 .. Len(w) : \E j \in 1 .. Len(r) : r[j] = w[i]
  <2>1. u \in Seq(AnyEndpoint) /\ v \in Seq(AnyEndpoint) /\ w \in Seq(AnyEndpoint) BY <1>1
  <2>2. r = (u \o v) \o w BY <1>2
  <2> HIDE DEF u, v, w
  <2>3. r \in Seq(AnyEndpoint) /\ Behind(r, u, v, w) BY <2>1, <2>2, Threefold
  <2> QED BY <2>3 DEF Behind
<1>4. ASSUME NEW i \in 1 .. Len(endpoints) PROVE \E j \in 1 .. Len(r) : r[j] = endpoints[i]
  <2> DEFINE k == Priority(endpoints[i].port)
  <2>1. k \in {0, 1, 2} BY DEF Priority
  <2> HIDE DEF k
  <2>2. PICK j \in 1 .. Len(K(k)) : K(k)[j] = endpoints[i] BY <1>1, <2>1 DEF k
  <2> QED BY <1>3, <2>1, <2>2
<1>5. ASSUME NEW j \in 1 .. Len(r) PROVE \E i \in 1 .. Len(endpoints) : r[j] = endpoints[i]
  <2>1. \E k \in {0, 1, 2} : \E i \in 1 .. Len(K(k)) : r[j] = K(k)[i] BY <1>3
  <2> QED BY <1>1, <2>1
<1>6. ASSUME NEW i \in 1 .. Len(r), NEW j \in 1 .. Len(r), i < j
      PROVE  \/ Priority(r[i].port) < Priority(r[j].port)
             \/ /\ Priority(r[i].port) = Priority(r[j].port)
                /\ \E a, b \in 1 .. Len(endpoints) :
                      a < b /\ r[i] = endpoints[a] /\ r[j] = endpoints[b]
  <2>1. Len(u) \in Nat /\ Len(v) \in Nat /\ Len(w) \in Nat /\ i \in Nat /\ j \in Nat
    BY <1>1, <1>3
  <2> DEFINE In(x, k, y) == y \in 1 .. Len(K(k)) /\ r[x] = K(k)[y]
  <2>2. /\ In(i, 0, i) \/ In(i, 1, i - Len(u)) \/ In(i, 2, i - Len(u) - Len(v))
        /\ In(j, 0, j) \/ In(j, 1, j - Len(u)) \/ In(j, 2, j - Len(u) - Len(v))
    BY <1>3
  <2>3. ASSUME NEW k \in {0, 1, 2}, NEW x, NEW y, In(i, k, x), In(j, k, y), x < y
        PROVE  /\ Priority(r[i].port) = Priority(r[j].port)
               /\ \E a, b \in 1 .. Len(endpoints) :
                     a < b /\ r[i] = endpoints[a] /\ r[j] = endpoints[b]
    <3>1. /\ x \in 1 .. Len(K(k)) /\ r[i] = K(k)[x]
          /\ y \in 1 .. Len(K(k)) /\ r[j] = K(k)[y]
      BY <2>3
    <3>2. Priority(r[i].port) = k /\ Priority(r[j].port) = k
      <4>1. \A z \in 1 .. Len(K(k)) : Priority(K(k)[z].port) = k BY <1>1
      <4> QED BY <3>1, <4>1
    <3>3. PICK a, b \in 1 .. Len(endpoints) :
             a < b /\ K(k)[x] = endpoints[a] /\ K(k)[y] = endpoints[b]
      <4>1. \A w1, w2 \in 1 .. Len(K(k)) : w1 < w2 =>
               \E a, b \in 1 .. Len(endpoints) :
                  a < b /\ K(k)[w1] = endpoints[a] /\ K(k)[w2] = endpoints[b]
        BY <1>1
      <4> QED BY <2>3, <3>1, <4>1
    <3> QED BY <3>1, <3>2, <3>3
  <2>4. ASSUME NEW k \in {0, 1, 2}, NEW l \in {0, 1, 2}, k < l, NEW x, NEW y, In(i, k, x), In(j, l, y)
        PROVE  Priority(r[i].port) < Priority(r[j].port)
    <3>1. /\ x \in 1 .. Len(K(k)) /\ r[i] = K(k)[x]
          /\ y \in 1 .. Len(K(l)) /\ r[j] = K(l)[y]
      BY <2>4
    <3>2. Priority(r[i].port) = k
      <4>1. \A z \in 1 .. Len(K(k)) : Priority(K(k)[z].port) = k BY <1>1
      <4> QED BY <3>1, <4>1
    <3>3. Priority(r[j].port) = l
      <4>1. \A z \in 1 .. Len(K(l)) : Priority(K(l)[z].port) = l BY <1>1
      <4> QED BY <3>1, <4>1
    <3> QED BY <2>4, <3>2, <3>3
  <2>4a. In(j, 0, j) => j <= Len(u)
    BY <2>1
  <2>4b. In(i, 1, i - Len(u)) => i >= Len(u) + 1
    BY <2>1
  <2>4c. In(j, 1, j - Len(u)) => j <= Len(u) + Len(v)
    BY <2>1
  <2>4d. In(i, 2, i - Len(u) - Len(v)) => i >= Len(u) + Len(v) + 1
    BY <2>1
  <2>4e. 0 \in {0, 1, 2} /\ 1 \in {0, 1, 2} /\ 2 \in {0, 1, 2} /\ 0 < 1 /\ 0 < 2 /\ 1 < 2
    OBVIOUS
  <2> HIDE DEF In, u, v, w
  <2>5. CASE In(i, 0, i)
    <3>1. CASE In(j, 0, j) BY <1>6, <2>3, <2>4e, <2>5, <3>1
    <3>2. CASE In(j, 1, j - Len(u)) BY <2>4, <2>4e, <2>5, <3>2
    <3>3. CASE In(j, 2, j - Len(u) - Len(v)) BY <2>4, <2>4e, <2>5, <3>3
    <3> QED BY <2>2, <3>1, <3>2, <3>3
  <2>6. CASE In(i, 1, i - Len(u))
    <3>1. CASE In(j, 0, j)
      <4>1. i >= Len(u) + 1 /\ j <= Len(u) BY <2>4a, <2>4b, <2>6, <3>1
      <4> QED BY <1>6, <2>1, <4>1
    <3>2. CASE In(j, 1, j - Len(u))
      <4>1. i - Len(u) < j - Len(u) BY <1>6, <2>1
      <4> QED BY <2>3, <2>4e, <2>6, <3>2, <4>1
    <3>3. CASE In(j, 2, j - Len(u) - Len(v)) BY <2>4, <2>4e, <2>6, <3>3
    <3> QED BY <2>2, <3>1, <3>2, <3>3
  <2>7. CASE In(i, 2, i - Len(u) - Len(v))
    <3>1. CASE In(j, 0, j)
      <4>1. i >= Len(u) + 1 /\ j <= Len(u) BY <2>1, <2>4a, <2>4d, <2>7, <3>1
      <4> QED BY <1>6, <2>1, <4>1
    <3>2. CASE In(j, 1, j - Len(u))
      <4>1. i >= Len(u) + Len(v) + 1 /\ j <= Len(u) + Len(v) BY <2>4c, <2>4d, <2>7, <3>2
      <4> QED BY <1>6, <2>1, <4>1
    <3>3. CASE In(j, 2, j - Len(u) - Len(v))
      <4>1. i - Len(u) - Len(v) < j - Len(u) - Len(v) BY <1>6, <2>1
      <4> QED BY <2>3, <2>4e, <2>7, <3>3, <4>1
    <3> QED BY <2>2, <3>1, <3>2, <3>3
  <2> QED BY <2>2, <2>5, <2>6, <2>7
<1> QED BY <1>3, <1>4, <1>5, <1>6 DEF r

(* The end of the loops: all places have been passed.                       *)
LEMMA FinishStep ==
    ASSUME SelectInv, Finish
    PROVE  SelectInv'
<1>1. /\ outcome = "selecting" /\ turn[1] > Len(Configured)
      /\ outcome' = IF endpoints = <<>> THEN "no endpoint" ELSE "selected"
      /\ endpoints' = Sorted /\ UNCHANGED options
  BY DEF Finish
<1>2. ConfigTypes /\ TurnTypes /\ Pushed /\ Usable BY <1>1 DEF SelectInv
<1>3. /\ Len(Configured) \in Nat /\ DOMAIN Configured = 1 .. Len(Configured)
      /\ turn[1] \in Nat
  BY <1>2 DEF ConfigTypes, TurnTypes
<1>4. Walked = Offering
  <2>1. \A c \in Offering : c[1] \in 1 .. Len(Configured) BY DEF Offering
  <2>2. \A p \in 1 .. Len(Configured) : p < turn[1]
    <3>1. turn[1] > Len(Configured) BY <1>1
    <3> QED BY <1>3, <3>1
  <2> QED BY <2>1, <2>2 DEF Walked, Before
<1>5. PICK place : Placed(place) BY <1>2, TurnsArePlaces
<1>6. endpoints \in Seq(AnyEndpoint) /\ Len(endpoints) \in Nat BY <1>2 DEF Pushed
<1> DEFINE r == Sorted
<1>7. /\ r \in Seq(AnyEndpoint)
      /\ \A i \in 1 .. Len(endpoints) : \E j \in 1 .. Len(r) : r[j] = endpoints[i]
      /\ \A j \in 1 .. Len(r) : \E i \in 1 .. Len(endpoints) : r[j] = endpoints[i]
      /\ \A i, j \in 1 .. Len(r) : i < j =>
            \/ Priority(r[i].port) < Priority(r[j].port)
            \/ /\ Priority(r[i].port) = Priority(r[j].port)
               /\ \E a, b \in 1 .. Len(endpoints) :
                     a < b /\ r[i] = endpoints[a] /\ r[j] = endpoints[b]
  BY <1>6, SortedStably
<1> HIDE DEF r
<1>8. ToSet(r) = {Named(k) : k \in Places}
  <2>0. DOMAIN r = 1 .. Len(r) BY <1>7
  <2>1. ASSUME NEW j \in 1 .. Len(r) PROVE \E k \in Places : r[j] = Named(k)
    <3>1. PICK i \in 1 .. Len(endpoints) : r[j] = endpoints[i] BY <1>7
    <3>2. PICK c \in Offering : endpoints[i] = Offered(c) BY <1>2, <1>4 DEF Pushed
    <3> QED BY <1>5, <3>1, <3>2 DEF Placed
  <2>2. ASSUME NEW k \in Places PROVE \E j \in 1 .. Len(r) : r[j] = Named(k)
    <3>1. PICK c \in Offering : place[c] = k BY <1>5 DEF Placed
    <3>2. Named(k) = Offered(c) BY <1>5, <3>1 DEF Placed
    <3>3. PICK i \in 1 .. Len(endpoints) : endpoints[i] = Offered(c) BY <1>2, <1>4 DEF Pushed
    <3> QED BY <1>7, <3>2, <3>3
  <2> QED BY <2>0, <2>1, <2>2 DEF ToSet
<1>9. ASSUME NEW i \in 1 .. Len(r), NEW j \in 1 .. Len(r), i < j
      PROVE  Precedes(r[i], r[j])
  <2>1. CASE Priority(r[i].port) < Priority(r[j].port) BY <2>1 DEF Precedes
  <2>2. CASE /\ Priority(r[i].port) = Priority(r[j].port)
             /\ \E a, b \in 1 .. Len(endpoints) :
                   a < b /\ r[i] = endpoints[a] /\ r[j] = endpoints[b]
    <3>1. PICK a, b \in 1 .. Len(endpoints) : a < b /\ r[i] = endpoints[a] /\ r[j] = endpoints[b]
      BY <2>2
    <3>2. PICK c \in Offering : /\ Offered(c) = r[i]
                               /\ \A d \in Offering : Offered(d) = r[j] => Before(c, d)
      BY <1>2, <1>4, <3>1 DEF Pushed
    <3>3. place[c] \in Places /\ Named(place[c]) = r[i] BY <1>5, <3>2 DEF Placed
    <3>4. ASSUME NEW k \in Places, Named(k) = r[j] PROVE Before(place[c], k)
      <4>1. PICK d \in Offering : place[d] = k BY <1>5 DEF Placed
      <4>2. Offered(d) = r[j] BY <1>5, <3>4, <4>1 DEF Placed
      <4>3. Before(c, d) BY <3>2, <4>2
      <4> QED BY <1>5, <4>1, <4>3 DEF Placed
    <3> QED BY <2>2, <3>3, <3>4 DEF Precedes
  <2> QED BY <1>7, <1>9, <2>1, <2>2
<1>10. ASSUME NEW p \in DOMAIN Configured PROVE ~ Unusable(Configured[p])
  <2>1. p \in 1 .. Len(Configured) /\ p < turn[1]
    <3>1. turn[1] > Len(Configured) BY <1>1
    <3> QED BY <1>3, <3>1
  <2>2. /\ Configured[p].key # Invalid
        /\ Families(Configured[p])[1] # Invalid /\ Families(Configured[p])[2] # Invalid
    BY <1>2, <2>1 DEF Usable
  <2> QED BY <1>2, <2>2, UnusableFamilies DEF ConfigTypes
<1>11. endpoints = <<>> => Places = {}
  <2> SUFFICES ASSUME endpoints = <<>>, NEW k \in Places PROVE FALSE
    OBVIOUS
  <2>1. PICK c \in Offering : place[c] = k BY <1>5 DEF Placed
  <2>2. PICK i \in 1 .. Len(endpoints) : endpoints[i] = Offered(c) BY <1>2, <1>4 DEF Pushed
  <2> QED BY <2>2
<1>12. SelectedAsDefined'
  <2>1. endpoints' = r BY <1>1 DEF r
  <2>2. /\ Configured' = Configured /\ Places' = Places
        /\ \A c : Named(c)' = Named(c)
    BY <1>1, OptionsStay
  <2>3. {Named(c) : c \in Places}' = {Named(c) : c \in Places} BY <2>2
  <2>4. ToSet(endpoints)' = ToSet(r) BY <2>1 DEF ToSet
  <2>6. \A i, j \in 1 .. Len(endpoints') : i < j => Precedes(endpoints[i], endpoints[j])'
    BY <1>1, <1>9, <2>1, PrecedesStays
  <2>7. \A p \in DOMAIN Configured' : ~ Unusable(Configured[p])'
    BY <1>10, <2>2 DEF Unusable
  <2> QED BY <1>1, <1>8, <1>11, <2>2, <2>3, <2>4, <2>6, <2>7 DEF SelectedAsDefined
<1> QED BY <1>1, <1>2, <1>12, OptionsStay DEF SelectInv

LEMMA StandingStill ==
    ASSUME SelectInv, UNCHANGED options, turn' = turn, endpoints' = endpoints, outcome' = outcome
    PROVE  SelectInv'
<1>1. /\ peers' = peers /\ legacy' = legacy /\ prefer_ipv6' = prefer_ipv6
      /\ port_override' = port_override
  BY DEF options
<1>2. Walked' = Walked
  <2>1. Offering' = Offering BY OptionsStay
  <2>2. \A c : Before(c, turn)' <=> Before(c, turn) BY DEF Before
  <2> QED BY <2>1, <2>2 DEF Walked
<1>3. TurnTypes => TurnTypes' BY OptionsStay DEF TurnTypes
<1>4. Usable => Usable' BY OptionsStay DEF Usable
<1>5. Pushed => Pushed' BY <1>2, PushedNext DEF Pushed
<1>6. SelectedAsDefined => SelectedAsDefined'
  <2> SUFFICES ASSUME SelectedAsDefined PROVE SelectedAsDefined'
    OBVIOUS
  <2>1. /\ Configured' = Configured /\ Places' = Places
        /\ \A c : Named(c)' = Named(c)
    BY OptionsStay
  <2>2. {Named(c) : c \in Places}' = {Named(c) : c \in Places} BY <2>1
  <2>3. ToSet(endpoints)' = ToSet(endpoints) BY DEF ToSet
  <2>4. outcome = "selected" =>
           \A i, j \in 1 .. Len(endpoints') : i < j => Precedes(endpoints[i], endpoints[j])'
    BY PrecedesStays DEF SelectedAsDefined
  <2>5. \A p : Unusable(Configured[p])' <=> Unusable(Configured[p]) BY <2>1 DEF Unusable
  <2> QED BY <2>1, <2>2, <2>3, <2>4, <2>5 DEF SelectedAsDefined
<1> QED BY <1>3, <1>4, <1>5, <1>6, OptionsStay DEF SelectInv

(* config.rs, select_endpoints_from_config: from every configuration, with    *)
(* any number of peers and ports, the endpoints returned are the ones the     *)
(* reference defines, in its order, or the refusal has its cause.            *)
THEOREM Selected == SelectSpec => []SelectedAsDefined
<1>1. SelectInit => SelectInv
  <2> SUFFICES ASSUME SelectInit PROVE SelectInv
    OBVIOUS
  <2>1. ConfigTypes
    <3>1. peers \in Seq(Peer) BY DEF SelectInit, SeqOf
    <3>2. Peer \subseteq AnyPeer BY SelectionConfig DEF Peer, AnyPeer, Addresses
    <3>3. legacy \in AnyPeer
      <4>1. <<>> \in Seq(Nat) OBVIOUS
      <4> QED BY <4>1 DEF SelectInit, LegacyPeer, AnyPeer, Addresses
    <3>4. CASE peers = <<>>
      <4>1. Configured = <<legacy>> BY <3>4 DEF Configured
      <4> QED BY <3>3, <4>1, SelectionConfig DEF ConfigTypes, SelectInit
    <3>5. CASE peers # <<>>
      <4>1. Configured = peers BY <3>5 DEF Configured
      <4>2. peers \in Seq(AnyPeer) BY <3>1, <3>2
      <4>3. Len(peers) >= 1 BY <3>5, <4>2
      <4> QED BY <4>1, <4>2, <4>3, SelectionConfig DEF ConfigTypes, SelectInit
    <3> QED BY <3>4, <3>5
  <2>2. turn = <<1, 1, 1>> /\ endpoints = <<>> /\ outcome = "selecting" BY DEF SelectInit
  <2>3. TurnTypes
    <3>1. Len(Configured) \in Nat /\ Len(Configured) >= 1 BY <2>1 DEF ConfigTypes
    <3>2. 1 \in 1 .. Len(Configured) BY <3>1
    <3>3. 1 \in 1 .. Len(Ports(Configured[1])) BY <2>1, <3>2, ConfiguredPeer
    <3> QED BY <2>2, <3>1, <3>2, <3>3 DEF TurnTypes, Turns
  <2>4. Walked = {}
    <3> SUFFICES ASSUME NEW c \in Offering PROVE ~ Before(c, turn)
      BY DEF Walked
    <3>1. c[1] >= 1 /\ c[2] >= 1 /\ c[3] >= 1 /\ c[1] \in Nat /\ c[2] \in Nat /\ c[3] \in Nat
      BY DEF Offering, Turns
    <3> QED BY <2>2, <3>1 DEF Before
  <2>5. Pushed BY <2>2, <2>4 DEF Pushed
  <2>6. Usable BY <2>2 DEF Usable
  <2> QED BY <2>1, <2>2, <2>3, <2>5, <2>6 DEF SelectInv
<1>2. SelectInv /\ [Select]_selectVars => SelectInv'
  <2> SUFFICES ASSUME SelectInv, [Select]_selectVars PROVE SelectInv'
    OBVIOUS
  <2>1. CASE UNCHANGED selectVars
    <3>1. UNCHANGED options /\ turn' = turn /\ endpoints' = endpoints /\ outcome' = outcome
      BY <2>1 DEF selectVars
    <3> QED BY <3>1, StandingStill
  <2> QED BY <2>1, RefuseStep, SkipFamilyStep, OfferStep, FinishStep DEF Select
<1>3. SelectInv => SelectedAsDefined BY DEF SelectInv, SelectedAsDefined
<1> QED BY <1>1, <1>2, <1>3, PTL DEF SelectSpec

=============================================================================
