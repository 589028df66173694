------------------------------- MODULE PathMtu -------------------------------
(***************************************************************************)
(* Path MTU in data_loop: quiche searches the path and forgets the result    *)
(* when the revalidation timer asks it to, the loop applies what it finds to *)
(* the TUN interface once per result, and queue_tx_datagrams answers a        *)
(* packet that no longer fits with a Packet Too Big.  The packets on the way *)
(* from the host were accepted at the interface's earlier MTUs.  What        *)
(* apply_path_mtu does to the interface is in TunDevice; here it takes one   *)
(* step.                                                                    *)
(***************************************************************************)
EXTENDS Integers, Sequences

CONSTANTS
    Spaces,         \* dgram_max_writable_len for the UDP payloads a path may carry
    Prefix,         \* flow_prefix.len()
    InitialMtu,     \* cfg.path_mtu.initial_tun_mtu
    MaxTunMtu,      \* cfg.path_mtu.max_tun_mtu
    QueueCap,       \* bound: packets between the interface and quiche
    Burst           \* tx_burst_packets.max(1)

(* quiche does not search below QUIC's minimum of 1200 bytes.               *)
ASSUME PathMtuConfig ==
    /\ Spaces \subseteq Nat /\ \A s \in Spaces : s >= Prefix
    /\ {Prefix, MaxTunMtu, QueueCap} \subseteq Nat
    /\ InitialMtu \in 0 .. MaxTunMtu
    /\ Burst \in Nat \ {0}

VARIABLES
    path,           \* what the path carries now
    found,          \* conn.pmtu(), as the space it leaves, or Unknown
    space,          \* dgram_max_writable_len()
    applied,        \* applied_pmtu
    mtu,            \* the interface's MTU
    queue,          \* sizes of the packets read from the interface
    loop,           \* where data_loop stands
    budget,         \* what queue_tx_datagrams may still hand to quiche
    told            \* the packet last refused, and what its sender was told

quicheVars == <<path, found, space>>
pmVars == <<quicheVars, applied, mtu, queue, loop, budget, told>>

Unknown == -1

Nothing == [size |-> 0, mtu |-> -1, settled |-> FALSE]

PathMtuInit ==
    /\ path \in Spaces /\ space \in Spaces
    /\ found = Unknown /\ applied = Unknown
    /\ mtu = InitialMtu
    /\ queue = <<>>
    /\ loop = "pending" /\ budget = 0
    /\ told = Nothing

-----------------------------------------------------------------------------
(* The environment: the path, quiche's search, and the host.                *)

PathChanges ==
    /\ \E s \in Spaces \ {path} : path' = s
    /\ UNCHANGED <<found, space, applied, mtu, queue, loop, budget, told>>

(* A probe is acknowledged or lost: the search goes on, with the largest      *)
(* size that has passed, or ends with what the path carries.  quiche looks    *)
(* at datagrams and timers only while the loop receives or awaits.           *)
Probed ==
    /\ loop = "select"
    /\ \/ found = Unknown /\ space' \in Spaces /\ found' = found
       \/ found # path /\ space' = path /\ found' = path
    /\ UNCHANGED <<path, applied, mtu, queue, loop, budget, told>>

(* The reader task: a packet of any size the interface admits.  One that is   *)
(* read during a burst waits in the channel until the next iteration.        *)
HostSends ==
    /\ loop # "queue" /\ Len(queue) < QueueCap
    /\ \E size \in 1 .. mtu : queue' = Append(queue, size)
    /\ UNCHANGED <<quicheVars, applied, mtu, loop, budget, told>>

-----------------------------------------------------------------------------
(* data_loop.                                                               *)

AtMost(a, b) == IF a <= b THEN a ELSE b

(* Mutant of CapTunMtu: the whole DATAGRAM for the packet.                  *)
CapWithoutPrefix(writable) == IF writable < Prefix THEN Unknown ELSE AtMost(writable, MaxTunMtu)

(* cap_tun_mtu; both bounds are u16.                                        *)
CapTunMtu(writable) ==
    IF writable < Prefix THEN Unknown ELSE AtMost(writable - Prefix, MaxTunMtu)

(* Mutant of Discovered: the interface only grows.                          *)
DiscoveredMore == found # Unknown /\ applied # found /\ CapTunMtu(space) > mtu

(* A completed search whose result has not been applied, with room for the   *)
(* prefix.                                                                  *)
Discovered == found # Unknown /\ applied # found /\ CapTunMtu(space) # Unknown

Fits(size) == size + Prefix <= space

Refusal(size) == [size |-> size, mtu |-> mtu, settled |-> applied # Unknown]

(* The packet captured while idle, if there is one, before the loop: refused *)
(* like the others if it does not fit.                                      *)
SendPending ==
    /\ loop = "pending"
    /\ told' \in {told} \union {Refusal(size) : size \in {n \in 1 .. mtu : ~Fits(n)}}
    /\ loop' = "apply"
    /\ UNCHANGED <<quicheVars, applied, mtu, queue, budget>>

(* apply_path_mtu, or nothing to apply; then the queue.                      *)
Apply ==
    /\ loop = "apply"
    /\ IF Discovered THEN mtu' = CapTunMtu(space) /\ applied' = found
                     ELSE UNCHANGED <<mtu, applied>>
    /\ loop' = "queue"
    /\ budget' = Burst
    /\ UNCHANGED <<quicheVars, queue, told>>

(* The `?` of apply_path_mtu ends the session, whether or not the MTU was set *)
(* before a call failed.                                                    *)
ApplyFails ==
    /\ loop = "apply" /\ Discovered
    /\ mtu' \in {mtu, CapTunMtu(space)}
    /\ loop' = "ended"
    /\ UNCHANGED <<quicheVars, applied, queue, budget, told>>

(* One packet of queue_tx_datagrams: handed to quiche, or refused with the   *)
(* interface's MTU.                                                         *)
QueueDatagram ==
    /\ loop = "queue" /\ budget > 0 /\ queue # <<>>
    /\ queue' = Tail(queue)
    /\ IF Fits(Head(queue))
       THEN budget' = budget - 1 /\ UNCHANGED told
       ELSE told' = Refusal(Head(queue)) /\ UNCHANGED budget
    /\ UNCHANGED <<quicheVars, applied, mtu, loop>>

(* The burst is spent, nothing is queued, or quiche's queue is full.         *)
QueueDone ==
    /\ loop = "queue"
    /\ loop' = "select"
    /\ budget' = 0
    /\ UNCHANGED <<quicheVars, applied, mtu, queue, told>>

(* The select ends, or the loop goes round without one.                      *)
Continue ==
    /\ loop = "select"
    /\ loop' = "apply"
    /\ UNCHANGED <<quicheVars, applied, mtu, queue, budget, told>>

(* The revalidation timer of the select: quiche searches again, and its       *)
(* answer is applied even if it is the same.                                *)
Revalidate ==
    /\ loop = "select"
    /\ found' = Unknown /\ applied' = Unknown
    /\ loop' = "apply"
    /\ UNCHANGED <<path, space, mtu, queue, budget, told>>

DataLoop ==
    SendPending \/ Apply \/ ApplyFails \/ QueueDatagram \/ QueueDone \/ Continue \/ Revalidate

PathMtuNext == DataLoop \/ PathChanges \/ Probed \/ HostSends

PathMtuSpec == PathMtuInit /\ [][PathMtuNext]_pmVars

(* The task runs; the select always ends.                                   *)
PathMtuFairness == WF_pmVars(DataLoop)

-----------------------------------------------------------------------------
PathMtuTypeOK ==
    /\ path \in Spaces /\ space \in Spaces
    /\ found \in Spaces \union {Unknown} /\ applied \in Spaces \union {Unknown}
    /\ mtu \in 0 .. MaxTunMtu
    /\ queue \in Seq(1 .. MaxTunMtu)
    /\ loop \in {"pending", "apply", "queue", "select", "ended"}
    /\ budget \in 0 .. Burst
    /\ told \in [size : 0 .. MaxTunMtu, mtu : -1 .. MaxTunMtu, settled : BOOLEAN]

(* The answer to an oversized packet names the interface's MTU, not the       *)
(* space that refused it.  Once a discovery has been applied the two agree    *)
(* whenever a packet is refused, whichever earlier MTU the packet was          *)
(* accepted under, so that a sender which obeys makes progress; before the    *)
(* first discovery and during a new search nothing of the kind holds.        *)
TooBigIsUseful == told.settled => told.mtu < told.size

(* A completed search reaches the interface, downwards as well as upwards,    *)
(* and whether or not the revalidation timer restarts it in between.          *)
MtuFollowsPath ==
    \A s \in Spaces :
        <>[](found = s) =>
            <>[](loop = "ended" \/ mtu = (IF s - Prefix <= MaxTunMtu THEN s - Prefix ELSE MaxTunMtu))

=============================================================================
