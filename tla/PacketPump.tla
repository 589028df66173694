----------------------------- MODULE PacketPump -----------------------------
(***************************************************************************)
(* data_loop of masque.rs: the task that reads the TUN device and the loop  *)
(* that moves packets between its channel, the connection and the socket.   *)
(* The two run in parallel; they share the channel of encoded packets, the  *)
(* channel of recycled buffers, and nothing else.  quiche is modelled from  *)
(* how the loop uses it: a bounded DATAGRAM send queue emptied as the       *)
(* congestion window allows, a receive queue, timers and a terminal state.  *)
(* Packets are numbered in the order prepare_outgoing accepted them.        *)
(***************************************************************************)
EXTENDS Naturals, Sequences, SequencesExt, FiniteSets

CONSTANTS
    PoolSize,       \* packet_buffer_pool_size
    TxQueueLen,     \* tx_queue_len, which is also the channel's capacity
    TxBurst,        \* tx_burst_packets
    ChannelBurst,   \* TX_CHANNEL_DRAIN_BURST
    RxBurst,        \* RX_DGRAM_DRAIN_BURST
    DgramCap,       \* DGRAM_QUEUE_LEN, quiche's DATAGRAM send queue
    Cwnd,           \* DATAGRAMs quiche sends before an acknowledgement
    Oversize,       \* packets longer than dgram_max_writable_len
    Refused,        \* packets dgram_send refuses with another error
    Timers,         \* which of "quic", "keepalive", "pmtud" are configured
    Endless,        \* the peer's download never pauses
    MaxPackets,     \* bound: packets read from the TUN device
    MaxRx           \* bound: DATAGRAMs waiting, and received unless Endless

(* run_tunnel_session clamps the sizes this way before data_loop starts.    *)
ASSUME PumpConfig ==
    /\ PoolSize \in Nat \ {0}
    /\ TxQueueLen \in 1 .. PoolSize
    /\ {TxBurst, ChannelBurst, RxBurst, DgramCap, Cwnd} \subseteq Nat \ {0}
    /\ {MaxPackets, MaxRx} \subseteq Nat
    /\ Oversize \subseteq Nat /\ Refused \subseteq Nat
    /\ Timers \subseteq {"quic", "keepalive", "pmtud"}
    /\ Endless \in BOOLEAN

VARIABLES
    rpc,            \* where the TUN reader stands
    held,           \* the encoded packet it is sending to the channel, if any
    free,           \* buffers in the recycle channel
    chan,           \* the channel of encoded packets
    mpc,            \* where the loop stands
    txq,            \* tx_queue
    readerClosed,   \* tun_reader_closed
    n,              \* items handled by the current stage of the iteration
    backpressure,   \* progress.backpressure
    rxFull,         \* rx_drain_budget_exhausted
    dgq,            \* quiche: the DATAGRAM send queue
    credit,         \* quiche: DATAGRAMs the congestion window still allows
    rxq,            \* quiche: DATAGRAMs received and not yet read
    conn,           \* quiche: "open", "draining", "closed"; or the request stream "finished"
    udp,            \* what the peer has sent and the loop has not drained
    due,            \* timers that have expired
    received,       \* DATAGRAMs the peer has sent
    read,           \* history: packets accepted from the TUN device
    dropped,        \* history: packets dropped and counted
    sent,           \* history: packets handed to the network, in order
    cause           \* why the loop ended

readerVars == <<rpc, held, read>>
stageVars == <<n, backpressure, rxFull>>
quicVars == <<dgq, credit, rxq, conn, sent>>
netVars == <<udp, received>>
vars == <<readerVars, free, chan, mpc, txq, readerClosed, stageVars, quicVars,
          netVars, due, dropped, cause>>

Stages == {"receive", "deliver", "collect", "queue", "control", "select"}

Nothing == [ack |-> FALSE, data |-> 0, fatal |-> "open"]

Least(a, b) == IF a <= b THEN a ELSE b

Init ==
    /\ rpc = "buffer" /\ held = <<>> /\ read = 0
    /\ free = PoolSize
    /\ chan = <<>>
    /\ mpc = "receive"
    /\ txq = <<>>
    /\ readerClosed = FALSE
    /\ n = 0 /\ backpressure = FALSE /\ rxFull = FALSE
    /\ dgq = <<>> /\ credit = Cwnd /\ rxq = 0 /\ conn = "open" /\ sent = <<>>
    /\ udp = Nothing /\ received = 0
    /\ due = {}
    /\ dropped = {}
    /\ cause = "none"

-----------------------------------------------------------------------------
(* The TUN reader task.                                                     *)

readerOnly == <<chan, mpc, txq, readerClosed, stageVars, quicVars, netVars, due, dropped, cause>>

TakeBuffer ==
    /\ rpc = "buffer"
    /\ free > 0
    /\ free' = free - 1
    /\ rpc' = "tun"
    /\ UNCHANGED <<held, read, readerOnly>>

(* recv_packet returns a packet prepare_outgoing accepts.                   *)
ReadPacket ==
    /\ rpc = "tun"
    /\ read < MaxPackets
    /\ read' = read + 1
    /\ held' = <<read'>>
    /\ rpc' = "send"
    /\ UNCHANGED <<free, readerOnly>>

(* prepare_outgoing rejects the packet: counted, and its buffer recycled.   *)
ReadInvalid ==
    /\ rpc = "tun"
    /\ free' = free + 1
    /\ rpc' = "buffer"
    /\ UNCHANGED <<held, read, readerOnly>>

SendToChannel ==
    /\ rpc = "send"
    /\ Len(chan) < TxQueueLen
    /\ chan' = chan \o held
    /\ held' = <<>>
    /\ rpc' = "buffer"
    /\ UNCHANGED <<read, free, mpc, txq, readerClosed, stageVars, quicVars, netVars,
                   due, dropped, cause>>

(* End of file or an error: the task ends and drops its sender.             *)
ReaderEof ==
    /\ rpc = "tun"
    /\ rpc' = "done"
    /\ UNCHANGED <<held, read, free, readerOnly>>

(* tun_reader.abort() is not awaited: the task stops some time later, or on  *)
(* finding the channel closed.  A packet it read meanwhile is lost.         *)
ReaderAborted ==
    /\ mpc = "ended"
    /\ rpc # "done"
    /\ rpc' = "done"
    /\ held' = <<>>
    /\ UNCHANGED <<read, free, readerOnly>>

-----------------------------------------------------------------------------
(* The network and the clock.                                               *)

netOnly == <<readerVars, free, chan, mpc, txq, readerClosed, stageVars, quicVars, dropped, cause>>

PeerAcks ==
    /\ credit < Cwnd /\ ~udp.ack
    /\ udp' = [udp EXCEPT !.ack = TRUE]
    /\ UNCHANGED <<received, due, netOnly>>

PeerSends ==
    /\ udp.data + rxq < MaxRx
    /\ IF Endless THEN UNCHANGED received
                  ELSE received < MaxRx /\ received' = received + 1
    /\ udp' = [udp EXCEPT !.data = @ + 1]
    /\ UNCHANGED <<due, netOnly>>

(* The peer closes the connection, which then drains until its timer closes *)
(* it, or ends the CONNECT request stream.                                  *)
PeerEnds ==
    /\ udp.fatal = "open" /\ conn = "open"
    /\ \E f \in {"draining", "finished"} : udp' = [udp EXCEPT !.fatal = f]
    /\ UNCHANGED <<received, due, netOnly>>

TimerExpires(t) ==
    /\ t \notin due
    /\ due' = due \union {t}
    /\ UNCHANGED <<netVars, netOnly>>

-----------------------------------------------------------------------------
(* The loop.                                                                *)

pumpOnly == <<rpc, held, read, received>>

End(why) == mpc' = "ended" /\ cause' = why

(* drain_quic: everything on the socket goes into the connection.           *)
DrainQuic ==
    /\ udp' = Nothing
    /\ rxq' = rxq + (IF conn = "draining" THEN 0 ELSE udp.data)
    /\ conn' = IF conn = "open" THEN udp.fatal ELSE conn

AckedCredit == IF udp.ack THEN Cwnd ELSE credit

(* flush_quic: what the congestion window allows, in order.                 *)
Flush(window) ==
    LET k == IF conn' \in {"draining", "closed"} THEN 0 ELSE Least(window, Len(dgq)) IN
    /\ sent' = sent \o SubSeq(dgq, 1, k)
    /\ dgq' = SubSeq(dgq, k + 1, Len(dgq))
    /\ credit' = window - k

(* drain_quic, flush_quic, poll_h3.                                         *)
Receive ==
    /\ mpc = "receive"
    /\ DrainQuic
    /\ Flush(AckedCredit)
    /\ IF conn' = "finished" THEN End("stream") ELSE mpc' = "deliver" /\ UNCHANGED cause
    /\ UNCHANGED <<pumpOnly, free, chan, txq, readerClosed, stageVars, due, dropped>>

(* Mutant: a full receive burst resumes at once, before the upstream work.   *)
DeliverAndResume ==
    /\ mpc = "deliver"
    /\ rxq' = rxq - Least(rxq, RxBurst)
    /\ rxFull' = (rxq >= RxBurst)
    /\ n' = 0
    /\ mpc' = (IF rxFull' THEN "receive" ELSE "collect")
    /\ UNCHANGED <<pumpOnly, free, chan, txq, readerClosed, backpressure, dgq, credit, conn,
                   sent, udp, due, dropped, cause>>

(* drain_incoming_datagrams: at most RxBurst packets go to the TUN device.  *)
Deliver ==
    /\ mpc = "deliver"
    /\ rxq' = rxq - Least(rxq, RxBurst)
    /\ rxFull' = (rxq >= RxBurst)
    /\ n' = 0
    /\ mpc' = "collect"
    /\ UNCHANGED <<pumpOnly, free, chan, txq, readerClosed, backpressure, dgq, credit, conn,
                   sent, udp, due, dropped, cause>>

(* One try_recv of the channel drain; the reader may run in between.        *)
CollectOne ==
    /\ mpc = "collect"
    /\ n < ChannelBurst /\ Len(txq) < TxQueueLen /\ chan # <<>>
    /\ txq' = Append(txq, Head(chan))
    /\ chan' = Tail(chan)
    /\ n' = n + 1
    /\ UNCHANGED <<pumpOnly, free, mpc, readerClosed, backpressure, rxFull, quicVars, udp,
                   due, dropped, cause>>

(* The drain stops at its burst, at a full tx_queue, or at an empty channel, *)
(* which is Disconnected once the reader has dropped its sender.            *)
CollectDone ==
    /\ mpc = "collect"
    /\ n >= ChannelBurst \/ Len(txq) >= TxQueueLen \/ chan = <<>>
    /\ readerClosed' = (readerClosed \/
          (n < ChannelBurst /\ Len(txq) < TxQueueLen /\ rpc = "done"))
    /\ n' = 0
    /\ backpressure' = FALSE
    /\ mpc' = "queue"
    /\ UNCHANGED <<pumpOnly, free, chan, txq, rxFull, quicVars, udp, due, dropped, cause>>

-----------------------------------------------------------------------------
(* queue_tx_datagrams, one item at a time.                                  *)

queueOnly == <<pumpOnly, chan, mpc, readerClosed, rxFull, credit, rxq, conn, sent, udp, due, cause>>

Queueing == mpc = "queue" /\ n < TxBurst /\ txq # <<>> /\ ~backpressure

(* Mutant: the buffer of a dropped item is not recycled.                    *)
QueueDropsBuffer ==
    /\ Queueing
    /\ Head(txq) \in Oversize \/ (Head(txq) \in Refused /\ Len(dgq) < DgramCap)
    /\ dropped' = dropped \union {Head(txq)}
    /\ txq' = Tail(txq)
    /\ UNCHANGED <<free, n, backpressure, dgq, queueOnly>>

(* Longer than the path takes (answered with ICMP Packet Too Big), or       *)
(* refused by dgram_send: dropped, counted, buffer recycled.                *)
QueueDrops ==
    /\ Queueing
    /\ Head(txq) \in Oversize \/ (Head(txq) \in Refused /\ Len(dgq) < DgramCap)
    /\ dropped' = dropped \union {Head(txq)}
    /\ txq' = Tail(txq)
    /\ free' = free + 1
    /\ UNCHANGED <<n, backpressure, dgq, queueOnly>>

(* Mutants: the popped item is forgotten, or pushed to the back.            *)
QueueFullForgets ==
    /\ Queueing
    /\ Head(txq) \notin Oversize
    /\ Len(dgq) >= DgramCap
    /\ backpressure' = TRUE
    /\ txq' = Tail(txq)
    /\ free' = free + 1
    /\ UNCHANGED <<n, dgq, dropped, queueOnly>>

QueueFullToBack ==
    /\ Queueing
    /\ Head(txq) \notin Oversize
    /\ Len(dgq) >= DgramCap
    /\ backpressure' = TRUE
    /\ txq' = Append(Tail(txq), Head(txq))
    /\ UNCHANGED <<free, n, dgq, dropped, queueOnly>>

(* The DATAGRAM queue is full: the item stays at the front.                 *)
QueueFull ==
    /\ Queueing
    /\ Head(txq) \notin Oversize
    /\ Len(dgq) >= DgramCap
    /\ backpressure' = TRUE
    /\ UNCHANGED <<txq, free, n, dgq, dropped, queueOnly>>

QueueSends ==
    /\ Queueing
    /\ Head(txq) \notin Oversize \union Refused
    /\ Len(dgq) < DgramCap
    /\ dgq' = Append(dgq, Head(txq))
    /\ txq' = Tail(txq)
    /\ free' = free + 1
    /\ n' = n + 1
    /\ UNCHANGED <<backpressure, dropped, queueOnly>>

QueueDone ==
    /\ mpc = "queue"
    /\ ~Queueing
    /\ mpc' = "control"
    /\ UNCHANGED <<pumpOnly, free, chan, txq, readerClosed, stageVars, quicVars, udp, due,
                   dropped, cause>>

-----------------------------------------------------------------------------
(* Mutant: a full transmit burst goes to sleep with packets queued.          *)
ContinueAfterReceive == rxFull

(* Mutant: backpressure does not let the loop rest.                         *)
ContinueWhileQueued == rxFull \/ (txq # <<>> /\ (n >= TxBurst \/ backpressure))

(* A full receive budget, or a full burst with more queued, skips select.   *)
Continue == rxFull \/ (txq # <<>> /\ n >= TxBurst /\ ~backpressure)

(* Mutant: the session ends as soon as the reader has.                      *)
ControlEndsWithReader ==
    /\ mpc = "control"
    /\ UNCHANGED conn
    /\ IF n > 0 \/ backpressure THEN Flush(credit) ELSE UNCHANGED <<dgq, credit, sent>>
    /\ CASE conn = "closed" -> End("closed")
         [] conn # "closed" /\ readerClosed -> End("reader")
         [] OTHER -> mpc' = (IF Continue THEN "receive" ELSE "select") /\ UNCHANGED cause
    /\ UNCHANGED <<pumpOnly, free, chan, txq, readerClosed, stageVars, rxq, udp, due, dropped>>

(* Flush after a burst or under backpressure; end with the connection, or   *)
(* with the reader once everything it read has been queued.                 *)
Control ==
    /\ mpc = "control"
    /\ UNCHANGED conn
    /\ IF n > 0 \/ backpressure THEN Flush(credit) ELSE UNCHANGED <<dgq, credit, sent>>
    /\ CASE conn = "closed" -> End("closed")
         [] conn # "closed" /\ readerClosed /\ txq = <<>> -> End("reader")
         [] OTHER -> mpc' = (IF Continue THEN "receive" ELSE "select") /\ UNCHANGED cause
    /\ UNCHANGED <<pumpOnly, free, chan, txq, readerClosed, stageVars, rxq, udp, due, dropped>>

-----------------------------------------------------------------------------
(* tokio::select!                                                           *)

SelectReadable ==
    /\ mpc = "select"
    /\ udp # Nothing
    /\ DrainQuic
    /\ credit' = AckedCredit
    /\ mpc' = "receive"
    /\ UNCHANGED <<pumpOnly, free, chan, txq, readerClosed, stageVars, dgq, sent, due, dropped,
                   cause>>

SelectPacket ==
    /\ mpc = "select"
    /\ ~readerClosed /\ Len(txq) < TxQueueLen
    /\ \/ /\ chan # <<>>
          /\ txq' = Append(txq, Head(chan))
          /\ chan' = Tail(chan)
          /\ UNCHANGED readerClosed
       \/ /\ chan = <<>> /\ rpc = "done"
          /\ readerClosed' = TRUE
          /\ UNCHANGED <<chan, txq>>
    /\ mpc' = "receive"
    /\ UNCHANGED <<pumpOnly, free, stageVars, quicVars, udp, due, dropped, cause>>

(* The sleep elapses: on_timeout, PING and PMTU revalidation, each if due   *)
(* (a QUIC timer that was not the earliest waits for the next iteration),   *)
(* and a flush.  on_timeout may find the connection idle for too long.      *)
SelectTimer ==
    /\ mpc = "select"
    /\ due # {}
    /\ \E left \in {{}, {"quic"} \intersect due} :
          /\ left # due
          /\ due' = left
          /\ conn' \in IF "quic" \notin due \ left THEN {conn}
                       ELSE IF conn = "draining" THEN {"closed"} ELSE {conn, "closed"}
    /\ Flush(credit)
    /\ mpc' = "receive"
    /\ UNCHANGED <<pumpOnly, free, chan, txq, readerClosed, stageVars, rxq, udp, dropped, cause>>

(* A `?` of the loop: socket, quiche, HTTP/3 or TUN MTU error.              *)
LoopFails ==
    /\ mpc \in {"receive", "deliver", "control", "select"}
    /\ End("error")
    /\ UNCHANGED <<pumpOnly, free, chan, txq, readerClosed, stageVars, quicVars, udp, due, dropped>>

-----------------------------------------------------------------------------
Reader == TakeBuffer \/ SendToChannel

Select == SelectReadable \/ SelectPacket \/ SelectTimer

Pump ==
    \/ Receive \/ Deliver \/ CollectOne \/ CollectDone
    \/ QueueDrops \/ QueueFull \/ QueueSends \/ QueueDone
    \/ Control \/ Select

Next ==
    \/ Reader \/ ReadPacket \/ ReadInvalid \/ ReaderEof \/ ReaderAborted
    \/ PeerAcks \/ PeerSends \/ PeerEnds \/ \E t \in Timers : TimerExpires(t)
    \/ Pump \/ LoopFails

Spec == Init /\ [][Next]_vars

(* quic_timeout is taken at the top of each pass, so a QUIC timer the sleep   *)
(* has left once is at zero, hence first, when a sleep next elapses.          *)
QuicTimerNext ==
    []<><<SelectTimer>>_vars => []<><<SelectTimer /\ "quic" \notin due'>>_vars

(* A peer that has closed the connection sends nothing more; what was on its  *)
(* way still arrives, and then no more.                                     *)
ClosedPeerStops == <>[][PeerSends => conn # "draining"]_vars

(* The runtime runs both tasks, the peer acknowledges what it receives, and  *)
(* timers expire.  Between the ready branches of select! nothing is fair:   *)
(* each pass makes a new sleep, which even of length zero is not elapsed     *)
(* when first polled, so a socket that is readable every time wins every time. *)
FairSpec ==
    /\ Spec
    /\ WF_vars(Reader) /\ WF_vars(Pump)
    /\ WF_vars(PeerAcks) /\ \A t \in Timers : WF_vars(TimerExpires(t))
    /\ QuicTimerNext /\ ClosedPeerStops

(* More than tokio gives: a select! that does not pass over a deadline that  *)
(* is due, were it reached again and again.                                 *)
FairSelectSpec == FairSpec /\ SF_vars(SelectTimer)

-----------------------------------------------------------------------------
Packets == 1 .. MaxPackets

TypeOK ==
    /\ rpc \in {"buffer", "tun", "send", "done"}
    /\ held \in Seq(Packets)
    /\ read \in 0 .. MaxPackets
    /\ free \in 0 .. PoolSize
    /\ chan \in Seq(Packets)
    /\ mpc \in Stages \union {"ended"}
    /\ txq \in Seq(Packets) /\ Len(txq) <= TxQueueLen
    /\ readerClosed \in BOOLEAN
    /\ n \in Nat
    /\ backpressure \in BOOLEAN /\ rxFull \in BOOLEAN
    /\ dgq \in Seq(Packets) /\ Len(dgq) <= DgramCap
    /\ credit \in 0 .. Cwnd
    /\ rxq \in Nat
    /\ conn \in {"open", "draining", "closed", "finished"}
    /\ udp \in [ack : BOOLEAN, data : Nat, fatal : {"open", "draining", "closed", "finished"}]
    /\ received \in Nat
    /\ due \subseteq Timers
    /\ dropped \subseteq Packets
    /\ sent \in Seq(Packets)
    /\ cause \in {"none", "stream", "closed", "reader", "error"}

(* The bounded pool: while the loop runs, every buffer is in the recycle    *)
(* channel, with the reader, in the packet channel or in tx_queue, so       *)
(* try_send never finds the recycle channel full and the reader never       *)
(* starves for a buffer that is gone.                                       *)
BufferConservation ==
    mpc # "ended" =>
        free + Len(chan) + Len(txq) + (IF rpc = "buffer" THEN 0 ELSE 1) = PoolSize

(* A packet is lost only where a drop is counted: everything else that was   *)
(* read is on the wire or still in one of the queues.                       *)
InFlight == dgq \o txq \o chan \o held

EveryPacketAccounted ==
    mpc # "ended" =>
        1 .. read = dropped \union ToSet(sent) \union ToSet(InFlight)

(* "TUN reader ended" is not reported before everything the reader had read  *)
(* went to quiche.                                                          *)
ReaderDrained ==
    cause = "reader" => chan \o txq \o held = <<>>

(* select! is entered with packets in tx_queue only under backpressure, when *)
(* an acknowledgement or a QUIC timer is certain to wake it.                *)
NoStrandedPackets ==
    mpc = "select" /\ txq # <<>> =>
        backpressure /\ (credit < Cwnd \/ conn = "draining")

(* The change log's claim for the receive budget: upload makes progress     *)
(* whatever the download does.                                              *)
UploadProgress ==
    \A p \in Packets :
        read = p ~> p \in dropped \union ToSet(sent) \/ mpc = "ended"

(* The keepalive comment in data_loop: PING is driven by a periodic          *)
(* deadline and not held back by received packets.                          *)
KeepaliveProgress ==
    "keepalive" \in due ~> "keepalive" \notin due \/ mpc = "ended"

(* What holds of it: once nothing more arrives from either side, the loop     *)
(* comes to rest in select!, whatever is still queued and however the        *)
(* connection stands, and neither PING nor PMTU revalidation is held back    *)
(* by the other deadlines.                                                  *)
DeadlinesMetWhenQuiet ==
    <>[](udp.data = 0 /\ chan = <<>>) =>
        \A t \in Timers \ {"quic"} : t \in due ~> t \notin due \/ mpc = "ended"

-----------------------------------------------------------------------------
Fifo == INSTANCE LossyFifo
            WITH accepted <- read,
                 inside <- IF mpc = "ended" THEN <<>> ELSE InFlight,
                 out <- sent,
                 open <- mpc # "ended"

FifoSpec == Fifo!Spec

=============================================================================
