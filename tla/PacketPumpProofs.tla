-------------------------- MODULE PacketPumpProofs --------------------------
(***************************************************************************)
(* Theorems about PacketPump for every pool, queue and burst size.          *)
(***************************************************************************)
EXTENDS PacketPump, SequenceTheorems, TLAPS

-----------------------------------------------------------------------------
(* The inductive invariant.                                                 *)

HeldInv ==
    /\ held = (IF rpc = "send" THEN <<read>> ELSE <<>>)
    /\ rpc = "send" => read \in Packets

(* The reader's own buffer fits in the pool even after the loop has gone.    *)
BufferInv ==
    /\ BufferConservation
    /\ free + (IF rpc \in {"tun", "send"} THEN 1 ELSE 0) <= PoolSize

(* The loop learns that the reader is done only from an empty channel.       *)
ClosedInv ==
    /\ readerClosed => rpc = "done" /\ chan = <<>>
    /\ cause = "reader" => readerClosed /\ txq = <<>>
    /\ mpc # "ended" => cause = "none"

(* What queue_tx_datagrams leaves behind when it returns.                    *)
BurstInv ==
    /\ mpc \in {"queue", "control"} /\ backpressure => dgq # <<>>
    /\ mpc = "control" /\ txq # <<>> => n >= TxBurst \/ backpressure

IInv == TypeOK /\ HeldInv /\ BufferInv /\ ClosedInv /\ BurstInv /\ NoStrandedPackets

-----------------------------------------------------------------------------
(* The sizes run_tunnel_session clamps, as numbers.                         *)
LEMMA Sizes ==
    /\ PoolSize \in Nat /\ PoolSize > 0
    /\ TxQueueLen \in Nat /\ TxQueueLen > 0 /\ TxQueueLen <= PoolSize
    /\ TxBurst \in Nat /\ TxBurst > 0
    /\ ChannelBurst \in Nat /\ ChannelBurst > 0
    /\ RxBurst \in Nat /\ DgramCap \in Nat /\ DgramCap > 0
    /\ Cwnd \in Nat /\ Cwnd > 0
    /\ MaxPackets \in Nat /\ MaxRx \in Nat
BY PumpConfig

(* A prefix of a sequence and what remains are sequences of known lengths.  *)
LEMMA Prefix ==
    ASSUME NEW S, NEW q \in Seq(S), NEW k \in 0 .. Len(q)
    PROVE  /\ SubSeq(q, 1, k) \in Seq(S) /\ Len(SubSeq(q, 1, k)) = k
           /\ SubSeq(q, k + 1, Len(q)) \in Seq(S)
           /\ Len(SubSeq(q, k + 1, Len(q))) = Len(q) - k
<1>1. Len(q) \in Nat /\ \A i \in 1 .. Len(q) : q[i] \in S
  BY LenProperties, ElementOfSeq
<1>2. SubSeq(q, 1, k) \in Seq(S) /\ Len(SubSeq(q, 1, k)) = k
  BY <1>1, SubSeqProperties
<1>3. /\ SubSeq(q, k + 1, Len(q)) \in Seq(S)
      /\ Len(SubSeq(q, k + 1, Len(q))) = Len(q) - k
  BY <1>1, SubSeqProperties
<1> QED BY <1>2, <1>3

(* A flush hands over as much as the window allows and never overdraws it.   *)
LEMMA FlushStep ==
    ASSUME dgq \in Seq(Packets), sent \in Seq(Packets), NEW w \in 0 .. Cwnd, Flush(w)
    PROVE  \E k \in 0 .. Len(dgq) :
              /\ sent' = sent \o SubSeq(dgq, 1, k) /\ sent' \in Seq(Packets)
              /\ dgq' = SubSeq(dgq, k + 1, Len(dgq)) /\ dgq' \in Seq(Packets)
              /\ Len(dgq') = Len(dgq) - k
              /\ credit' \in 0 .. Cwnd
              /\ dgq = <<>> \/ credit' < Cwnd \/ conn' \in {"draining", "closed"}
<1> DEFINE k == IF conn' \in {"draining", "closed"} THEN 0 ELSE Least(w, Len(dgq))
<1>1. Len(dgq) \in Nat /\ (Len(dgq) = 0 => dgq = <<>>)
  BY LenProperties, EmptySeq
<1>2. k \in 0 .. Len(dgq) /\ k <= w
  BY <1>1, Sizes DEF Least
<1>3. /\ sent' = sent \o SubSeq(dgq, 1, k)
      /\ dgq' = SubSeq(dgq, k + 1, Len(dgq))
      /\ credit' = w - k
  BY DEF Flush
<1>4. credit' \in 0 .. Cwnd
  BY <1>1, <1>2, <1>3, Sizes
<1>5. dgq = <<>> \/ credit' < Cwnd \/ conn' \in {"draining", "closed"}
  BY <1>1, <1>2, <1>3, Sizes DEF Least
<1> HIDE DEF k
<1>6. /\ SubSeq(dgq, 1, k) \in Seq(Packets)
      /\ dgq' \in Seq(Packets) /\ Len(dgq') = Len(dgq) - k
  BY <1>2, <1>3, Prefix
<1>7. sent' \in Seq(Packets)
  BY <1>3, <1>6, ConcatProperties
<1> QED BY <1>2, <1>3, <1>4, <1>5, <1>6, <1>7

(* The other sequence operations of the loop.                               *)
LEMMA SeqSteps ==
    ASSUME NEW q \in Seq(Packets)
    PROVE  /\ Len(q) \in Nat /\ (q = <<>> <=> Len(q) = 0)
           /\ q # <<>> => /\ Head(q) \in Packets /\ Tail(q) \in Seq(Packets)
                         /\ Len(Tail(q)) = Len(q) - 1
           /\ \A p \in Packets : /\ Append(q, p) \in Seq(Packets) /\ Append(q, p) # <<>>
                                 /\ Len(Append(q, p)) = Len(q) + 1
                                 /\ q \o <<p>> = Append(q, p)
<1>1. Len(q) \in Nat /\ (q = <<>> <=> Len(q) = 0)
  BY LenProperties, EmptySeq
<1>2. q # <<>> => /\ Head(q) \in Packets /\ Tail(q) \in Seq(Packets)
                  /\ Len(Tail(q)) = Len(q) - 1
  BY HeadTailProperties
<1>3. \A p \in Packets : /\ Append(q, p) \in Seq(Packets) /\ Append(q, p) # <<>>
                         /\ Len(Append(q, p)) = Len(q) + 1
                         /\ q \o <<p>> = Append(q, p)
  BY AppendProperties, AppendIsConcat
<1> QED BY <1>1, <1>2, <1>3

(* The invariant holds when the session starts.                             *)
LEMMA InitInv == Init => IInv
<1> SUFFICES ASSUME Init PROVE IInv
  OBVIOUS
<1>1. <<>> \in Seq(Packets) /\ Len(<<>>) = 0
  BY EmptySeq
<1>2. TypeOK
  <2>1. /\ held \in Seq(Packets) /\ chan \in Seq(Packets) /\ txq \in Seq(Packets)
        /\ dgq \in Seq(Packets) /\ sent \in Seq(Packets)
        /\ Len(txq) <= TxQueueLen /\ Len(dgq) <= DgramCap
    BY <1>1, Sizes DEF Init
  <2>2. udp \in [ack : BOOLEAN, data : Nat, fatal : {"open", "draining", "closed", "finished"}]
    BY DEF Init, Nothing
  <2>3. /\ read \in 0 .. MaxPackets /\ free \in 0 .. PoolSize /\ credit \in 0 .. Cwnd
        /\ n \in Nat /\ rxq \in Nat /\ received \in Nat
    BY Sizes DEF Init
  <2> QED BY <2>1, <2>2, <2>3 DEF Init, TypeOK, Stages
<1>3. HeldInv /\ BufferInv
  BY <1>1, Sizes DEF Init, HeldInv, BufferInv, BufferConservation
<1>4. ClosedInv /\ BurstInv /\ NoStrandedPackets
  BY DEF Init, ClosedInv, BurstInv, NoStrandedPackets
<1> QED BY <1>2, <1>3, <1>4 DEF IInv

-----------------------------------------------------------------------------
(* Steps of the reader.                                                     *)
LEMMA ReaderKeepsInv ==
    IInv /\ (Reader \/ ReadPacket \/ ReadInvalid \/ ReaderEof \/ ReaderAborted) => IInv'
<1> SUFFICES ASSUME IInv, Reader \/ ReadPacket \/ ReadInvalid \/ ReaderEof \/ ReaderAborted
             PROVE  IInv'
  OBVIOUS
<1> USE Sizes DEF IInv
<1>1. UNCHANGED <<mpc, txq, readerClosed, n, backpressure, rxFull, dgq, credit, rxq, conn,
                  sent, udp, received, due, dropped, cause>>
  BY DEF Reader, TakeBuffer, ReadPacket, ReadInvalid, SendToChannel, ReaderEof, ReaderAborted,
         readerOnly, stageVars, quicVars, netVars
<1>2. BurstInv' /\ NoStrandedPackets'
  BY <1>1 DEF BurstInv, NoStrandedPackets
<1>3. /\ rpc' \in {"buffer", "tun", "send", "done"}
      /\ held' \in Seq(Packets) /\ chan' \in Seq(Packets)
      /\ read' \in 0 .. MaxPackets
      /\ HeldInv' /\ BufferInv' /\ ClosedInv'
      /\ free' \in 0 .. PoolSize
  <2> USE <1>1 DEF TypeOK, HeldInv, BufferInv, BufferConservation, ClosedInv
  <2>0. Len(chan) \in Nat /\ Len(txq) \in Nat
    BY SeqSteps
  <2>1. CASE TakeBuffer
    BY <2>0, <2>1 DEF TakeBuffer, readerOnly
  <2>2. CASE ReadPacket
    <3>1. read' \in Packets /\ held' = <<read'>> /\ held' \in Seq(Packets)
      BY <2>2 DEF ReadPacket, Packets
    <3> QED BY <2>0, <2>2, <3>1 DEF ReadPacket, Packets, readerOnly
  <2>3. CASE ReadInvalid
    BY <2>0, <2>3 DEF ReadInvalid, readerOnly
  <2>4. CASE SendToChannel
    <3>1. chan' \in Seq(Packets) /\ Len(chan') = Len(chan) + 1
      BY <2>4, SeqSteps DEF SendToChannel
    <3> QED BY <2>0, <2>4, <3>1 DEF SendToChannel
  <2>5. CASE ReaderEof
    BY <2>0, <2>5 DEF ReaderEof, readerOnly
  <2>6. CASE ReaderAborted
    BY <2>0, <2>6 DEF ReaderAborted, readerOnly
  <2> QED BY <2>1, <2>2, <2>3, <2>4, <2>5, <2>6 DEF Reader
<1>4. TypeOK'
  BY <1>1, <1>3 DEF TypeOK
<1> QED BY <1>2, <1>3, <1>4

(* Steps of the network and the clock.                                      *)
LEMMA NetworkKeepsInv ==
    IInv /\ (PeerAcks \/ PeerSends \/ PeerEnds \/ \E t \in Timers : TimerExpires(t)) => IInv'
<1> SUFFICES ASSUME IInv, PeerAcks \/ PeerSends \/ PeerEnds \/ \E t \in Timers : TimerExpires(t) PROVE IInv'
  OBVIOUS
<1> USE Sizes DEF IInv
<1>1. UNCHANGED <<rpc, held, read, free, chan, mpc, txq, readerClosed, n, backpressure, rxFull,
                  dgq, credit, rxq, conn, sent, dropped, cause>>
  BY DEF PeerAcks, PeerSends, PeerEnds, TimerExpires, netOnly, readerVars, stageVars, quicVars
<1>2. /\ HeldInv' /\ BufferInv' /\ ClosedInv' /\ BurstInv' /\ NoStrandedPackets'
  BY <1>1 DEF HeldInv, BufferInv, BufferConservation, ClosedInv, BurstInv, NoStrandedPackets
<1>3. /\ udp' \in [ack : BOOLEAN, data : Nat, fatal : {"open", "draining", "closed", "finished"}]
      /\ received' \in Nat /\ due' \subseteq Timers
  <2> USE DEF TypeOK, netVars
  <2>1. CASE PeerAcks BY <2>1 DEF PeerAcks
  <2>2. CASE PeerSends
    <3>1. udp' = [udp EXCEPT !.data = udp.data + 1] /\ UNCHANGED due
      BY <2>2, Zenon DEF PeerSends
    <3>2. received' = received \/ received' = received + 1
      BY <2>2, PumpConfig, Zenon DEF PeerSends
    <3>3. udp' = [ack |-> udp.ack, data |-> udp.data + 1, fatal |-> udp.fatal]
      BY <3>1
    <3>4. received \in Nat /\ due \subseteq Timers
      OBVIOUS
    <3>5. udp.ack \in BOOLEAN /\ udp.data \in Nat /\ udp.fatal \in {"open", "draining", "closed", "finished"}
      OBVIOUS
    <3>6. udp.data + 1 \in Nat
      BY <3>5
    <3>7. udp' \in [ack : BOOLEAN, data : Nat, fatal : {"open", "draining", "closed", "finished"}]
      BY <3>3, <3>5, <3>6, Zenon
    <3>8. received' \in Nat
      BY <3>2, <3>4
    <3>9. due' \subseteq Timers
      BY <3>1, <3>4, Zenon
    <3> QED BY <3>7, <3>8, <3>9
  <2>3. CASE PeerEnds BY <2>3 DEF PeerEnds
  <2>4. CASE \E t \in Timers : TimerExpires(t) BY <2>4 DEF TimerExpires
  <2> QED BY <2>1, <2>2, <2>3, <2>4
<1>4. TypeOK'
  BY <1>1, <1>3 DEF TypeOK
<1> QED BY <1>2, <1>4

-----------------------------------------------------------------------------
(* Steps of the loop.  The stages that exchange datagrams with the connection.                  *)
LEMMA ReceiveKeepsInv == IInv /\ (Receive \/ SelectReadable \/ SelectTimer) => IInv'
<1> SUFFICES ASSUME IInv, Receive \/ SelectReadable \/ SelectTimer PROVE IInv'
  OBVIOUS
<1> USE Sizes DEF IInv
<1>1. UNCHANGED <<rpc, held, read, received, free, chan, txq, readerClosed, n, backpressure,
                  rxFull, dropped>>
  BY DEF Receive, SelectReadable, SelectTimer, pumpOnly, stageVars
<1>2. /\ mpc # "ended"
      /\ \/ mpc' \in {"receive", "deliver"} /\ cause' = cause
         \/ mpc' = "ended" /\ cause' = "stream"
  <2>1. CASE Receive BY <2>1 DEF Receive, End
  <2>2. CASE SelectReadable BY <2>2 DEF SelectReadable, pumpOnly, stageVars
  <2>3. CASE SelectTimer BY <2>3 DEF SelectTimer, pumpOnly, stageVars
  <2> QED BY <2>1, <2>2, <2>3
<1>3. HeldInv' /\ BufferInv' /\ ClosedInv'
  <2>1. HeldInv'
    BY <1>1 DEF HeldInv
  <2>2. BufferInv'
    BY <1>1, <1>2 DEF BufferInv, BufferConservation
  <2>3. ClosedInv'
    BY <1>1, <1>2 DEF ClosedInv
  <2> QED BY <2>1, <2>2, <2>3
<1>4. BurstInv' /\ NoStrandedPackets'
  BY <1>2 DEF BurstInv, NoStrandedPackets
<1>5. /\ dgq' \in Seq(Packets) /\ Len(dgq') <= DgramCap /\ credit' \in 0 .. Cwnd
      /\ sent' \in Seq(Packets)
  <2>1. Len(dgq) \in Nat /\ dgq \in Seq(Packets) /\ sent \in Seq(Packets)
    BY SeqSteps DEF TypeOK
  <2>2. AckedCredit \in 0 .. Cwnd /\ credit \in 0 .. Cwnd
    BY DEF TypeOK, AckedCredit
  <2>3. CASE Receive
    <3>1. Flush(AckedCredit)
      BY <2>3 DEF Receive
    <3> QED BY <2>1, <2>2, <3>1, FlushStep DEF TypeOK
  <2>4. CASE SelectReadable
    BY <2>2, <2>4 DEF SelectReadable, TypeOK
  <2>5. CASE SelectTimer
    <3>1. Flush(credit)
      BY <2>5 DEF SelectTimer
    <3> QED BY <2>1, <2>2, <3>1, FlushStep DEF TypeOK
  <2> QED BY <2>3, <2>4, <2>5
<1>6. /\ udp' \in [ack : BOOLEAN, data : Nat, fatal : {"open", "draining", "closed", "finished"}]
      /\ rxq' \in Nat /\ conn' \in {"open", "draining", "closed", "finished"}
      /\ due' \subseteq Timers
  <2>1. CASE DrainQuic /\ UNCHANGED due
    BY <2>1 DEF DrainQuic, Nothing, TypeOK
  <2>2. CASE SelectTimer
    BY <2>2 DEF SelectTimer, TypeOK
  <2> QED BY <2>1, <2>2 DEF Receive, SelectReadable
<1>7. TypeOK'
  BY <1>1, <1>2, <1>5, <1>6 DEF TypeOK, Stages
<1> QED BY <1>3, <1>4, <1>7

(* Moving packets from the channel to tx_queue.                             *)
LEMMA CollectKeepsInv == IInv /\ (Deliver \/ CollectOne \/ CollectDone \/ SelectPacket) => IInv'
<1> SUFFICES ASSUME IInv, Deliver \/ CollectOne \/ CollectDone \/ SelectPacket PROVE IInv'
  OBVIOUS
<1> USE Sizes DEF IInv
<1>1. UNCHANGED <<rpc, held, read, received, free, dgq, credit, conn, sent, udp, due, dropped, cause>>
  BY DEF Deliver, CollectOne, CollectDone, SelectPacket, pumpOnly, quicVars
<1>2. mpc # "ended" /\ mpc' \in {"receive", "collect", "queue"}
  BY DEF Deliver, CollectOne, CollectDone, SelectPacket
<1>3. /\ chan' \in Seq(Packets) /\ txq' \in Seq(Packets) /\ Len(txq') <= TxQueueLen
      /\ Len(chan') + Len(txq') = Len(chan) + Len(txq)
      /\ chan = <<>> => chan' = <<>>
  <2>1. CASE UNCHANGED <<chan, txq>>
    BY <2>1 DEF TypeOK
  <2>2. CASE Len(txq) < TxQueueLen /\ chan # <<>> /\ txq' = Append(txq, Head(chan)) /\ chan' = Tail(chan)
    <3>1. /\ Len(chan) \in Nat /\ Len(txq) \in Nat /\ Head(chan) \in Packets
          /\ Tail(chan) \in Seq(Packets) /\ Len(Tail(chan)) = Len(chan) - 1
      BY <2>2, SeqSteps DEF TypeOK
    <3>2. /\ Append(txq, Head(chan)) \in Seq(Packets)
          /\ Len(Append(txq, Head(chan))) = Len(txq) + 1
      BY <3>1, SeqSteps DEF TypeOK
    <3> QED BY <2>2, <3>1, <3>2
  <2> QED BY <2>1, <2>2 DEF Deliver, CollectOne, CollectDone, SelectPacket
<1>4. /\ readerClosed' \in BOOLEAN /\ backpressure' \in BOOLEAN /\ rxFull' \in BOOLEAN
      /\ n' \in Nat /\ rxq' \in Nat
      /\ readerClosed' => readerClosed \/ (rpc = "done" /\ chan' = <<>>)
      /\ mpc' = "queue" => ~backpressure'
  <2>1. CASE Deliver
    <3>1. Least(rxq, RxBurst) \in Nat /\ Least(rxq, RxBurst) <= rxq
      BY DEF Least, TypeOK
    <3> QED BY <2>1, <3>1 DEF Deliver, TypeOK
  <2>2. CASE CollectOne
    BY <2>2 DEF CollectOne, TypeOK, quicVars
  <2>3. CASE CollectDone
    <3>1. readerClosed' = (readerClosed \/
              (n < ChannelBurst /\ Len(txq) < TxQueueLen /\ rpc = "done"))
      BY <2>3 DEF CollectDone
    <3>2. readerClosed' \in BOOLEAN /\ (readerClosed' => readerClosed \/ (rpc = "done" /\ chan' = <<>>))
      <4>1. Len(txq) \in Nat /\ n \in Nat
        BY SeqSteps DEF TypeOK
      <4> QED BY <2>3, <3>1, <4>1 DEF CollectDone, TypeOK
    <3> QED BY <2>3, <3>2 DEF CollectDone, TypeOK, quicVars
  <2>4. CASE SelectPacket
    <3>1. UNCHANGED <<n, backpressure, rxFull, rxq>> /\ mpc' = "receive"
      BY <2>4 DEF SelectPacket, quicVars, stageVars
    <3>2. \/ readerClosed' = readerClosed
          \/ readerClosed' = TRUE /\ rpc = "done" /\ chan' = <<>>
      BY <2>4 DEF SelectPacket
    <3>3. readerClosed \in BOOLEAN /\ backpressure \in BOOLEAN /\ rxFull \in BOOLEAN /\ n \in Nat /\ rxq \in Nat
      BY DEF TypeOK
    <3>4. readerClosed' \in BOOLEAN /\ (readerClosed' => readerClosed \/ (rpc = "done" /\ chan' = <<>>))
      <4>1. CASE readerClosed' = readerClosed BY <3>3, <4>1
      <4>2. CASE readerClosed' = TRUE /\ rpc = "done" /\ chan' = <<>> BY <4>2
      <4> QED BY <3>2, <4>1, <4>2
    <3> QED BY <3>1, <3>3, <3>4
  <2> QED BY <2>1, <2>2, <2>3, <2>4
<1>5. HeldInv' /\ BufferInv'
  <2>1. Len(chan) \in Nat /\ Len(txq) \in Nat /\ Len(chan') \in Nat /\ Len(txq') \in Nat
    BY <1>3, SeqSteps DEF TypeOK
  <2>2. HeldInv'
    BY <1>1 DEF HeldInv
  <2>3. free + Len(chan') + Len(txq') + (IF rpc = "buffer" THEN 0 ELSE 1) = PoolSize
    <3>1. free + Len(chan) + Len(txq) + (IF rpc = "buffer" THEN 0 ELSE 1) = PoolSize
      BY <1>2 DEF BufferInv, BufferConservation
    <3>2. free \in Nat
      BY DEF TypeOK
    <3> QED BY <1>3, <2>1, <3>1, <3>2
  <2> QED BY <1>1, <2>2, <2>3 DEF BufferInv, BufferConservation
<1>6. ClosedInv' /\ BurstInv' /\ NoStrandedPackets'
  BY <1>1, <1>2, <1>3, <1>4 DEF ClosedInv, BurstInv, NoStrandedPackets
<1>7. TypeOK'
  BY <1>1, <1>2, <1>3, <1>4, SMTT(30) DEF TypeOK, Stages
<1> QED BY <1>5, <1>6, <1>7

(* queue_tx_datagrams.                                                      *)
LEMMA QueueKeepsInv == IInv /\ (QueueDrops \/ QueueFull \/ QueueSends \/ QueueDone) => IInv'
<1> SUFFICES ASSUME IInv, QueueDrops \/ QueueFull \/ QueueSends \/ QueueDone PROVE IInv'
  OBVIOUS
<1> USE Sizes DEF IInv
<1>1. UNCHANGED <<rpc, held, read, received, chan, readerClosed, rxFull, credit, rxq, conn, sent,
                  udp, due, cause>>
  BY DEF QueueDrops, QueueFull, QueueSends, QueueDone, queueOnly, pumpOnly, stageVars, quicVars
<1>2. mpc = "queue" /\ mpc' \in {"queue", "control"}
  BY DEF QueueDrops, QueueFull, QueueSends, QueueDone, Queueing, queueOnly
<1>3. /\ Len(chan) \in Nat /\ Len(txq) \in Nat /\ Len(dgq) \in Nat /\ free \in Nat
      /\ n \in Nat /\ free + Len(chan) + Len(txq) + (IF rpc = "buffer" THEN 0 ELSE 1) = PoolSize
  BY <1>2, SeqSteps DEF TypeOK, BufferInv, BufferConservation
<1>4. /\ txq' \in Seq(Packets) /\ dgq' \in Seq(Packets)
      /\ Len(txq') \in Nat /\ Len(txq') <= Len(txq) /\ Len(dgq') <= DgramCap
      /\ free' \in Nat /\ free' + Len(txq') = free + Len(txq)
      /\ n' \in Nat /\ backpressure' \in BOOLEAN /\ dropped' \subseteq Packets
  <2>1. txq # <<>> => /\ Head(txq) \in Packets /\ Tail(txq) \in Seq(Packets)
                      /\ Len(Tail(txq)) = Len(txq) - 1 /\ Len(txq) > 0
    BY SeqSteps DEF TypeOK
  <2>2. CASE QueueDrops
    BY <1>3, <2>1, <2>2 DEF QueueDrops, Queueing, TypeOK
  <2>3. CASE QueueFull
    BY <1>3, <2>3 DEF QueueFull, TypeOK
  <2>4. CASE QueueSends
    <3>1. /\ Append(dgq, Head(txq)) \in Seq(Packets)
          /\ Len(Append(dgq, Head(txq))) = Len(dgq) + 1
      BY <2>1, <2>4, SeqSteps DEF QueueSends, Queueing, TypeOK
    <3> QED BY <1>3, <2>1, <2>4, <3>1 DEF QueueSends, Queueing, TypeOK
  <2>5. CASE QueueDone
    BY <1>3, <2>5 DEF QueueDone, stageVars, quicVars, TypeOK
  <2> QED BY <2>2, <2>3, <2>4, <2>5
<1>5. BurstInv'
  <2>1. CASE QueueDrops
    BY <2>1, <1>2 DEF QueueDrops, Queueing, BurstInv, queueOnly
  <2>2. CASE QueueFull
    <3>1. dgq # <<>>
      BY <2>2, SeqSteps DEF QueueFull, TypeOK
    <3> QED BY <2>2, <3>1, <1>2 DEF QueueFull, Queueing, BurstInv, queueOnly
  <2>3. CASE QueueSends
    BY <2>3, <1>2 DEF QueueSends, Queueing, BurstInv, queueOnly
  <2>4. CASE QueueDone
    <3>1. n >= TxBurst \/ txq = <<>> \/ backpressure
      BY <1>3, <2>4 DEF QueueDone, Queueing, TypeOK
    <3>2. UNCHANGED <<txq, n, backpressure, dgq>>
      BY <2>4 DEF QueueDone, stageVars, quicVars
    <3> QED BY <1>2, <3>1, <3>2 DEF BurstInv
  <2> QED BY <2>1, <2>2, <2>3, <2>4
<1>6. HeldInv' /\ BufferInv'
  <2>1. HeldInv'
    BY <1>1 DEF HeldInv
  <2>2. free' + Len(chan) + Len(txq') + (IF rpc = "buffer" THEN 0 ELSE 1) = PoolSize
    BY <1>3, <1>4, SMTT(30)
  <2>3. free' + (IF rpc \in {"tun", "send"} THEN 1 ELSE 0) <= PoolSize
    <3> DEFINE f == free'
               c == Len(chan) + Len(txq')
               h == IF rpc = "buffer" THEN 0 ELSE 1
               g == IF rpc \in {"tun", "send"} THEN 1 ELSE 0
    <3>1. f \in Nat /\ c \in Nat /\ h \in Nat /\ g \in Nat /\ g <= h
      BY <1>3, <1>4
    <3>2. f + c + h = PoolSize
      BY <1>3, <1>4, <2>2
    <3> HIDE DEF f, c, h, g
    <3>3. f + g <= PoolSize
      BY <3>1, <3>2
    <3> QED BY <3>3 DEF f, g
  <2> QED BY <1>1, <2>1, <2>2, <2>3 DEF BufferInv, BufferConservation
<1>7. ClosedInv' /\ NoStrandedPackets'
  BY <1>1, <1>2 DEF ClosedInv, NoStrandedPackets
<1>8. free' \in 0 .. PoolSize
  BY <1>3, <1>4
<1>9. TypeOK'
  BY <1>1, <1>2, <1>3, <1>4, <1>8, SMTT(30) DEF TypeOK, Stages
<1> QED BY <1>5, <1>6, <1>7, <1>9

(* The end of an iteration, and a failure anywhere in it.                   *)
LEMMA ControlKeepsInv == IInv /\ (Control \/ LoopFails) => IInv'
<1> SUFFICES ASSUME IInv, Control \/ LoopFails PROVE IInv'
  OBVIOUS
<1> USE Sizes DEF IInv
<1>1. UNCHANGED <<rpc, held, read, received, free, chan, txq, readerClosed, n, backpressure,
                  rxFull, rxq, conn, udp, due, dropped>>
  BY DEF Control, LoopFails, pumpOnly, stageVars, quicVars
<1>2. /\ mpc # "ended" /\ mpc' \in {"receive", "select", "ended"}
      /\ mpc' # "ended" => cause' = cause
      /\ (mpc' = "ended" /\ cause' = "reader") => readerClosed /\ txq = <<>>
      /\ cause' \in {"none", "stream", "closed", "reader", "error"}
      /\ mpc' = "select" => Control /\ conn # "closed" /\ ~Continue
  <2>1. CASE LoopFails BY <2>1 DEF LoopFails, End, TypeOK
  <2> USE DEF TypeOK
  <2>2. CASE Control /\ conn = "closed" BY <2>2 DEF Control, End
  <2>3. CASE Control /\ conn # "closed" /\ readerClosed /\ txq = <<>> BY <2>3 DEF Control, End
  <2>4. CASE Control /\ conn # "closed" /\ ~(readerClosed /\ txq = <<>>) BY <2>4 DEF Control
  <2> QED BY <2>1, <2>2, <2>3, <2>4
<1>3. /\ dgq' \in Seq(Packets) /\ Len(dgq') <= DgramCap /\ credit' \in 0 .. Cwnd
      /\ sent' \in Seq(Packets)
  <2>1. /\ dgq \in Seq(Packets) /\ sent \in Seq(Packets) /\ credit \in 0 .. Cwnd
        /\ Len(dgq) \in Nat /\ Len(dgq) <= DgramCap
    BY SeqSteps DEF TypeOK
  <2>2. CASE Flush(credit)
    BY <2>1, <2>2, FlushStep
  <2>3. CASE UNCHANGED <<dgq, credit, sent>>
    BY <2>1, <2>3
  <2> QED BY <2>2, <2>3 DEF Control, LoopFails, quicVars
<1>4. NoStrandedPackets'
  <2> SUFFICES ASSUME mpc' = "select", txq # <<>>
               PROVE  backpressure /\ (credit' < Cwnd \/ conn = "draining")
    BY <1>1 DEF NoStrandedPackets
  <2>1. Control /\ conn' = conn /\ conn # "closed" /\ ~Continue
    BY <1>1, <1>2
  <2>2. backpressure /\ dgq # <<>>
    BY <2>1 DEF Control, Continue, BurstInv
  <2>3. Flush(credit)
    BY <2>1, <2>2 DEF Control
  <2> QED BY <2>1, <2>2, <2>3, FlushStep DEF TypeOK
<1>5. HeldInv' /\ BufferInv' /\ BurstInv'
  <2>1. HeldInv' /\ BurstInv'
    BY <1>1, <1>2 DEF HeldInv, BurstInv
  <2>2. BufferInv'
    BY <1>1, <1>2 DEF BufferInv, BufferConservation
  <2> QED BY <2>1, <2>2
<1>6. ClosedInv'
  BY <1>1, <1>2 DEF ClosedInv
<1>7. TypeOK'
  BY <1>1, <1>2, <1>3 DEF TypeOK, Stages
<1> QED BY <1>4, <1>5, <1>6, <1>7

(* A stutter keeps the invariant.                                           *)
LEMMA StutterKeepsInv == IInv /\ UNCHANGED vars => IInv'
BY DEF IInv, TypeOK, HeldInv, BufferInv, BufferConservation, ClosedInv, BurstInv, NoStrandedPackets,
       vars, readerVars, stageVars, quicVars, netVars

(* Every step keeps the invariant.                                          *)
LEMMA NextKeepsInv == IInv /\ [Next]_vars => IInv'
BY ReaderKeepsInv, NetworkKeepsInv, ReceiveKeepsInv, CollectKeepsInv, QueueKeepsInv,
   ControlKeepsInv, StutterKeepsInv
DEF Next, Pump, Select

-----------------------------------------------------------------------------
(* Every reachable state satisfies the invariant.                           *)
THEOREM InductiveInvariant == Spec => []IInv
BY InitInv, NextKeepsInv, PTL DEF Spec

(* The queues respect their capacities and hold packets that were read.      *)
THEOREM TypeCorrect == Spec => []TypeOK
<1>1. IInv => TypeOK
  BY DEF IInv
<1> QED BY <1>1, InductiveInvariant, PTL

(* No path of queue_tx_datagrams or of the reader loses a pool buffer while  *)
(* the loop runs.                                                           *)
THEOREM BuffersConserved == Spec => []BufferConservation
<1>1. IInv => BufferConservation
  BY DEF IInv, BufferInv
<1> QED BY <1>1, InductiveInvariant, PTL

(* data_loop reports "TUN reader ended" only when nothing the reader read is *)
(* left in the channel or in tx_queue.                                      *)
THEOREM ReaderIsDrained == Spec => []ReaderDrained
<1>1. IInv => ReaderDrained
  BY ConcatEmptySeq, EmptySeq DEF IInv, ClosedInv, HeldInv, ReaderDrained
<1> QED BY <1>1, InductiveInvariant, PTL

(* The loop sleeps on a nonempty tx_queue only when an acknowledgement or a  *)
(* QUIC timer will wake it.                                                 *)
THEOREM NothingStranded == Spec => []NoStrandedPackets
<1>1. IInv => NoStrandedPackets
  BY DEF IInv
<1> QED BY <1>1, InductiveInvariant, PTL

-----------------------------------------------------------------------------
(* One pass of the loop.                                                    *)

Passing == {"receive", "deliver", "collect", "queue"}

(* A bound on the steps the loop takes before it looks at its end and at the  *)
(* deadlines again: what tx_queue can still be given, then what it holds.     *)
PassLeft ==
    CASE mpc = "receive" -> 2 * TxQueueLen + 6
      [] mpc = "deliver" -> 2 * TxQueueLen + 5
      [] mpc = "collect" -> 2 * TxQueueLen + 4 - Len(txq)
      [] mpc = "queue" -> Len(txq) + (IF backpressure THEN 2 ELSE 3)
      [] mpc = "control" -> 1
      [] OTHER -> 0

(* Nobody but the loop changes the bound, and each of its steps lowers it.    *)
PassNearer ==
    /\ PassLeft \in 0 .. 2 * TxQueueLen + 6
    /\ mpc \in Passing =>
          \/ PassLeft' < PassLeft
          \/ ~(Pump \/ LoopFails) /\ PassLeft' = PassLeft

LEMMA PassStep ==
    ASSUME IInv, mpc \in Passing, Pump \/ LoopFails
    PROVE  PassLeft' < PassLeft
<1>1. TxQueueLen \in Nat /\ Len(txq) \in 0 .. TxQueueLen
  BY Sizes, LenProperties DEF IInv, TypeOK
<1>2. txq \in Seq(Packets) /\ backpressure \in BOOLEAN
  BY DEF IInv, TypeOK
<1> USE DEF PassLeft, Passing
<1>3. CASE Receive
  BY <1>1, <1>3 DEF Receive, End
<1>4. CASE Deliver
  BY <1>1, <1>4 DEF Deliver
<1>5. CASE CollectOne
  <2>1. Len(txq') = Len(txq) + 1
    BY <1>2, <1>5, AppendProperties, HeadTailProperties DEF CollectOne, IInv, TypeOK
  <2> QED BY <1>1, <1>5, <2>1 DEF CollectOne
<1>6. CASE CollectDone
  BY <1>1, <1>6 DEF CollectDone
<1>7. CASE QueueDrops \/ QueueSends
  <2>1. txq # <<>> /\ txq' = Tail(txq) /\ backpressure' = backpressure /\ mpc = "queue" /\ mpc' = mpc
    BY <1>7 DEF QueueDrops, QueueSends, Queueing, queueOnly
  <2>2. Len(txq') = Len(txq) - 1
    BY <1>2, <2>1, HeadTailProperties
  <2> QED BY <1>1, <2>1, <2>2
<1>8. CASE QueueFull
  BY <1>1, <1>8 DEF QueueFull, Queueing, queueOnly
<1>9. CASE QueueDone
  BY <1>1, <1>9 DEF QueueDone
<1>10. CASE Control \/ Select
  BY <1>10 DEF Control, Select, SelectReadable, SelectPacket, SelectTimer
<1>11. CASE LoopFails
  BY <1>1, <1>11 DEF LoopFails, End
<1> QED BY <1>3, <1>4, <1>5, <1>6, <1>7, <1>8, <1>9, <1>10, <1>11 DEF Pump

(* masque.rs, data_loop: the bursts bound a pass, whatever arrives from the   *)
(* network and however fast the reader refills the channel meanwhile: after   *)
(* 2 * TxQueueLen + 6 steps the loop has come to its end check or ended.  A    *)
(* starved deadline is starved by passes that follow one another without a    *)
(* select, never inside one.                                                *)
THEOREM PassesEnd == Spec => [][PassNearer]_vars
<1>1. IInv => PassLeft \in 0 .. 2 * TxQueueLen + 6
  <2> SUFFICES ASSUME IInv PROVE PassLeft \in 0 .. 2 * TxQueueLen + 6
    OBVIOUS
  <2>1. TxQueueLen \in Nat /\ Len(txq) \in 0 .. TxQueueLen
    BY Sizes, LenProperties DEF IInv, TypeOK
  <2> QED BY <2>1 DEF PassLeft
<1>2. ASSUME NEW t \in Timers, TimerExpires(t) PROVE UNCHANGED <<mpc, txq, backpressure>>
  BY <1>2 DEF TimerExpires, netOnly, stageVars
<1>3. Next => Pump \/ LoopFails \/ UNCHANGED <<mpc, txq, backpressure>>
  BY <1>2
  DEF Next, Reader, TakeBuffer, SendToChannel, ReadPacket, ReadInvalid, ReaderEof, ReaderAborted,
      PeerAcks, PeerSends, PeerEnds, readerOnly, netOnly, stageVars
<1>4. UNCHANGED <<mpc, txq, backpressure>> => PassLeft' = PassLeft
  BY DEF PassLeft
<1>5. IInv /\ [Next]_vars => [PassNearer]_vars
  BY <1>1, <1>3, <1>4, PassStep DEF PassNearer
<1> QED BY <1>5, InductiveInvariant, PTL DEF Spec

-----------------------------------------------------------------------------
(* PacketPump implements LossyFifo, and no packet is lost without being     *)
(* counted.  Both follow from what a step does to the pipeline InFlight.    *)

-----------------------------------------------------------------------------
(* Moving the boundary between two queues.                                  *)
LEMMA Shift ==
    ASSUME NEW S, NEW a \in Seq(S), NEW b \in Seq(S), b # <<>>
    PROVE  Append(a, Head(b)) \o Tail(b) = a \o b
<1>1. Head(b) \in S /\ Tail(b) \in Seq(S)
  BY HeadTailProperties
<1>2. Append(a, Head(b)) = a \o <<Head(b)>> /\ <<Head(b)>> \in Seq(S)
  BY <1>1, AppendIsConcat
<1>3. <<Head(b)>> \o Tail(b) = b
  <2>1. Len(b) \in Nat /\ Len(b) # 0
    BY EmptySeq, LenProperties
  <2>2. 1 \in 1 .. Len(b) /\ Len(b) \in 1 .. Len(b)
    BY <2>1
  <2>3. SubSeq(b, 1, Len(b)) = <<b[1]>> \o SubSeq(b, 2, Len(b))
    BY <2>2, SubSeqRecursiveFirst
  <2>4. SubSeq(b, 1, Len(b)) = b /\ Tail(b) = SubSeq(b, 2, Len(b)) /\ Head(b) = b[1]
    BY SubSeqFull, TailIsSubSeq
  <2> QED BY <2>3, <2>4
<1> QED BY <1>1, <1>2, <1>3, ConcatAssociative

(* Taking a prefix of the first of two queues.                              *)
LEMMA TakePrefix ==
    ASSUME NEW S, NEW a \in Seq(S), NEW b \in Seq(S), NEW k \in 0 .. Len(a)
    PROVE  /\ SubSeq(a \o b, 1, k) = SubSeq(a, 1, k)
           /\ SubSeq(a \o b, k + 1, Len(a \o b)) = SubSeq(a, k + 1, Len(a)) \o b
           /\ k \in 0 .. Len(a \o b)
<1> DEFINE ab == a \o b
<1>1. /\ Len(a) \in Nat /\ Len(b) \in Nat /\ ab \in Seq(S) /\ Len(ab) = Len(a) + Len(b)
      /\ \A i \in 1 .. Len(a) + Len(b) : ab[i] = IF i <= Len(a) THEN a[i] ELSE b[i - Len(a)]
  BY ConcatProperties, LenProperties
<1>2. \A i \in 1 .. Len(ab) : ab[i] \in S
  BY <1>1, ElementOfSeq
<1>3. \A i \in 1 .. Len(a) : a[i] \in S
  BY ElementOfSeq
<1> HIDE DEF ab
<1>4. SubSeq(ab, 1, k) = SubSeq(a, 1, k)
  <2>1. /\ SubSeq(ab, 1, k) \in Seq(S) /\ Len(SubSeq(ab, 1, k)) = k
        /\ \A i \in 1 .. k : SubSeq(ab, 1, k)[i] = ab[i]
    BY <1>1, <1>2, SubSeqProperties
  <2>2. /\ SubSeq(a, 1, k) \in Seq(S) /\ Len(SubSeq(a, 1, k)) = k
        /\ \A i \in 1 .. k : SubSeq(a, 1, k)[i] = a[i]
    BY <1>1, <1>3, SubSeqProperties
  <2>3. \A i \in 1 .. k : ab[i] = a[i]
    BY <1>1
  <2> QED BY <2>1, <2>2, <2>3, SeqEqual
<1>5. SubSeq(ab, k + 1, Len(ab)) = SubSeq(a, k + 1, Len(a)) \o b
  <2> DEFINE l == SubSeq(ab, k + 1, Len(ab))
             c == SubSeq(a, k + 1, Len(a))
             r == c \o b
  <2>1. /\ l \in Seq(S) /\ Len(l) = Len(ab) - k
        /\ \A i \in 1 .. Len(ab) - k : l[i] = ab[k + i]
    <3>1. k + 1 \in Int /\ Len(ab) \in Int /\ \A i \in (k + 1) .. Len(ab) : ab[i] \in S
      BY <1>1, <1>2
    <3>2. /\ l \in Seq(S) /\ Len(l) = (IF k + 1 <= Len(ab) THEN Len(ab) - (k + 1) + 1 ELSE 0)
          /\ \A i \in 1 .. Len(ab) - (k + 1) + 1 : l[i] = ab[k + 1 + i - 1]
      BY <3>1, SubSeqProperties
    <3> HIDE DEF l
    <3> QED BY <1>1, <3>2
  <2>2. /\ c \in Seq(S) /\ Len(c) = Len(a) - k
        /\ \A i \in 1 .. Len(a) - k : c[i] = a[k + i]
    <3>1. k + 1 \in Int /\ Len(a) \in Int /\ \A i \in (k + 1) .. Len(a) : a[i] \in S
      BY <1>1, <1>3
    <3>2. /\ c \in Seq(S) /\ Len(c) = (IF k + 1 <= Len(a) THEN Len(a) - (k + 1) + 1 ELSE 0)
          /\ \A i \in 1 .. Len(a) - (k + 1) + 1 : c[i] = a[k + 1 + i - 1]
      BY <3>1, SubSeqProperties
    <3> HIDE DEF c
    <3> QED BY <1>1, <3>2
  <2> HIDE DEF c
  <2>3. /\ r \in Seq(S) /\ Len(r) = Len(c) + Len(b)
        /\ \A i \in 1 .. Len(c) + Len(b) : r[i] = IF i <= Len(c) THEN c[i] ELSE b[i - Len(c)]
    BY <2>2, ConcatProperties
  <2> HIDE DEF l, r
  <2>4. Len(l) = Len(r) /\ \A i \in 1 .. Len(l) : l[i] = r[i]
    <3>1. Len(l) = Len(r) /\ Len(l) = Len(a) + Len(b) - k
      BY <1>1, <2>1, <2>2, <2>3
    <3>2. ASSUME NEW i \in 1 .. Len(l) PROVE l[i] = r[i]
      <4>1. i \in 1 .. Len(c) + Len(b) /\ k + i \in 1 .. Len(a) + Len(b) /\ i \in Nat
        BY <1>1, <2>2, <3>1
      <4>2. l[i] = ab[k + i]
        BY <1>1, <2>1, <3>1
      <4>3. CASE i <= Len(c)
        <5>1. k + i <= Len(a) /\ i \in 1 .. Len(a) - k
          BY <1>1, <2>2, <4>1, <4>3
        <5> QED BY <1>1, <2>2, <2>3, <4>1, <4>2, <4>3, <5>1
      <4>4. CASE ~(i <= Len(c))
        <5>1. ~(k + i <= Len(a)) /\ (k + i) - Len(a) = i - Len(c)
          BY <1>1, <2>2, <4>1, <4>4
        <5>2. ab[k + i] = b[(k + i) - Len(a)]
          BY <1>1, <4>1, <5>1
        <5>3. r[i] = b[i - Len(c)]
          BY <2>3, <4>1, <4>4
        <5> QED BY <4>2, <5>1, <5>2, <5>3
      <4> QED BY <4>3, <4>4
    <3> QED BY <3>1, <3>2
  <2>5. l = r
    BY <2>1, <2>3, <2>4, SeqEqual
  <2> QED BY <2>5 DEF l, r, c
<1>6. k \in 0 .. Len(ab)
  BY <1>1
<1> QED BY <1>4, <1>5, <1>6 DEF ab

(* Dropping the head of the second of two queues.                           *)
LEMMA DropMiddle ==
    ASSUME NEW S, NEW a \in Seq(S), NEW b \in Seq(S), b # <<>>
    PROVE  /\ Len(a) + 1 \in 1 .. Len(a \o b)
           /\ (a \o b)[Len(a) + 1] = Head(b)
           /\ RemoveAt(a \o b, Len(a) + 1) = a \o Tail(b)
<1>1. /\ Len(a) \in Nat /\ Len(b) \in Nat /\ Len(b) # 0 /\ a \o b \in Seq(S)
      /\ Len(a \o b) = Len(a) + Len(b)
      /\ \A i \in 1 .. Len(a) + Len(b) : (a \o b)[i] = IF i <= Len(a) THEN a[i] ELSE b[i - Len(a)]
  BY ConcatProperties, LenProperties, EmptySeq
<1>2. Head(b) \in S /\ Tail(b) \in Seq(S) /\ Append(a, Head(b)) \in Seq(S)
      /\ Len(Append(a, Head(b))) = Len(a) + 1
  BY HeadTailProperties, AppendProperties
<1>3. Append(a, Head(b)) \o Tail(b) = a \o b
  BY Shift
<1>4. SubSeq(a \o b, 1, Len(a)) = a
  <2>1. Len(a) \in 0 .. Len(a)
    BY <1>1
  <2> QED BY <2>1, TakePrefix, SubSeqFull
<1>5. SubSeq(a \o b, (Len(a) + 1) + 1, Len(a \o b)) = Tail(b)
  <2> DEFINE c == Append(a, Head(b))
             k == Len(a) + 1
  <2>1. k \in 0 .. Len(c) /\ Len(c) = k /\ c \in Seq(S)
    BY <1>1, <1>2
  <2>2. SubSeq(c \o Tail(b), k + 1, Len(c \o Tail(b))) = SubSeq(c, k + 1, Len(c)) \o Tail(b)
    BY <1>2, <2>1, TakePrefix
  <2>3. SubSeq(c, k + 1, Len(c)) = <<>>
    BY <1>1, <2>1, SubSeqEmpty
  <2>4. <<>> \o Tail(b) = Tail(b)
    BY <1>2, ConcatEmptySeq
  <2> QED BY <1>3, <2>2, <2>3, <2>4
<1>6. (Len(a) + 1) - 1 = Len(a) /\ Len(a) + 1 \in 1 .. Len(a \o b)
  BY <1>1
<1>7. (a \o b)[Len(a) + 1] = Head(b)
  BY <1>1, <1>6
<1> QED BY <1>4, <1>5, <1>6, <1>7 DEF RemoveAt

-----------------------------------------------------------------------------
(* What one step does to the pipeline.                                      *)

Steady == UNCHANGED <<read, dropped, sent>> /\ InFlight' = InFlight

Accepts ==
    /\ UNCHANGED <<dropped, sent>>
    /\ read' = read + 1
    /\ InFlight' = Append(InFlight, read')

HandsOver(k) ==
    /\ sent' = sent \o SubSeq(InFlight, 1, k)
    /\ InFlight' = SubSeq(InFlight, k + 1, Len(InFlight))

Delivers == UNCHANGED <<read, dropped>> /\ \E k \in 0 .. Len(InFlight) : HandsOver(k)

Drops ==
    /\ UNCHANGED <<read, sent>>
    /\ \E i \in 1 .. Len(InFlight) :
          /\ InFlight' = RemoveAt(InFlight, i)
          /\ dropped' = dropped \union {InFlight[i]}

(* The four queues between the reader and the wire, regrouped.              *)
LEMMA Regroup ==
    \A a, b, c, d \in Seq(Packets) : ((a \o b) \o c) \o d = a \o (b \o (c \o d))
<1> DEFINE S == Packets
<1> HIDE DEF S
<1> SUFFICES ASSUME NEW a \in Seq(S), NEW b \in Seq(S), NEW c \in Seq(S), NEW d \in Seq(S)
             PROVE  ((a \o b) \o c) \o d = a \o (b \o (c \o d))
  BY DEF S
<1>1. a \o b \in Seq(S) /\ c \o d \in Seq(S)
  BY ConcatProperties
<1>2. ((a \o b) \o c) \o d = (a \o b) \o (c \o d)
  <2> DEFINE ab == a \o b
  <2> HIDE DEF ab
  <2>1. ab \in Seq(S) BY <1>1 DEF ab
  <2>2. (ab \o c) \o d = ab \o (c \o d) BY <2>1, ConcatAssociative, SMTT(30), ZenonT(30)
  <2> QED BY <2>2 DEF ab
<1>3. (a \o b) \o (c \o d) = a \o (b \o (c \o d))
  <2> DEFINE cd == c \o d
  <2> HIDE DEF cd
  <2>1. cd \in Seq(S) BY <1>1 DEF cd
  <2>2. (a \o b) \o cd = a \o (b \o cd) BY <2>1, ConcatAssociative, SMTT(30), ZenonT(30)
  <2> QED BY <2>2 DEF cd
<1> QED BY <1>2, <1>3

(* The queues are sequences of packets, and so is everything in flight.     *)
LEMMA Pipes == IInv => /\ InFlight \in Seq(Packets)
                       /\ dgq \in Seq(Packets) /\ txq \in Seq(Packets) /\ chan \in Seq(Packets)
                       /\ held \in Seq(Packets) /\ sent \in Seq(Packets)
                       /\ InFlight = dgq \o (txq \o (chan \o held))
                       /\ txq \o (chan \o held) \in Seq(Packets)
                       /\ chan \o held \in Seq(Packets)
<1> SUFFICES ASSUME IInv PROVE
        /\ InFlight \in Seq(Packets)
        /\ dgq \in Seq(Packets) /\ txq \in Seq(Packets) /\ chan \in Seq(Packets)
        /\ held \in Seq(Packets) /\ sent \in Seq(Packets)
        /\ InFlight = dgq \o (txq \o (chan \o held))
        /\ txq \o (chan \o held) \in Seq(Packets)
        /\ chan \o held \in Seq(Packets)
  OBVIOUS
<1>1. /\ dgq \in Seq(Packets) /\ txq \in Seq(Packets) /\ chan \in Seq(Packets)
      /\ held \in Seq(Packets) /\ sent \in Seq(Packets)
  BY DEF IInv, TypeOK
<1>2. /\ dgq \o txq \in Seq(Packets) /\ chan \o held \in Seq(Packets)
  BY <1>1, ConcatProperties
<1>3. /\ (dgq \o txq) \o chan \in Seq(Packets) /\ txq \o (chan \o held) \in Seq(Packets)
  BY <1>1, <1>2, ConcatProperties
<1>4. InFlight \in Seq(Packets)
  BY <1>1, <1>3, ConcatProperties DEF InFlight
<1>5. ((dgq \o txq) \o chan) \o held = dgq \o (txq \o (chan \o held))
  <2>1. \A b, c, d \in Seq(Packets) : ((dgq \o b) \o c) \o d = dgq \o (b \o (c \o d))
    BY <1>1, Regroup, Zenon
  <2>2. \A c, d \in Seq(Packets) : ((dgq \o txq) \o c) \o d = dgq \o (txq \o (c \o d))
    BY <1>1, <2>1, Zenon
  <2>3. \A d \in Seq(Packets) : ((dgq \o txq) \o chan) \o d = dgq \o (txq \o (chan \o d))
    BY <1>1, <2>2, Zenon
  <2> QED BY <1>1, <2>3, Zenon
<1> QED BY <1>1, <1>2, <1>3, <1>4, <1>5 DEF InFlight

(* The same after a step, when the queues are still sequences of packets.    *)
LEMMA PipesAfter ==
    ASSUME dgq' \in Seq(Packets), txq' \in Seq(Packets), chan' \in Seq(Packets), held' \in Seq(Packets)
    PROVE  InFlight' = dgq' \o (txq' \o (chan' \o held'))
<1>1. \A b, c, d \in Seq(Packets) : ((dgq' \o b) \o c) \o d = dgq' \o (b \o (c \o d))
  BY Regroup, Zenon
<1>2. \A c, d \in Seq(Packets) : ((dgq' \o txq') \o c) \o d = dgq' \o (txq' \o (c \o d))
  BY <1>1, Zenon
<1>3. \A d \in Seq(Packets) : ((dgq' \o txq') \o chan') \o d = dgq' \o (txq' \o (chan' \o d))
  BY <1>2, Zenon
<1>4. ((dgq' \o txq') \o chan') \o held' = dgq' \o (txq' \o (chan' \o held'))
  BY <1>3, Zenon
<1> QED BY <1>4 DEF InFlight

(* A flush hands over a prefix of the pipeline.                             *)
LEMMA FlushHandsOver ==
    ASSUME IInv, NEW w \in 0 .. Cwnd, Flush(w), UNCHANGED <<read, txq, chan, held>>
    PROVE  \E k \in 0 .. Len(InFlight) : HandsOver(k)
<1> DEFINE rest == txq \o (chan \o held)
<1>1. /\ dgq \in Seq(Packets) /\ sent \in Seq(Packets) /\ rest \in Seq(Packets)
      /\ InFlight = dgq \o rest
  BY Pipes
<1>2. PICK k \in 0 .. Len(dgq) : /\ sent' = sent \o SubSeq(dgq, 1, k)
                                 /\ dgq' = SubSeq(dgq, k + 1, Len(dgq)) /\ dgq' \in Seq(Packets)
  BY <1>1, FlushStep
<1>3. /\ SubSeq(InFlight, 1, k) = SubSeq(dgq, 1, k)
      /\ SubSeq(InFlight, k + 1, Len(InFlight)) = dgq' \o rest
      /\ k \in 0 .. Len(InFlight)
  BY <1>1, <1>2, TakePrefix
<1>4. InFlight' = dgq' \o rest
  <2>1. txq \in Seq(Packets) /\ chan \in Seq(Packets) /\ held \in Seq(Packets)
    BY Pipes
  <2>2. InFlight' = dgq' \o (txq' \o (chan' \o held'))
    BY <1>2, <2>1, PipesAfter
  <2> QED BY <2>2
<1> QED BY <1>2, <1>3, <1>4 DEF HandsOver

(* Moving an item from the head of one queue to the tail of the queue ahead *)
(* of it leaves the concatenation as it was.                                *)
LEMMA ShiftWithin ==
    ASSUME NEW S, NEW a \in Seq(S), NEW b \in Seq(S), NEW c \in Seq(S), b # <<>>
    PROVE  Append(a, Head(b)) \o (Tail(b) \o c) = a \o (b \o c)
<1> DEFINE x == Append(a, Head(b))
           y == Tail(b)
<1>0. x \in Seq(S) /\ y \in Seq(S)
  BY HeadTailProperties, AppendProperties
<1>1. x \o y = a \o b
  BY Shift
<1> HIDE DEF x, y
<1>2. (x \o y) \o c = x \o (y \o c)
  BY <1>0, ConcatAssociative, SMTT(30)
<1>3. (a \o b) \o c = a \o (b \o c)
  BY ConcatAssociative
<1>4. x \o (y \o c) = a \o (b \o c)
  BY <1>1, <1>2, <1>3
<1> QED BY <1>4 DEF x, y

(* The head and the tail of a concatenation whose first part is not empty.  *)
LEMMA HeadTailOfConcat ==
    ASSUME NEW S, NEW b \in Seq(S), NEW c \in Seq(S), b # <<>>
    PROVE  b \o c # <<>> /\ Head(b \o c) = Head(b) /\ Tail(b \o c) = Tail(b) \o c
<1> DEFINE bc == b \o c
           t == Tail(b)
<1>1. /\ Len(b) \in Nat /\ Len(b) > 0 /\ Len(c) \in Nat /\ bc \in Seq(S)
      /\ Len(bc) = Len(b) + Len(c)
      /\ \A i \in 1 .. Len(b) + Len(c) : bc[i] = IF i <= Len(b) THEN b[i] ELSE c[i - Len(b)]
  BY ConcatProperties, LenProperties, EmptySeq
<1>2. bc # <<>>
  BY <1>1, EmptySeq
<1>3. /\ t \in Seq(S) /\ Len(t) = Len(b) - 1 /\ \A i \in 1 .. Len(t) : t[i] = b[i + 1]
  BY HeadTailProperties
<1>4. Head(bc) = Head(b)
  BY <1>1
<1> HIDE DEF bc, t
<1>5. /\ Tail(bc) \in Seq(S) /\ Len(Tail(bc)) = Len(bc) - 1
      /\ \A i \in 1 .. Len(Tail(bc)) : Tail(bc)[i] = bc[i + 1]
  BY <1>1, <1>2, HeadTailProperties
<1>6. /\ t \o c \in Seq(S) /\ Len(t \o c) = Len(t) + Len(c)
      /\ \A i \in 1 .. Len(t) + Len(c) : (t \o c)[i] = IF i <= Len(t) THEN t[i] ELSE c[i - Len(t)]
  BY <1>3, ConcatProperties
<1>7. Tail(bc) = t \o c
  <2> DEFINE l == Tail(bc)
             r == t \o c
  <2>1. l \in Seq(S) /\ r \in Seq(S) /\ Len(l) = Len(r) /\ Len(l) = Len(b) + Len(c) - 1
    BY <1>1, <1>3, <1>5, <1>6
  <2>2. ASSUME NEW i \in 1 .. Len(l) PROVE l[i] = r[i]
    <3>1. i \in 1 .. Len(t) + Len(c) /\ i + 1 \in 1 .. Len(b) + Len(c) /\ i \in Nat
      BY <1>1, <1>3, <2>1
    <3>2. l[i] = bc[i + 1]
      BY <1>5
    <3>3. CASE i <= Len(t)
      <4>1. i + 1 <= Len(b) /\ i \in 1 .. Len(t)
        BY <1>1, <1>3, <3>1, <3>3
      <4> QED BY <1>1, <1>3, <1>6, <3>1, <3>2, <3>3, <4>1
    <3>4. CASE ~(i <= Len(t))
      <4>1. ~(i + 1 <= Len(b)) /\ (i + 1) - Len(b) = i - Len(t)
        BY <1>1, <1>3, <3>1, <3>4
      <4>2. bc[i + 1] = c[(i + 1) - Len(b)]
        BY <1>1, <3>1, <4>1
      <4>3. r[i] = c[i - Len(t)]
        BY <1>6, <3>1, <3>4
      <4> QED BY <3>2, <4>1, <4>2, <4>3
    <3> QED BY <3>3, <3>4
  <2> HIDE DEF l, r
  <2>3. l = r
    BY <2>1, <2>2, SeqEqual
  <2> QED BY <2>3 DEF l, r
<1> QED BY <1>2, <1>4, <1>7 DEF bc, t

-----------------------------------------------------------------------------
(* Each action of the specification, seen from the pipeline.                *)
Within == Steady \/ Accepts \/ Delivers \/ Drops

Ends == read' = read /\ \E k \in 0 .. Len(InFlight) : sent' = sent \o SubSeq(InFlight, 1, k)

Lingers == sent' = sent /\ read' \in {read, read + 1}

PipelineStep ==
    /\ mpc # "ended" /\ mpc' # "ended" => Within
    /\ mpc # "ended" /\ mpc' = "ended" => Ends
    /\ mpc = "ended" => mpc' = "ended" /\ Lingers

(* A step that touches none of the queues leaves everything in flight alone. *)
LEMMA UnchangedQueues ==
    UNCHANGED <<held, chan, txq, dgq, sent, read, dropped>> => Steady
BY DEF Steady, InFlight

(* The reader task accepts one packet at the far end, or moves the one it   *)
(* holds into the channel.                                                  *)
LEMMA ReaderPipeline ==
    ASSUME IInv, IInv',
           Reader \/ ReadPacket \/ ReadInvalid \/ ReaderEof \/ ReaderAborted
    PROVE  PipelineStep
<1>1. UNCHANGED <<mpc, txq, dgq, sent, dropped>>
  BY DEF Reader, TakeBuffer, ReadPacket, ReadInvalid, SendToChannel, ReaderEof, ReaderAborted,
         readerOnly, stageVars, quicVars, netVars
<1>2. CASE TakeBuffer \/ ReadInvalid \/ ReaderEof
  <2>1. UNCHANGED <<held, chan, read>>
    BY <1>2 DEF TakeBuffer, ReadInvalid, ReaderEof, readerOnly
  <2> QED BY <1>1, <2>1, UnchangedQueues DEF PipelineStep, Within, Lingers
<1>3. CASE ReaderAborted
  <2>1. mpc = "ended" /\ read' = read
    BY <1>3 DEF ReaderAborted
  <2> QED BY <1>1, <2>1 DEF PipelineStep, Lingers
<1>4. CASE ReadPacket
  <2>1. held = <<>> /\ held' = <<read'>> /\ chan' = chan /\ read' = read + 1 /\ read' \in Packets
    BY <1>4 DEF ReadPacket, readerOnly, IInv, HeldInv
  <2> DEFINE x == (dgq \o txq) \o chan
  <2>2. x \in Seq(Packets)
    <3>1. dgq \o txq \in Seq(Packets) /\ chan \in Seq(Packets)
      BY Pipes, ConcatProperties
    <3> QED BY <3>1, ConcatProperties
  <2>3. InFlight = x \o <<>> /\ InFlight' = x \o <<read'>>
    BY <1>1, <2>1 DEF InFlight
  <2> HIDE DEF x
  <2>4. x \o <<>> = x
    BY <2>2, ConcatEmptySeq
  <2>5. x \o <<read'>> = Append(x, read')
    BY <2>1, <2>2, SeqSteps
  <2>6. Accepts
    BY <1>1, <2>1, <2>3, <2>4, <2>5 DEF Accepts
  <2> QED BY <1>1, <2>1, <2>6 DEF PipelineStep, Within, Lingers
<1>5. CASE SendToChannel
  <2>1. held' = <<>> /\ chan' = chan \o held /\ read' = read
    BY <1>5 DEF SendToChannel
  <2>2. dgq' \in Seq(Packets) /\ txq' \in Seq(Packets) /\ chan' \in Seq(Packets) /\ held' \in Seq(Packets)
    BY DEF IInv, TypeOK
  <2>3. InFlight' = dgq \o (txq \o (chan' \o <<>>))
    BY <1>1, <2>1, <2>2, PipesAfter
  <2>4. chan' \o <<>> = chan'
    BY <2>2, ConcatEmptySeq
  <2>5. InFlight = dgq \o (txq \o (chan \o held))
    BY Pipes
  <2>6. Steady
    BY <1>1, <2>1, <2>3, <2>4, <2>5 DEF Steady
  <2> QED BY <1>1, <2>1, <2>6 DEF PipelineStep, Within, Lingers
<1> QED BY <1>2, <1>3, <1>4, <1>5 DEF Reader

(* Channel to tx_queue: the order is kept.                                  *)
LEMMA CollectPipeline ==
    ASSUME IInv, IInv', CollectOne \/ SelectPacket PROVE PipelineStep
<1>1. UNCHANGED <<held, dgq, sent, read, dropped>> /\ mpc # "ended" /\ mpc' # "ended"
  BY DEF CollectOne, SelectPacket, pumpOnly, quicVars
<1>2. CASE UNCHANGED <<txq, chan>>
  BY <1>1, <1>2, UnchangedQueues DEF PipelineStep, Within
<1>3. CASE chan # <<>> /\ txq' = Append(txq, Head(chan)) /\ chan' = Tail(chan)
  <2>1. dgq' \in Seq(Packets) /\ txq' \in Seq(Packets) /\ chan' \in Seq(Packets) /\ held' \in Seq(Packets)
    BY DEF IInv, TypeOK
  <2>2. InFlight' = dgq \o (Append(txq, Head(chan)) \o (Tail(chan) \o held))
    BY <1>1, <1>3, <2>1, PipesAfter
  <2>3. Append(txq, Head(chan)) \o (Tail(chan) \o held) = txq \o (chan \o held)
    <3>1. txq \in Seq(Packets) /\ chan \in Seq(Packets) /\ held \in Seq(Packets)
      BY Pipes
    <3> QED BY <1>3, <3>1, ShiftWithin, SMTT(30)
  <2>4. InFlight = dgq \o (txq \o (chan \o held))
    BY Pipes
  <2> QED BY <1>1, <2>2, <2>3, <2>4 DEF PipelineStep, Within, Steady
<1> QED BY <1>2, <1>3 DEF CollectOne, SelectPacket

(* tx_queue to the DATAGRAM queue: an item moves, stays, or is dropped.     *)
LEMMA QueuePipeline ==
    ASSUME IInv, IInv', QueueDrops \/ QueueSends PROVE PipelineStep
<1> DEFINE rest == chan \o held
<1>1. UNCHANGED <<held, chan, sent, read>> /\ mpc # "ended" /\ mpc' # "ended" /\ txq # <<>>
      /\ txq' = Tail(txq)
  BY DEF QueueDrops, QueueSends, queueOnly, pumpOnly, Queueing
<1>2. dgq' \in Seq(Packets) /\ txq' \in Seq(Packets) /\ chan' \in Seq(Packets) /\ held' \in Seq(Packets)
  BY DEF IInv, TypeOK
<1>3. InFlight' = dgq' \o (Tail(txq) \o rest)
  BY <1>1, <1>2, PipesAfter
<1>4. dgq \in Seq(Packets) /\ txq \in Seq(Packets) /\ rest \in Seq(Packets) /\ txq \o rest \in Seq(Packets)
  BY Pipes
<1>5. InFlight = dgq \o (txq \o rest)
  BY Pipes
<1> HIDE DEF rest
<1>6. CASE QueueSends
  <2>1. dgq' = Append(dgq, Head(txq)) /\ dropped' = dropped
    BY <1>6 DEF QueueSends
  <2>2. Append(dgq, Head(txq)) \o (Tail(txq) \o rest) = dgq \o (txq \o rest)
    BY <1>1, <1>4, ShiftWithin, SMTT(30)
  <2> QED BY <1>1, <1>3, <1>5, <2>1, <2>2 DEF PipelineStep, Within, Steady
<1>7. CASE QueueDrops
  <2> DEFINE b == txq \o rest
             i == Len(dgq) + 1
  <2>1. dgq' = dgq /\ dropped' = dropped \union {Head(txq)}
    BY <1>7 DEF QueueDrops
  <2>2. b # <<>> /\ Head(b) = Head(txq) /\ Tail(b) = Tail(txq) \o rest
    BY <1>1, <1>4, HeadTailOfConcat
  <2>3. b \in Seq(Packets)
    BY <1>4
  <2> HIDE DEF b
  <2>4. /\ i \in 1 .. Len(dgq \o b) /\ (dgq \o b)[i] = Head(b)
        /\ RemoveAt(dgq \o b, i) = dgq \o Tail(b)
    BY <1>4, <2>2, <2>3, DropMiddle
  <2>5. InFlight = dgq \o b
    BY <1>5 DEF b
  <2> HIDE DEF i
  <2>6. i \in 1 .. Len(InFlight) /\ InFlight[i] = Head(txq) /\ InFlight' = RemoveAt(InFlight, i)
    BY <1>3, <2>1, <2>2, <2>4, <2>5
  <2>7. Drops
    BY <1>1, <2>1, <2>6 DEF Drops
  <2> QED BY <1>1, <2>7 DEF PipelineStep, Within
<1> QED BY <1>6, <1>7

(* The actions that flush, and those that end the loop.                     *)
LEMMA FlushPipeline ==
    ASSUME IInv, Receive \/ Control \/ SelectTimer \/ LoopFails PROVE PipelineStep
<1>1. UNCHANGED <<held, chan, txq, read, dropped>> /\ mpc # "ended"
  BY DEF Receive, Control, SelectTimer, LoopFails, pumpOnly
<1>2. (\E w \in 0 .. Cwnd : Flush(w)) \/ UNCHANGED <<dgq, credit, sent>>
  <2>1. credit \in 0 .. Cwnd /\ AckedCredit \in 0 .. Cwnd
    BY Sizes DEF IInv, TypeOK, AckedCredit
  <2>2. CASE Receive BY <2>1, <2>2 DEF Receive
  <2>3. CASE Control BY <2>1, <2>3 DEF Control
  <2>4. CASE SelectTimer BY <2>1, <2>4 DEF SelectTimer
  <2>5. CASE LoopFails BY <2>5 DEF LoopFails, quicVars
  <2> QED BY <2>2, <2>3, <2>4, <2>5
<1>3. CASE \E w \in 0 .. Cwnd : Flush(w)
  <2>1. \E k \in 0 .. Len(InFlight) : HandsOver(k)
    BY <1>1, <1>3, FlushHandsOver
  <2>2. Delivers
    BY <1>1, <2>1 DEF Delivers
  <2>3. Ends
    BY <1>1, <2>1 DEF Ends, HandsOver
  <2> QED BY <1>1, <2>2, <2>3 DEF PipelineStep, Within
<1>4. CASE UNCHANGED <<dgq, credit, sent>>
  <2>1. Steady
    BY <1>1, <1>4, UnchangedQueues
  <2>2. Ends
    <3>1. Len(InFlight) \in Nat /\ sent \in Seq(Packets)
      BY Pipes, SeqSteps
    <3>2. SubSeq(InFlight, 1, 0) = <<>>
      BY SubSeqEmpty
    <3>3. sent \o <<>> = sent
      BY <3>1, ConcatEmptySeq
    <3>4. 0 \in 0 .. Len(InFlight) /\ sent' = sent \o SubSeq(InFlight, 1, 0)
      BY <1>4, <3>1, <3>2, <3>3
    <3> QED BY <1>1, <3>4 DEF Ends
  <2> QED BY <1>1, <2>1, <2>2 DEF PipelineStep, Within
<1> QED BY <1>2, <1>3, <1>4

(* The steps of the network and of the clock move no packet.                *)
LEMMA OtherPipeline ==
    ASSUME \/ PeerAcks \/ PeerSends \/ PeerEnds \/ \E t \in Timers : TimerExpires(t)
           \/ Deliver \/ CollectDone \/ QueueFull \/ QueueDone \/ SelectReadable \/ UNCHANGED vars
    PROVE  PipelineStep
<1>1. UNCHANGED <<held, chan, txq, dgq, sent, read, dropped>>
  BY DEF PeerAcks, PeerSends, PeerEnds, TimerExpires, Deliver, CollectDone, QueueFull, QueueDone,
         SelectReadable, netOnly, readerVars, stageVars, quicVars, pumpOnly, queueOnly, vars
<1>2. mpc' = mpc \/ (mpc # "ended" /\ mpc' # "ended")
  BY DEF PeerAcks, PeerSends, PeerEnds, TimerExpires, Deliver, CollectDone, QueueFull, QueueDone,
         SelectReadable, netOnly, queueOnly, vars
<1> QED BY <1>1, <1>2, UnchangedQueues DEF PipelineStep, Within, Lingers

(* Every step is one of the few things that can happen to the pipeline.     *)
LEMMA EveryStep == IInv /\ IInv' /\ [Next]_vars => PipelineStep
BY ReaderPipeline, CollectPipeline, QueuePipeline, FlushPipeline, OtherPipeline
DEF Next, Pump, Select

-----------------------------------------------------------------------------
(* Every step of the pump is a step of the lossy FIFO, or a stutter.        *)
LEMMA StepImplementsFifo == IInv /\ IInv' /\ [Next]_vars => [Fifo!Next]_(Fifo!vars)
<1> SUFFICES ASSUME IInv, IInv', [Next]_vars PROVE Fifo!Next \/ UNCHANGED Fifo!vars
  OBVIOUS
<1>1. PipelineStep
  BY EveryStep
<1>2. CASE mpc # "ended" /\ mpc' # "ended"
  <2>0. /\ (IF mpc = "ended" THEN <<>> ELSE InFlight) = InFlight
        /\ (IF mpc' = "ended" THEN <<>> ELSE InFlight') = InFlight'
    BY <1>2
  <2>1. CASE Steady
    BY <1>2, <2>1 DEF Steady, Fifo!vars
  <2>2. CASE Accepts
    BY <1>2, <2>2 DEF Accepts, Fifo!Next, Fifo!Accept
  <2>3. CASE Delivers
    <3>1. PICK k \in 0 .. Len(InFlight) : HandsOver(k)
      BY <2>3 DEF Delivers
    <3>2. CASE k = 0
      <4>1. InFlight \in Seq(Packets) /\ sent \in Seq(Packets)
        BY Pipes
      <4>2. SubSeq(InFlight, 1, 0) = <<>> /\ sent \o <<>> = sent
            /\ SubSeq(InFlight, 1, Len(InFlight)) = InFlight
        BY <4>1, SubSeqEmpty, ConcatEmptySeq, SubSeqFull
      <4>3. k = 0 /\ k + 1 = 1
        BY <3>2
      <4>4. SubSeq(InFlight, 1, k) = <<>> /\ SubSeq(InFlight, k + 1, Len(InFlight)) = InFlight
        BY <4>2, <4>3
      <4>5. UNCHANGED <<read, sent>> /\ InFlight' = InFlight
        BY <2>3, <3>1, <4>2, <4>4 DEF Delivers, HandsOver
      <4> QED BY <1>2, <4>5 DEF Fifo!vars
    <3>3. CASE k # 0
      <4>1. k \in 1 .. Len(InFlight)
        BY <3>3
      <4>2. \E j \in 1 .. Len(InFlight) : HandsOver(j)
        BY <3>1, <4>1
      <4>3. Fifo!Deliver
        BY <1>2, <2>0, <2>3, <4>2 DEF Delivers, HandsOver, Fifo!Deliver
      <4> QED BY <4>3 DEF Fifo!Next
    <3> QED BY <3>2, <3>3
  <2>4. CASE Drops
    <3>1. Fifo!Drop
      BY <1>2, <2>0, <2>4 DEF Drops, Fifo!Drop, Fifo!RemoveAt, RemoveAt
    <3> QED BY <3>1 DEF Fifo!Next
  <2> QED BY <1>1, <1>2, <2>1, <2>2, <2>3, <2>4 DEF PipelineStep, Within
<1>3. CASE mpc # "ended" /\ mpc' = "ended"
  BY <1>1, <1>3 DEF PipelineStep, Ends, Fifo!Next, Fifo!End
<1>4. CASE mpc = "ended"
  <2>1. mpc' = "ended" /\ Lingers
    BY <1>1, <1>4 DEF PipelineStep
  <2> QED BY <1>4, <2>1 DEF Lingers, Fifo!Next, Fifo!AcceptTooLate, Fifo!vars
<1> QED BY <1>2, <1>3, <1>4

(* The pump is a lossy FIFO: whatever the bursts, the backpressure, the       *)
(* drops and the end of the session, packets leave in the order the reader   *)
(* took them, each at most once.                                            *)
THEOREM ImplementsFifo == Spec => FifoSpec
<1>1. Init => Fifo!Init
  <2> SUFFICES ASSUME Init PROVE Fifo!Init
    OBVIOUS
  <2>1. ((<<>> \o <<>>) \o <<>>) \o <<>> = <<>>
    BY ConcatEmptySeq, EmptySeq
  <2>2. InFlight = <<>>
    BY <2>1 DEF Init, InFlight
  <2> QED BY <2>2 DEF Init, Fifo!Init
<1> QED BY <1>1, StepImplementsFifo, InductiveInvariant, PTL DEF Spec, FifoSpec, Fifo!Spec

-----------------------------------------------------------------------------
(* The packets of a queue.                                                  *)
LEMMA ToSetConcat ==
    ASSUME NEW S, NEW a \in Seq(S), NEW b \in Seq(S)
    PROVE  ToSet(a \o b) = ToSet(a) \union ToSet(b)
<1> DEFINE c == a \o b
<1>1. ToSet(a) = Range(a) /\ ToSet(b) = Range(b)
  BY DEF ToSet, Range
<1>2. Range(c) = Range(a) \union Range(b)
  BY RangeConcatenation
<1> HIDE DEF c
<1>3. ToSet(c) = Range(c)
  BY DEF ToSet, Range
<1>4. ToSet(c) = ToSet(a) \union ToSet(b)
  BY <1>1, <1>2, <1>3
<1> QED BY <1>4 DEF c

(* The members of a sequence with one more item.                            *)
LEMMA ToSetAppend ==
    ASSUME NEW S, NEW a \in Seq(S), NEW e \in S
    PROVE  ToSet(Append(a, e)) = ToSet(a) \union {e}
<1>1. <<e>> \in Seq(S) /\ ToSet(<<e>>) = {e}
  BY DEF ToSet
<1>2. Append(a, e) = a \o <<e>>
  BY AppendIsConcat
<1>3. ToSet(a \o <<e>>) = ToSet(a) \union ToSet(<<e>>)
  BY <1>1, ToSetConcat, SMTT(30), ZenonT(30)
<1> QED BY <1>1, <1>2, <1>3, Zenon

(* The members of a sequence are those of its prefix and of its rest.       *)
LEMMA ToSetSplit ==
    ASSUME NEW S, NEW q \in Seq(S), NEW k \in 0 .. Len(q)
    PROVE  ToSet(q) = ToSet(SubSeq(q, 1, k)) \union ToSet(SubSeq(q, k + 1, Len(q)))
<1>1. Len(q) \in Nat
  BY LenProperties
<1>2. SubSeq(q, 1, k) \o SubSeq(q, k + 1, Len(q)) = q
  <2>1. 1 \in 1 .. Len(q) + 1 /\ k \in 1 - 1 .. Len(q) /\ Len(q) \in k .. Len(q)
    BY <1>1
  <2> QED BY <2>1, ConcatAdjacentSubSeq, SubSeqFull
<1> DEFINE x == SubSeq(q, 1, k)
           y == SubSeq(q, k + 1, Len(q))
<1>3. x \in Seq(S) /\ y \in Seq(S)
  BY Prefix
<1>4. x \o y = q
  BY <1>2
<1> HIDE DEF x, y
<1>5. ToSet(x \o y) = ToSet(x) \union ToSet(y)
  BY <1>3, ToSetConcat
<1>6. ToSet(q) = ToSet(x) \union ToSet(y)
  BY <1>4, <1>5
<1> QED BY <1>6 DEF x, y

(* Removing an item removes at most that item from the members.             *)
LEMMA ToSetRemove ==
    ASSUME NEW S, NEW q \in Seq(S), NEW i \in 1 .. Len(q)
    PROVE  ToSet(q) = ToSet(RemoveAt(q, i)) \union {q[i]}
<1> DEFINE a == SubSeq(q, 1, i - 1)
           b == SubSeq(q, i + 1, Len(q))
<1>1. Len(q) \in Nat /\ i - 1 \in 0 .. Len(q) /\ i \in 0 .. Len(q) /\ (i - 1) + 1 = i /\ i \in i .. Len(q)
  BY LenProperties
<1>2. a \in Seq(S) /\ b \in Seq(S) /\ SubSeq(q, i, Len(q)) \in Seq(S) /\ <<q[i]>> \in Seq(S)
  <2>1. a \in Seq(S) /\ SubSeq(q, (i - 1) + 1, Len(q)) \in Seq(S)
    BY <1>1, Prefix
  <2>2. b \in Seq(S)
    BY <1>1, Prefix
  <2>3. q[i] \in S
    BY ElementOfSeq
  <2> QED BY <1>1, <2>1, <2>2, <2>3
<1>3. SubSeq(q, i, Len(q)) = <<q[i]>> \o b
  BY <1>1, SubSeqRecursiveFirst
<1>4. ToSet(q) = ToSet(a) \union ToSet(SubSeq(q, i, Len(q)))
  BY <1>1, ToSetSplit
<1>5. ToSet(<<q[i]>>) = {q[i]}
  BY DEF ToSet
<1>6. ToSet(<<q[i]>> \o b) = {q[i]} \union ToSet(b)
  <2> DEFINE x == <<q[i]>>
  <2>1. x \in Seq(S) /\ b \in Seq(S)
    BY <1>2
  <2> HIDE DEF x, b
  <2>2. ToSet(x \o b) = ToSet(x) \union ToSet(b)
    BY <2>1, ToSetConcat
  <2> QED BY <1>5, <2>2 DEF x
<1>7. ToSet(RemoveAt(q, i)) = ToSet(a) \union ToSet(b)
  BY <1>2, ToSetConcat, ZenonT(60) DEF RemoveAt
<1> QED BY <1>3, <1>4, <1>6, <1>7

(* No step loses a packet without adding it to the dropped ones.            *)
LEMMA StepAccounts == IInv /\ IInv' /\ EveryPacketAccounted /\ [Next]_vars => EveryPacketAccounted'
<1> SUFFICES ASSUME IInv, IInv', EveryPacketAccounted, [Next]_vars, mpc' # "ended"
             PROVE  1 .. read' = dropped' \union ToSet(sent') \union ToSet(InFlight')
  BY DEF EveryPacketAccounted
<1>1. mpc # "ended" /\ Within
  BY EveryStep DEF PipelineStep
<1>2. 1 .. read = dropped \union ToSet(sent) \union ToSet(InFlight)
  BY <1>1 DEF EveryPacketAccounted
<1>3. InFlight \in Seq(Packets) /\ sent \in Seq(Packets)
  BY Pipes
<1>4. CASE Steady
  BY <1>2, <1>4 DEF Steady
<1>5. CASE Accepts
  <2>1. read \in Nat /\ read' \in Packets /\ read' = read + 1
    BY <1>5, Sizes DEF IInv, TypeOK, Accepts, Packets
  <2>2. ToSet(InFlight') = ToSet(InFlight) \union {read'}
    BY <1>3, <1>5, <2>1, ToSetAppend DEF Accepts
  <2>3. 1 .. read' = (1 .. read) \union {read'}
    BY <2>1
  <2> QED BY <1>2, <1>5, <2>2, <2>3 DEF Accepts
<1>6. CASE Delivers
  <2>1. PICK k \in 0 .. Len(InFlight) : HandsOver(k)
    BY <1>6 DEF Delivers
  <2>2. ToSet(InFlight) = ToSet(SubSeq(InFlight, 1, k)) \union ToSet(InFlight')
    BY <1>3, <2>1, ToSetSplit DEF HandsOver
  <2>3. ToSet(sent') = ToSet(sent) \union ToSet(SubSeq(InFlight, 1, k))
    <3> DEFINE p == SubSeq(InFlight, 1, k)
    <3>1. p \in Seq(Packets)
      BY <1>3, Prefix
    <3>2. sent' = sent \o p
      BY <2>1 DEF HandsOver
    <3> HIDE DEF p
    <3>3. ToSet(sent \o p) = ToSet(sent) \union ToSet(p)
      BY <1>3, <3>1, ToSetConcat
    <3> QED BY <3>2, <3>3 DEF p
  <2> QED BY <1>2, <1>6, <2>2, <2>3 DEF Delivers
<1>7. CASE Drops
  <2>1. PICK i \in 1 .. Len(InFlight) : /\ InFlight' = RemoveAt(InFlight, i)
                                        /\ dropped' = dropped \union {InFlight[i]}
    BY <1>7 DEF Drops
  <2>2. ToSet(InFlight) = ToSet(InFlight') \union {InFlight[i]}
    BY <1>3, <2>1, ToSetRemove
  <2> QED BY <1>2, <1>7, <2>1, <2>2 DEF Drops
<1> QED BY <1>1, <1>4, <1>5, <1>6, <1>7 DEF Within

(* While the loop runs, a packet the reader took is on the wire, in a queue, *)
(* or counted as dropped: backpressure loses none.                          *)
THEOREM Accounted == Spec => []EveryPacketAccounted
<1>1. Init => EveryPacketAccounted
  <2> SUFFICES ASSUME Init PROVE 1 .. read = dropped \union ToSet(sent) \union ToSet(InFlight)
    BY DEF EveryPacketAccounted
  <2>1. ((<<>> \o <<>>) \o <<>>) \o <<>> = <<>>
    BY ConcatEmptySeq, EmptySeq
  <2>2. ToSet(<<>>) = {}
    BY DEF ToSet
  <2>3. InFlight = <<>> /\ sent = <<>> /\ dropped = {} /\ read = 0
    BY <2>1 DEF Init, InFlight
  <2>4. 1 .. 0 = {}
    OBVIOUS
  <2> QED BY <2>2, <2>3, <2>4
<1> QED BY <1>1, StepAccounts, InductiveInvariant, PTL DEF Spec

=============================================================================
