------------------------------ MODULE UdpBatch ------------------------------
(***************************************************************************)
(* UdpBatchIo (udp.rs, on FreeBSD): flush_quic batches the datagrams quiche  *)
(* produces, waits for their pacing deadlines and hands them to sendmmsg;   *)
(* drain_quic empties the socket with recvmmsg.  Both go through Tokio's    *)
(* try_io, which calls the kernel only while the socket is marked ready and  *)
(* clears the mark when the kernel has EAGAIN for it.  The array tx_lens is  *)
(* used in both directions.  A datagram is its size; time is counted.       *)
(***************************************************************************)
EXTENDS Naturals, SequencesExt, Keeping

CONSTANTS
    BatchSize,      \* udp_batch_size after clamp(1, MAX_UDP_BATCH_SIZE)
    BufferSize,     \* datagram_size: what a buffer holds
    ArrivalSizes,   \* sizes of datagrams that arrive; 0 is an empty one
    SendSpace,      \* datagrams the socket's send buffer holds
    MaxDatagrams,   \* bound: datagrams quiche produces
    MaxArrivals,    \* bound: datagrams that arrive
    MaxTime         \* bound: the clock

ASSUME UdpBatchConfig ==
    /\ {BatchSize, BufferSize, SendSpace} \subseteq Nat \ {0}
    /\ ArrivalSizes \subseteq Nat
    /\ {MaxDatagrams, MaxArrivals, MaxTime} \subseteq Nat

VARIABLES
    pc,             \* where the task is
    now,            \* Instant::now()
    made,           \* datagrams quiche produced: size and send_info.at
    tx_buffers, tx_lens, tx_at,     \* by slot; a buffer holds the index in made
    batch,          \* count, drained, start, sent, end of the current batch
    space,          \* free places in the kernel's send buffer
    writable,       \* Tokio has the socket marked writable
    wire,           \* datagrams the kernel took
    arrived, taken, \* datagrams that arrived, and how many recvmmsg took
    readable,       \* Tokio has the socket marked readable
    got             \* sizes given to conn.recv

task == <<pc, batch, tx_buffers, tx_lens, tx_at>>
kernel == <<space, wire, arrived, taken, got>>
ready == <<writable, readable>>
vars == <<task, kernel, ready, now, made>>

Slots == 1 .. BatchSize

Empty == [count |-> 0, drained |-> FALSE, start |-> 1, sent |-> 1, end |-> 1]

Init ==
    /\ pc = "wait" /\ now = 0 /\ made = <<>>
    /\ tx_buffers = [i \in Slots |-> 0]
    /\ tx_lens = [i \in Slots |-> 0]
    /\ tx_at = [i \in Slots |-> 0]
    /\ batch = Empty
    /\ space = SendSpace /\ wire = <<>>
    /\ arrived = <<>> /\ taken = 0 /\ got = <<>>
    /\ writable = TRUE /\ readable = FALSE

-----------------------------------------------------------------------------
(* The clock and the kernel.                                                *)

Tick == now < MaxTime /\ now' = now + 1 /\ UNCHANGED <<task, kernel, ready, made>>

(* A datagram leaves the send buffer: the socket becomes writable.          *)
Transmit ==
    /\ space < SendSpace
    /\ space' = space + 1 /\ writable' = TRUE
    /\ UNCHANGED <<task, wire, arrived, taken, got, readable, now, made>>

Arrive ==
    /\ Len(arrived) < MaxArrivals
    /\ \E size \in ArrivalSizes : arrived' = Append(arrived, size)
    /\ readable' = TRUE
    /\ UNCHANGED <<task, space, wire, taken, got, writable, now, made>>

-----------------------------------------------------------------------------
(* drain_quic.                                                              *)

(* select! of the caller: the socket is readable, or a timer or a packet of  *)
(* the TUN device wakes it; either way it drains and then flushes.          *)
Wake ==
    /\ pc = "wait"
    /\ readable \/ Len(made) < MaxDatagrams
    /\ pc' = "receive"
    /\ UNCHANGED <<batch, tx_buffers, tx_lens, tx_at, kernel, ready, now, made>>

(* Mutant of Length: a truncated datagram is cut to the buffer.             *)
LengthTruncated(size) == IF size > BufferSize THEN BufferSize ELSE size

(* recvmmsg_nonblocking: MSG_TRUNC makes the length 0.                      *)
Length(size) == IF size > BufferSize THEN 0 ELSE size

(* recvmmsg returns what there is, up to a batch.  The lengths go through    *)
(* tx_lens, and a length of 0 is not given to quiche.                       *)
Receive ==
    /\ pc = "receive" /\ readable
    /\ LET n == Min({BatchSize, Len(arrived) - taken})
           size(i) == Length(arrived[taken + i])
       IN /\ n > 0
          /\ taken' = taken + n
          /\ tx_lens' = [i \in Slots |-> IF i <= n THEN size(i) ELSE tx_lens[i]]
          /\ got' = got \o Keep([i \in 1 .. n |-> size(i)], Nat \ {0})
          /\ pc' = IF n < BatchSize THEN "fill" ELSE "receive"
    /\ UNCHANGED <<batch, tx_buffers, tx_at, space, wire, arrived, ready, now, made>>

(* Mutant of ReceiveBlocks: EAGAIN is turned into an empty batch too early.  *)
ReceiveBlocksUnseen ==
    /\ pc = "receive"
    /\ ~ readable \/ taken = Len(arrived)
    /\ pc' = "fill"
    /\ UNCHANGED <<batch, tx_buffers, tx_lens, tx_at, kernel, ready, now, made>>

(* Nothing to receive: try_io clears the mark.                              *)
ReceiveBlocks ==
    /\ pc = "receive"
    /\ ~ readable \/ taken = Len(arrived)
    /\ readable' = FALSE
    /\ pc' = "fill"
    /\ UNCHANGED <<batch, tx_buffers, tx_lens, tx_at, kernel, writable, now, made>>

-----------------------------------------------------------------------------
(* flush_quic.                                                              *)

(* conn.send wrote a datagram into the next slot.                           *)
Fill ==
    /\ pc = "fill" /\ batch.count < BatchSize
    /\ Len(made) < MaxDatagrams
    /\ LET slot == batch.count + 1
       IN \E size \in 1 .. BufferSize, at \in now .. MaxTime :
             /\ made' = Append(made, [size |-> size, at |-> at])
             /\ tx_buffers' = [tx_buffers EXCEPT ![slot] = Len(made')]
             /\ tx_lens' = [tx_lens EXCEPT ![slot] = size]
             /\ tx_at' = [tx_at EXCEPT ![slot] = at]
             /\ batch' = [batch EXCEPT !.count = slot]
    /\ UNCHANGED <<pc, kernel, ready, now>>

(* The batch is full, or quiche has no more (Error::Done).                  *)
FillEnds ==
    /\ pc = "fill"
    /\ batch' = [batch EXCEPT !.drained = batch.count < BatchSize]
    /\ pc' = IF batch.count > 0 THEN "pace" ELSE "wait"
    /\ UNCHANGED <<tx_buffers, tx_lens, tx_at, kernel, ready, now, made>>

(* Mutant of Coalesce: the deadlines of the datagrams behind the first are  *)
(* not looked at.                                                           *)
CoalesceAll ==
    /\ pc = "pace" /\ tx_at[batch.start] <= now
    /\ batch' = [batch EXCEPT !.end = batch.count + 1, !.sent = batch.start]
    /\ pc' = "send"
    /\ UNCHANGED <<tx_buffers, tx_lens, tx_at, kernel, ready, now, made>>

(* The sleep until tx_at[start] is over: the datagrams behind the first one  *)
(* whose deadline has passed as well go with it.                            *)
Coalesce ==
    /\ pc = "pace" /\ tx_at[batch.start] <= now
    /\ \E end \in batch.start + 1 .. batch.count + 1 :
          /\ \A i \in batch.start + 1 .. end - 1 : tx_at[i] <= now
          /\ end <= batch.count => tx_at[end] > now
          /\ batch' = [batch EXCEPT !.end = end, !.sent = batch.start]
    /\ pc' = "send"
    /\ UNCHANGED <<tx_buffers, tx_lens, tx_at, kernel, ready, now, made>>

(* Mutant of Message: the lengths are not sliced like the buffers.          *)
MessageUnsliced(i) ==
    [id |-> tx_buffers[batch.sent + i - 1], size |-> tx_lens[i], time |-> now]

(* The i-th message of sendmmsg(tx_buffers[sent..end], tx_lens[sent..end]).  *)
Message(i) ==
    [id |-> tx_buffers[batch.sent + i - 1], size |-> tx_lens[batch.sent + i - 1], time |-> now]

(* sendmmsg takes what the send buffer has room for.  When all of start..end *)
(* is sent, the next deadline is awaited or the next batch is filled.       *)
SendBatch ==
    /\ pc = "send" /\ writable
    /\ LET n == Min({space, batch.end - batch.sent})
           sent == batch.sent + n
       IN /\ n > 0
          /\ space' = space - n
          /\ wire' = wire \o [i \in 1 .. n |-> Message(i)]
          /\ \/ /\ sent < batch.end
                /\ batch' = [batch EXCEPT !.sent = sent]
                /\ UNCHANGED pc
             \/ /\ sent = batch.end /\ sent <= batch.count
                /\ batch' = [batch EXCEPT !.start = sent, !.sent = sent]
                /\ pc' = "pace"
             \/ /\ sent = batch.end /\ sent > batch.count
                /\ batch' = Empty
                /\ pc' = IF batch.drained THEN "wait" ELSE "fill"
    /\ UNCHANGED <<tx_buffers, tx_lens, tx_at, arrived, taken, got, ready, now, made>>

(* Mutant of SendBlocks: sendmmsg is called outside try_io.                 *)
SendBlocksUnseen ==
    /\ pc = "send"
    /\ ~ writable \/ space = 0
    /\ pc' = "writable"
    /\ UNCHANGED <<batch, tx_buffers, tx_lens, tx_at, kernel, ready, now, made>>

(* No room: try_io clears the mark, and the task awaits writable().         *)
SendBlocks ==
    /\ pc = "send"
    /\ ~ writable \/ space = 0
    /\ writable' = FALSE
    /\ pc' = "writable"
    /\ UNCHANGED <<batch, tx_buffers, tx_lens, tx_at, kernel, readable, now, made>>

Writable ==
    /\ pc = "writable" /\ writable
    /\ pc' = "send"
    /\ UNCHANGED <<batch, tx_buffers, tx_lens, tx_at, kernel, ready, now, made>>

(* An error of the kernel or of quiche ends the session, sent or not.       *)
Fails ==
    /\ pc \in {"receive", "fill", "send", "writable"}
    /\ pc' = "failed"
    /\ UNCHANGED <<batch, tx_buffers, tx_lens, tx_at, kernel, ready, now, made>>

Task ==
    \/ Receive \/ ReceiveBlocks
    \/ Fill \/ FillEnds \/ Coalesce \/ SendBatch \/ SendBlocks \/ Writable

Next == Tick \/ Transmit \/ Arrive \/ Wake \/ Task \/ Fails

Spec == Init /\ [][Next]_vars

(* The runtime polls the task, the clock goes on, the kernel transmits.     *)
FairSpec ==
    Spec /\ WF_vars(Task) /\ WF_vars(Wake /\ readable) /\ WF_vars(Tick) /\ WF_vars(Transmit)

-----------------------------------------------------------------------------
(* Types; the indices of a batch stay in order and within what was filled.  *)
TypeOK ==
    /\ pc \in {"wait", "receive", "fill", "pace", "send", "writable", "failed"}
    /\ now \in 0 .. MaxTime
    /\ made \in Seq([size : Nat, at : Nat])
    /\ tx_buffers \in [Slots -> 0 .. MaxDatagrams]
    /\ {tx_lens, tx_at} \subseteq [Slots -> Nat]
    /\ batch \in [count : 0 .. BatchSize, drained : BOOLEAN,
                  start : Nat, sent : Nat, end : Nat]
    /\ pc \in {"pace", "send", "writable"} => batch.start \in 1 .. batch.count
    /\ pc \in {"send", "writable"} =>
          batch.start <= batch.sent /\ batch.sent < batch.end /\ batch.end <= batch.count + 1
    /\ space \in 0 .. SendSpace
    /\ wire \in Seq([id : Nat, size : Nat, time : Nat])
    /\ arrived \in Seq(Nat) /\ taken \in 0 .. Len(arrived)
    /\ {writable, readable} \subseteq BOOLEAN

(* Partial sends, waits and the lengths that a receive left in tx_lens make  *)
(* no difference: the kernel gets quiche's datagrams whole, once, in order,  *)
(* and when flush_quic has returned Ok none is left in the buffers, which    *)
(* the next flush overwrites.                                               *)
WireExact ==
    /\ \A i \in 1 .. Len(wire) : wire[i].id = i /\ wire[i].size = made[i].size
    /\ pc \in {"wait", "receive"} => Len(wire) = Len(made)

(* README, "A packet is batched only after its quiche pacing deadline".     *)
NotBeforeItsTime ==
    \A i \in 1 .. Len(wire) : wire[i].time >= made[wire[i].id].at

(* quiche is given every datagram taken from the socket, in order, except    *)
(* empty and truncated ones.                                                *)
ReceivedExact ==
    got = Keep(SubSeq(arrived, 1, taken), 1 .. BufferSize)

(* The task never awaits readiness with something to receive unannounced,    *)
(* and while it awaits room, the mark says whether there is room: no wake-up *)
(* is lost and none is stale.                                               *)
AwaitsWithCause ==
    /\ pc = "wait" /\ ~ readable => taken = Len(arrived)
    /\ pc = "writable" => (writable <=> space > 0)

(* Once the socket is empty the task does not go on being woken by a stale   *)
(* mark: every time, it comes to wait with the mark cleared.                *)
ComesToRest == []<>(pc = "failed" \/ (pc = "wait" /\ ~ readable))

=============================================================================
