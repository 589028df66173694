--------------------------- MODULE UdpBatchProofs ---------------------------
(***************************************************************************)
(* Theorems about the batched UDP I/O, for every batch size, send buffer,     *)
(* and sequence of datagrams.                                               *)
(***************************************************************************)
EXTENDS UdpBatch, KeepingProofs, SequenceTheorems, TLAPS

Datagrams == [size : Nat, at : Nat]
Batches == [count : 0 .. BatchSize, drained : BOOLEAN, start : Nat, sent : Nat, end : Nat]
Messages == [id : Nat, size : Nat, time : Nat]

(* The place of the first slot's datagram in made, less one.                  *)
Base == Len(made) - batch.count

BatchTypes ==
    /\ now \in Nat
    /\ made \in Seq(Datagrams)
    /\ DOMAIN tx_buffers = Slots /\ DOMAIN tx_lens = Slots /\ DOMAIN tx_at = Slots
    /\ batch \in Batches
    /\ batch.count <= Len(made)
    /\ space \in 0 .. SendSpace
    /\ wire \in Seq(Messages)

(* Where the batch stands between the buffers and the kernel.                *)
Progressing ==
    /\ Len(wire) = Base + batch.sent - 1
    /\ pc \in {"wait", "receive"} => batch.count = 0
    /\ pc \in {"wait", "receive", "fill"} => batch.start = 1 /\ batch.sent = 1
    /\ pc = "pace" => batch.sent = batch.start /\ batch.start \in 1 .. batch.count
    /\ pc \in {"send", "writable"} =>
          /\ 1 <= batch.start /\ batch.start <= batch.sent
          /\ batch.sent < batch.end /\ batch.end <= batch.count + 1

(* The slots hold the last datagrams quiche made, and those that are to be     *)
(* sent now are due.                                                        *)
SlotsHold ==
    /\ \A i \in 1 .. batch.count :
          /\ tx_buffers[i] = Base + i
          /\ tx_lens[i] = made[Base + i].size
          /\ tx_at[i] = made[Base + i].at
    /\ pc \in {"send", "writable"} =>
          \A i \in 1 .. batch.count : i >= batch.start /\ i < batch.end => tx_at[i] <= now

(* What the kernel has.                                                     *)
Sent ==
    \A i \in 1 .. Len(wire) :
        wire[i].id = i /\ wire[i].size = made[i].size /\ made[i].at <= wire[i].time

BatchInv == BatchTypes /\ Progressing /\ SlotsHold /\ Sent

(* What the marks of the runtime say.                                       *)
MarksTrue ==
    /\ ~readable => taken = Len(arrived)
    /\ ~writable => space = 0
    /\ pc = "writable" /\ writable => space > 0

(* The smaller of two numbers.                                               *)
LEMMA MinOfTwo ==
    ASSUME NEW a \in Nat, NEW b \in Nat
    PROVE  Min({a, b}) \in Nat /\ Min({a, b}) <= a /\ Min({a, b}) <= b
<1> DEFINE Least(x) == \A y \in {a, b} : x <= y
<1>1. \E x \in {a, b} : Least(x)
  <2>1. CASE a <= b BY <2>1
  <2>2. CASE b <= a BY <2>2
  <2> QED BY <2>1, <2>2
<1>2. Min({a, b}) = CHOOSE x \in {a, b} : Least(x) BY DEF Min
<1> HIDE DEF Least
<1>3. Min({a, b}) \in {a, b} /\ Least(Min({a, b})) BY <1>1, <1>2
<1> QED BY <1>3 DEF Least

(* udp.rs, flush_quic: filling a slot with the next datagram.                *)
LEMMA FillStep ==
    ASSUME BatchInv, Fill
    PROVE  BatchInv'
<1> DEFINE slot == batch.count + 1
<1>0. BatchSize \in Nat \ {0} /\ BufferSize \in Nat /\ MaxTime \in Nat BY UdpBatchConfig
<1>1. PICK size \in 1 .. BufferSize, at \in now .. MaxTime :
        /\ made' = Append(made, [size |-> size, at |-> at])
        /\ tx_buffers' = [tx_buffers EXCEPT ![slot] = Len(made')]
        /\ tx_lens' = [tx_lens EXCEPT ![slot] = size]
        /\ tx_at' = [tx_at EXCEPT ![slot] = at]
        /\ batch' = [batch EXCEPT !.count = slot]
  BY DEF Fill
<1>2. /\ pc = "fill" /\ pc' = "fill" /\ batch.count < BatchSize
      /\ UNCHANGED <<now, space, wire>>
  BY DEF Fill, kernel
<1>3. /\ batch.count \in Nat /\ slot \in 1 .. BatchSize /\ slot \in Slots
      /\ Len(made) \in Nat /\ Base \in Nat
  BY <1>0, <1>2 DEF BatchInv, BatchTypes, Batches, Slots, Base
<1>4. [size |-> size, at |-> at] \in Datagrams
  BY <1>0 DEF BatchInv, BatchTypes, Datagrams
<1>5. /\ made' \in Seq(Datagrams) /\ Len(made') = Len(made) + 1
      /\ \A i \in 1 .. Len(made) : made'[i] = made[i]
      /\ made'[Len(made) + 1] = [size |-> size, at |-> at]
  BY <1>1, <1>4, AppendProperties DEF BatchInv, BatchTypes
<1>6. /\ batch'.count = slot /\ batch'.start = batch.start /\ batch'.sent = batch.sent
      /\ batch' \in Batches
  <2>1. batch \in Batches /\ slot \in 0 .. BatchSize BY <1>0, <1>3 DEF BatchInv, BatchTypes
  <2>2. batch' = [batch EXCEPT !.count = slot] BY <1>1
  <2> HIDE DEF slot
  <2> QED BY <2>1, <2>2 DEF Batches
<1>7. Base' = Base BY <1>3, <1>5, <1>6 DEF Base
<1>8. BatchTypes' BY <1>1, <1>2, <1>3, <1>5, <1>6 DEF BatchInv, BatchTypes
<1>9. Progressing' BY <1>2, <1>6, <1>7 DEF BatchInv, Progressing
<1>10. SlotsHold'
  <2> SUFFICES ASSUME NEW i \in 1 .. slot
               PROVE  /\ tx_buffers'[i] = Base + i
                      /\ tx_lens'[i] = made'[Base + i].size
                      /\ tx_at'[i] = made'[Base + i].at
    BY <1>2, <1>6, <1>7 DEF SlotsHold
  <2>1. /\ DOMAIN tx_buffers = Slots /\ DOMAIN tx_lens = Slots /\ DOMAIN tx_at = Slots
        /\ i \in Slots
    BY <1>0, <1>3 DEF BatchInv, BatchTypes, Slots
  <2>2. CASE i = slot
    <3>1. Base + i = Len(made) + 1 BY <1>3, <2>2 DEF Base
    <3> QED BY <1>1, <1>3, <1>5, <2>1, <2>2, <3>1
  <2>3. CASE i # slot
    <3>1. i \in 1 .. batch.count /\ Base + i \in 1 .. Len(made) BY <1>3, <2>3 DEF Base
    <3>2. tx_buffers'[i] = tx_buffers[i] /\ tx_lens'[i] = tx_lens[i] /\ tx_at'[i] = tx_at[i]
      BY <1>1, <2>1, <2>3
    <3> QED BY <1>5, <3>1, <3>2 DEF BatchInv, SlotsHold
  <2> QED BY <2>2, <2>3
<1>11. Sent'
  <2>1. \A i \in 1 .. Len(wire) : i \in 1 .. Len(made)
    <3>1. Len(wire) = Base BY <1>2, <1>3 DEF BatchInv, Progressing
    <3>2. Base <= Len(made) BY <1>3 DEF Base
    <3> QED BY <1>3, <3>1, <3>2
  <2> QED BY <1>2, <1>5, <2>1 DEF BatchInv, Sent
<1> QED BY <1>8, <1>9, <1>10, <1>11 DEF BatchInv

(* The message at place i of sendmmsg is the datagram after those sent.       *)
LEMMA NextMessage ==
    ASSUME BatchInv, pc = "send", NEW i \in Nat, 1 <= i, i <= batch.end - batch.sent
    PROVE  /\ Message(i) \in Messages
           /\ Message(i).id = Len(wire) + i
           /\ Len(wire) + i \in 1 .. Len(made)
           /\ Message(i).size = made[Len(wire) + i].size
           /\ made[Len(wire) + i].at <= Message(i).time
<1> DEFINE slot == batch.sent + i - 1
<1>1. /\ batch.count \in Nat /\ batch.sent \in Nat /\ batch.end \in Nat /\ batch.start \in Nat
      /\ Len(made) \in Nat /\ batch.count <= Len(made) /\ now \in Nat
      /\ made \in Seq(Datagrams)
  BY UdpBatchConfig DEF BatchInv, BatchTypes, Batches
<1>2. /\ 1 <= batch.start /\ batch.start <= batch.sent
      /\ batch.sent < batch.end /\ batch.end <= batch.count + 1
      /\ Len(wire) = Base + batch.sent - 1
  BY DEF BatchInv, Progressing
<1>3. slot \in 1 .. batch.count /\ slot >= batch.start /\ slot < batch.end
  <2>1. slot \in Nat /\ slot >= batch.sent BY <1>1
  <2>2. slot < batch.end BY <1>1
  <2> HIDE DEF slot
  <2>3. slot >= batch.start /\ slot >= 1 BY <1>1, <1>2, <2>1
  <2>4. slot <= batch.count BY <1>1, <1>2, <2>1, <2>2
  <2> QED BY <1>1, <2>1, <2>2, <2>3, <2>4
<1>4. Base + slot = Len(wire) + i /\ Base + slot \in 1 .. Len(made)
  <2>1. Base = Len(made) - batch.count BY DEF Base
  <2>2. Base + slot = Len(wire) + i BY <1>1, <1>2, <2>1, SMTT(30)
  <2>3. slot \in Nat /\ slot >= 1 /\ slot <= batch.count BY <1>1, <1>3
  <2> HIDE DEF slot
  <2>4. Base + slot \in 1 .. Len(made) BY <1>1, <2>1, <2>3
  <2> QED BY <2>2, <2>4
<1>5. /\ tx_buffers[slot] = Base + slot /\ tx_lens[slot] = made[Base + slot].size
      /\ tx_at[slot] = made[Base + slot].at /\ tx_at[slot] <= now
  BY <1>3 DEF BatchInv, SlotsHold
<1>6. Message(i) = [id |-> tx_buffers[slot], size |-> tx_lens[slot], time |-> now]
  BY DEF Message
<1>7. made[Base + slot] \in Datagrams BY <1>1, <1>4
<1>8. Base + slot \in Nat BY <1>4
<1> HIDE DEF slot
<1>9. /\ Message(i).id = tx_buffers[slot] /\ Message(i).size = tx_lens[slot]
      /\ Message(i).time = now
  BY <1>6
<1>10. Message(i) \in Messages BY <1>1, <1>5, <1>6, <1>7, <1>8 DEF Messages, Datagrams
<1> QED BY <1>4, <1>5, <1>9, <1>10

(* udp.rs, flush_quic: a sendmmsg that takes part of what is due, or all.     *)
LEMMA SendStep ==
    ASSUME BatchInv, SendBatch
    PROVE  BatchInv'
<1> DEFINE n == Min({space, batch.end - batch.sent})
           messages == [i \in 1 .. n |-> Message(i)]
<1>0. BatchSize \in Nat \ {0} /\ SendSpace \in Nat BY UdpBatchConfig
<1>1. /\ pc = "send" /\ n > 0 /\ space' = space - n
      /\ wire' = wire \o messages
      /\ UNCHANGED <<tx_buffers, tx_lens, tx_at, now, made>>
  BY DEF SendBatch
<1>2. /\ batch.count \in Nat /\ batch.sent \in Nat /\ batch.end \in Nat /\ batch.start \in Nat
      /\ Len(made) \in Nat /\ batch.count <= Len(made) /\ space \in Nat /\ now \in Nat
      /\ wire \in Seq(Messages) /\ space <= SendSpace
      /\ batch.count <= BatchSize
  BY <1>0 DEF BatchInv, BatchTypes, Batches
<1>3. /\ 1 <= batch.start /\ batch.start <= batch.sent
      /\ batch.sent < batch.end /\ batch.end <= batch.count + 1
      /\ Len(wire) = Base + batch.sent - 1
  BY <1>1 DEF BatchInv, Progressing
<1>4. n \in Nat /\ n <= space /\ n <= batch.end - batch.sent
  <2>1. batch.end - batch.sent \in Nat BY <1>2, <1>3
  <2> QED BY <1>2, <2>1, MinOfTwo
<1> HIDE DEF n
<1>5. \A i \in 1 .. n :
         /\ Message(i) \in Messages
         /\ Message(i).id = Len(wire) + i
         /\ Len(wire) + i \in 1 .. Len(made)
         /\ Message(i).size = made[Len(wire) + i].size
         /\ made[Len(wire) + i].at <= Message(i).time
  <2> SUFFICES ASSUME NEW i \in 1 .. n
               PROVE  /\ Message(i) \in Messages
                      /\ Message(i).id = Len(wire) + i
                      /\ Len(wire) + i \in 1 .. Len(made)
                      /\ Message(i).size = made[Len(wire) + i].size
                      /\ made[Len(wire) + i].at <= Message(i).time
    OBVIOUS
  <2>1. i \in Nat /\ 1 <= i /\ i <= batch.end - batch.sent BY <1>2, <1>4
  <2> QED BY <1>1, <2>1, NextMessage
<1>6. messages \in Seq(Messages) /\ Len(messages) = n
  <2>1. messages \in [1 .. n -> Messages] BY <1>5
  <2>2. messages \in Seq(Messages) BY <1>4, <2>1, SeqDef
  <2> QED BY <1>4, <2>2
<1>7. /\ wire' \in Seq(Messages) /\ Len(wire') = Len(wire) + n
      /\ \A i \in 1 .. Len(wire) + n :
            wire'[i] = IF i <= Len(wire) THEN wire[i] ELSE messages[i - Len(wire)]
  <2> HIDE DEF messages
  <2>1. wire' = wire \o messages BY <1>1
  <2> QED BY <1>2, <1>6, <2>1, ConcatProperties
<1>8. Sent'
  <2> SUFFICES ASSUME NEW i \in 1 .. Len(wire')
               PROVE  /\ wire'[i].id = i /\ wire'[i].size = made[i].size
                      /\ made[i].at <= wire'[i].time
    BY <1>1 DEF Sent
  <2>1. Len(wire) \in Nat BY <1>2
  <2>2. CASE i <= Len(wire)
    <3> HIDE DEF messages
    <3>1. wire'[i] = wire[i] /\ i \in 1 .. Len(wire) BY <1>4, <1>7, <2>1, <2>2
    <3> QED BY <3>1 DEF BatchInv, Sent
  <2>3. CASE ~(i <= Len(wire))
    <3>1. i - Len(wire) \in 1 .. n /\ Len(wire) + (i - Len(wire)) = i
      BY <1>4, <1>7, <2>1, <2>3
    <3>2. wire'[i] = Message(i - Len(wire)) BY <1>7, <2>3, <3>1
    <3> QED BY <1>5, <3>1, <3>2
  <2> QED BY <2>2, <2>3
<1>9. space' \in 0 .. SendSpace BY <1>0, <1>1, <1>2, <1>4
<1> HIDE DEF messages
<1>10. CASE /\ batch.sent + n < batch.end
            /\ batch' = [batch EXCEPT !.sent = batch.sent + n]
            /\ pc' = "send"
  <2>1. batch \in Batches /\ batch.sent + n \in Nat BY <1>2, <1>4 DEF BatchInv, BatchTypes
  <2>2. /\ batch' \in Batches /\ batch'.count = batch.count /\ batch'.start = batch.start
        /\ batch'.end = batch.end /\ batch'.sent = batch.sent + n
    BY <1>10, <2>1 DEF Batches
  <2>3. Base' = Base BY <1>1, <2>2 DEF Base
  <2>4. BatchTypes' BY <1>1, <1>7, <1>9, <2>2 DEF BatchInv, BatchTypes
  <2>5. Len(wire') = Base' + batch'.sent - 1
    BY <1>2, <1>3, <1>4, <1>7, <2>2, <2>3, SMTT(30) DEF Base
  <2>6. batch.start <= batch.sent + n BY <1>2, <1>3, <1>4
  <2>7. Progressing' BY <1>3, <1>10, <2>2, <2>5, <2>6 DEF Progressing
  <2>8. SlotsHold' BY <1>1, <1>10, <2>2, <2>3 DEF BatchInv, SlotsHold
  <2> QED BY <1>8, <2>4, <2>7, <2>8 DEF BatchInv
<1>11. CASE /\ batch.sent + n = batch.end /\ batch.sent + n <= batch.count
            /\ batch' = [batch EXCEPT !.start = batch.sent + n, !.sent = batch.sent + n]
            /\ pc' = "pace"
  <2>1. batch \in Batches /\ batch.sent + n \in Nat BY <1>2, <1>4 DEF BatchInv, BatchTypes
  <2>2. /\ batch' \in Batches /\ batch'.count = batch.count
        /\ batch'.start = batch.sent + n /\ batch'.sent = batch.sent + n
    BY <1>11, <2>1 DEF Batches
  <2>3. Base' = Base BY <1>1, <2>2 DEF Base
  <2>4. BatchTypes' BY <1>1, <1>7, <1>9, <2>2 DEF BatchInv, BatchTypes
  <2>5. Len(wire') = Base' + batch'.sent - 1
    BY <1>2, <1>3, <1>4, <1>7, <2>2, <2>3, SMTT(30) DEF Base
  <2>6. batch.sent + n \in 1 .. batch.count BY <1>2, <1>3, <1>4, <1>11
  <2>7. Progressing' BY <1>11, <2>2, <2>5, <2>6 DEF Progressing
  <2>8. SlotsHold' BY <1>1, <1>11, <2>2, <2>3 DEF BatchInv, SlotsHold
  <2> QED BY <1>8, <2>4, <2>7, <2>8 DEF BatchInv
<1>12. CASE /\ batch.sent + n = batch.end /\ batch.sent + n > batch.count
            /\ batch' = Empty
            /\ pc' \in {"wait", "fill"}
  <2>1. /\ batch' \in Batches /\ batch'.count = 0 /\ batch'.start = 1 /\ batch'.sent = 1
    BY <1>0, <1>12 DEF Empty, Batches
  <2>2. batch.sent + n = batch.count + 1
    <3>1. batch.sent + n = batch.end /\ batch.sent + n > batch.count BY <1>12
    <3>2. batch.end <= batch.count + 1 BY <1>3
    <3> QED BY <1>2, <3>1, <3>2
  <2>3. Base' = Len(made) BY <1>1, <1>2, <2>1 DEF Base
  <2>4. Len(wire') = Len(made)
    <3> DEFINE sent == batch.sent
               count == batch.count
               length == Len(made)
    <3>1. sent \in Nat /\ count \in Nat /\ length \in Nat /\ n \in Nat BY <1>2, <1>4
    <3>2. sent + n = count + 1 BY <2>2
    <3>3. Len(wire) = (length - count) + sent - 1 BY <1>3 DEF Base
    <3>4. Len(wire') = Len(wire) + n BY <1>7
    <3> HIDE DEF sent, count, length
    <3>5. Len(wire') = length BY <3>1, <3>2, <3>3, <3>4
    <3> QED BY <3>5 DEF length
  <2>5. BatchTypes' BY <1>1, <1>2, <1>7, <1>9, <2>1 DEF BatchInv, BatchTypes
  <2>6. Progressing' BY <1>2, <1>12, <2>1, <2>3, <2>4 DEF Progressing
  <2>7. SlotsHold' BY <1>12, <2>1 DEF SlotsHold
  <2> QED BY <1>8, <2>5, <2>6, <2>7 DEF BatchInv
<1> QED
  BY <1>1, <1>10, <1>11, <1>12 DEF SendBatch, n

-----------------------------------------------------------------------------
(* A step of the batch's surroundings: nothing made, filled or sent.          *)
LEMMA Elsewhere ==
    ASSUME BatchInv,
           UNCHANGED <<made, wire, batch, tx_buffers, tx_lens, tx_at>>,
           now' \in Nat, now' >= now, space' \in 0 .. SendSpace,
           \/ pc' \in {pc, "failed"}
           \/ pc = "wait" /\ pc' = "receive"
           \/ pc = "receive" /\ pc' = "fill"
           \/ pc = "send" /\ pc' = "writable"
           \/ pc = "writable" /\ pc' = "send"
    PROVE  BatchInv'
<1>1. Base' = Base BY DEF Base
<1>2. BatchTypes' BY DEF BatchInv, BatchTypes
<1>3. Progressing' BY <1>1 DEF BatchInv, Progressing
<1>4. SlotsHold'
  <2>1. \A i \in 1 .. batch.count : tx_at[i] <= now => tx_at[i] <= now'
    <3> SUFFICES ASSUME NEW i \in 1 .. batch.count, tx_at[i] <= now PROVE tx_at[i] <= now'
      OBVIOUS
    <3>1. made \in Seq(Datagrams) /\ batch.count \in Nat /\ batch.count <= Len(made) /\ now \in Nat
      BY UdpBatchConfig DEF BatchInv, BatchTypes, Batches
    <3>2. Base + i \in 1 .. Len(made) BY <3>1 DEF Base
    <3>3. made[Base + i].at \in Nat
      <4>1. made[Base + i] \in Datagrams BY <3>1, <3>2
      <4> QED BY <4>1 DEF Datagrams
    <3>4. tx_at[i] \in Nat BY <3>3 DEF BatchInv, SlotsHold
    <3> QED BY <3>1, <3>4
  <2> QED BY <1>1, <2>1 DEF BatchInv, SlotsHold
<1>5. Sent' BY DEF BatchInv, Sent
<1> QED BY <1>2, <1>3, <1>4, <1>5 DEF BatchInv

(* udp.rs: the batch and what the kernel has of it, at every step.            *)
THEOREM BatchInvariant == Spec => []BatchInv
<1>1. Init => BatchInv
  <2> SUFFICES ASSUME Init PROVE BatchInv
    OBVIOUS
  <2>0. BatchSize \in Nat /\ SendSpace \in Nat BY UdpBatchConfig
  <2>1. BatchTypes BY <2>0 DEF Init, BatchTypes, Batches, Empty
  <2>2. Progressing /\ SlotsHold /\ Sent
    BY DEF Init, Empty, Progressing, SlotsHold, Sent, Base
  <2> QED BY <2>1, <2>2 DEF BatchInv
<1>2. BatchInv /\ [Next]_vars => BatchInv'
  <2> SUFFICES ASSUME BatchInv, [Next]_vars PROVE BatchInv'
    OBVIOUS
  <2>0. now \in Nat /\ space \in 0 .. SendSpace /\ SendSpace \in Nat
    BY UdpBatchConfig DEF BatchInv, BatchTypes
  <2>1. CASE Tick
    <3>1. now' = now + 1 BY <2>1 DEF Tick
    <3>2. now' \in Nat /\ now' >= now BY <2>0, <3>1
    <3> QED BY <2>0, <2>1, <3>2, Elsewhere DEF Tick, task, kernel
  <2>2. CASE Transmit
    <3>1. space' \in 0 .. SendSpace BY <2>0, <2>2 DEF Transmit
    <3>2. now' = now /\ now >= now BY <2>0, <2>2 DEF Transmit
    <3> QED BY <2>0, <2>2, <3>1, <3>2, Elsewhere DEF Transmit, task
  <2>3. CASE \/ Arrive \/ Wake \/ ReceiveBlocks \/ SendBlocks \/ Writable \/ Fails
             \/ UNCHANGED vars
    <3>1. /\ UNCHANGED <<made, wire, batch, tx_buffers, tx_lens, tx_at, now, space>>
          /\ \/ pc' \in {pc, "failed"}
             \/ pc = "wait" /\ pc' = "receive"
             \/ pc = "receive" /\ pc' = "fill"
             \/ pc = "send" /\ pc' = "writable"
             \/ pc = "writable" /\ pc' = "send"
      <4>1. CASE Arrive BY <4>1 DEF Arrive, task
      <4>2. CASE Wake BY <4>2 DEF Wake, kernel
      <4>3. CASE ReceiveBlocks BY <4>3 DEF ReceiveBlocks, kernel
      <4>4. CASE SendBlocks BY <4>4 DEF SendBlocks, kernel
      <4>5. CASE Writable BY <4>5 DEF Writable, kernel
      <4>6. CASE Fails BY <4>6 DEF Fails, kernel
      <4>7. CASE UNCHANGED vars BY <4>7 DEF vars, task, kernel
      <4> QED BY <2>3, <4>1, <4>2, <4>3, <4>4, <4>5, <4>6, <4>7, Zenon
    <3>2. now >= now BY <2>0
    <3> QED BY <2>0, <3>1, <3>2, Elsewhere
  <2>4. CASE Receive
    <3>1. /\ pc = "receive" /\ pc' \in {"fill", "receive"}
          /\ UNCHANGED <<made, wire, batch, tx_buffers, tx_at, now, space>>
          /\ DOMAIN tx_lens' = Slots
      BY <2>4 DEF Receive
    <3>2. batch.count = 0 BY <3>1 DEF BatchInv, Progressing
    <3>3. Base' = Base BY <3>1 DEF Base
    <3>4. BatchTypes' BY <3>1 DEF BatchInv, BatchTypes
    <3>5. Progressing' BY <3>1, <3>2, <3>3 DEF BatchInv, Progressing
    <3>6. SlotsHold' BY <3>1, <3>2 DEF SlotsHold
    <3>7. Sent' BY <3>1 DEF BatchInv, Sent
    <3> QED BY <3>4, <3>5, <3>6, <3>7 DEF BatchInv
  <2>5. CASE Fill BY <2>5, FillStep
  <2>6. CASE FillEnds
    <3>1. /\ pc = "fill" /\ pc' = IF batch.count > 0 THEN "pace" ELSE "wait"
          /\ UNCHANGED <<made, wire, tx_buffers, tx_lens, tx_at, now, space>>
          /\ batch' = [batch EXCEPT !.drained = batch.count < BatchSize]
      BY <2>6 DEF FillEnds, kernel
    <3>2. batch \in Batches /\ batch.count \in Nat
      BY UdpBatchConfig DEF BatchInv, BatchTypes, Batches
    <3>3. /\ batch' \in Batches /\ batch'.count = batch.count /\ batch'.start = batch.start
          /\ batch'.sent = batch.sent /\ batch'.end = batch.end
      <4> DEFINE d == batch.count < BatchSize
      <4>1. d \in BOOLEAN /\ batch' = [batch EXCEPT !.drained = d] BY <3>1
      <4> HIDE DEF d
      <4> QED BY <3>2, <4>1 DEF Batches
    <3>4. Base' = Base BY <3>1, <3>3 DEF Base
    <3>5. BatchTypes' BY <3>1, <3>3 DEF BatchInv, BatchTypes
    <3>6. Progressing' BY <3>1, <3>2, <3>3, <3>4 DEF BatchInv, Progressing
    <3>7. SlotsHold' BY <3>1, <3>3, <3>4 DEF BatchInv, SlotsHold
    <3>8. Sent' BY <3>1 DEF BatchInv, Sent
    <3> QED BY <3>5, <3>6, <3>7, <3>8 DEF BatchInv
  <2>7. CASE Coalesce
    <3>1. PICK end \in batch.start + 1 .. batch.count + 1 :
            /\ \A i \in batch.start + 1 .. end - 1 : tx_at[i] <= now
            /\ batch' = [batch EXCEPT !.end = end, !.sent = batch.start]
      BY <2>7 DEF Coalesce
    <3>2. /\ pc = "pace" /\ pc' = "send" /\ tx_at[batch.start] <= now
          /\ UNCHANGED <<made, wire, tx_buffers, tx_lens, tx_at, now, space>>
      BY <2>7 DEF Coalesce, kernel
    <3>3. /\ batch \in Batches /\ batch.count \in Nat /\ batch.start \in Nat
          /\ batch.sent = batch.start /\ batch.start \in 1 .. batch.count
      BY <3>2, UdpBatchConfig DEF BatchInv, BatchTypes, Batches, Progressing
    <3>4. end \in Nat /\ batch.start < end /\ end <= batch.count + 1 BY <3>3
    <3>5. /\ batch' \in Batches /\ batch'.count = batch.count /\ batch'.start = batch.start
          /\ batch'.sent = batch.start /\ batch'.end = end
      BY <3>1, <3>3, <3>4 DEF Batches
    <3>6. Base' = Base BY <3>2, <3>5 DEF Base
    <3>7. BatchTypes' BY <3>2, <3>5 DEF BatchInv, BatchTypes
    <3>8. Progressing' BY <3>2, <3>3, <3>4, <3>5, <3>6 DEF BatchInv, Progressing
    <3>9. SlotsHold'
      <4>1. \A i \in 1 .. batch.count : i >= batch.start /\ i < end => tx_at[i] <= now
        <5> SUFFICES ASSUME NEW i \in 1 .. batch.count, i >= batch.start, i < end
                     PROVE  tx_at[i] <= now
          OBVIOUS
        <5>1. i = batch.start \/ i \in batch.start + 1 .. end - 1 BY <3>3, <3>4
        <5> QED BY <3>1, <3>2, <5>1
      <4> QED BY <3>2, <3>5, <3>6, <4>1 DEF BatchInv, SlotsHold
    <3>10. Sent' BY <3>2 DEF BatchInv, Sent
    <3> QED BY <3>7, <3>8, <3>9, <3>10 DEF BatchInv
  <2>8. CASE SendBatch BY <2>8, SendStep
  <2> QED BY <2>1, <2>2, <2>3, <2>4, <2>5, <2>6, <2>7, <2>8 DEF Next, Task
<1> QED BY <1>1, <1>2, PTL DEF Spec

(* udp.rs, flush_quic and drain_quic: partial sends, waits for room and the     *)
(* shared array of lengths notwithstanding, the kernel gets quiche's          *)
(* datagrams whole, once, in order, and all of them by the time it returns.   *)
THEOREM WireIsExact == Spec => []WireExact
<1>1. BatchInv => WireExact
  <2> SUFFICES ASSUME BatchInv PROVE WireExact
    OBVIOUS
  <2>1. Len(made) \in Nat BY DEF BatchInv, BatchTypes
  <2>2. pc \in {"wait", "receive"} => Len(wire) = Len(made)
    BY <2>1 DEF BatchInv, Progressing, Base
  <2> QED BY <2>2 DEF BatchInv, Sent, WireExact
<1> QED BY <1>1, BatchInvariant, PTL

(* README.md, "A packet is batched only after its quiche pacing deadline".     *)
THEOREM NothingEarly == Spec => []NotBeforeItsTime
<1>1. BatchInv => NotBeforeItsTime
  <2> SUFFICES ASSUME BatchInv, NEW i \in 1 .. Len(wire)
               PROVE  wire[i].time >= made[wire[i].id].at
    BY DEF NotBeforeItsTime
  <2>1. made[i].at <= wire[i].time /\ wire[i].id = i BY DEF BatchInv, Sent
  <2> QED BY <2>1
<1> QED BY <1>1, BatchInvariant, PTL

(* Tokio's readiness marks: the task awaits neither direction with something    *)
(* to do that nobody will announce.                                         *)
THEOREM AwaitsAreAnnounced == Spec => []AwaitsWithCause
<1>0. SendSpace \in Nat BY UdpBatchConfig
<1>1. Init => MarksTrue BY DEF Init, MarksTrue
<1>2. BatchInv /\ MarksTrue /\ [Next]_vars => MarksTrue'
  <2> SUFFICES ASSUME BatchInv, MarksTrue, [Next]_vars PROVE MarksTrue'
    OBVIOUS
  <2>0. space \in Nat BY <1>0 DEF BatchInv, BatchTypes
  <2> USE DEF MarksTrue
  <2>1. CASE Tick \/ Wake \/ Fails \/ UNCHANGED vars
    BY <2>1 DEF Tick, Wake, Fails, vars, task, kernel, ready
  <2>2. CASE Transmit BY <2>0, <2>2 DEF Transmit, task
  <2>3. CASE Arrive BY <2>3 DEF Arrive, task
  <2>4. CASE Receive BY <2>4 DEF Receive, ready
  <2>5. CASE ReceiveBlocks BY <2>5 DEF ReceiveBlocks, kernel
  <2>6. CASE Fill \/ FillEnds \/ Coalesce
    BY <2>6 DEF Fill, FillEnds, Coalesce, kernel, ready
  <2>7. CASE SendBatch
    <3>1. /\ writable /\ UNCHANGED <<arrived, taken, writable, readable>>
          /\ pc = "send" /\ pc' \in {"send", "pace", "wait", "fill"}
      BY <2>7 DEF SendBatch, ready
    <3> QED BY <3>1
  <2>8. CASE SendBlocks BY <2>8 DEF SendBlocks, kernel
  <2>9. CASE Writable BY <2>9 DEF Writable, kernel, ready
  <2> QED BY <2>1, <2>2, <2>3, <2>4, <2>5, <2>6, <2>7, <2>8, <2>9 DEF Next, Task
<1>3. BatchInv /\ MarksTrue => AwaitsWithCause
  <2> SUFFICES ASSUME BatchInv, MarksTrue PROVE AwaitsWithCause
    OBVIOUS
  <2>1. space = 0 => ~(space > 0) OBVIOUS
  <2> QED BY <2>1 DEF MarksTrue, AwaitsWithCause
<1> QED BY <1>1, <1>2, <1>3, BatchInvariant, PTL DEF Spec

-----------------------------------------------------------------------------
(* The part of the types that no other argument needs.                        *)
SlotTypes ==
    /\ now <= MaxTime /\ Len(made) <= MaxDatagrams
    /\ tx_buffers \in [Slots -> 0 .. MaxDatagrams]
    /\ tx_lens \in [Slots -> Nat] /\ tx_at \in [Slots -> Nat]
    /\ arrived \in Seq(Nat) /\ taken \in 0 .. Len(arrived)
    /\ writable \in BOOLEAN /\ readable \in BOOLEAN
    /\ pc \in {"wait", "receive", "fill", "pace", "send", "writable", "failed"}

(* udp.rs: indices stay in order and within what was filled, lengths and       *)
(* deadlines stay numbers, whichever direction wrote them last.              *)
THEOREM TypeCorrect == Spec => []TypeOK
<1>0. /\ BatchSize \in Nat \ {0} /\ BufferSize \in Nat /\ SendSpace \in Nat
      /\ MaxDatagrams \in Nat /\ MaxTime \in Nat /\ ArrivalSizes \subseteq Nat
  BY UdpBatchConfig
<1>1. Init => SlotTypes
  <2> SUFFICES ASSUME Init PROVE SlotTypes
    OBVIOUS
  <2>1. /\ now <= MaxTime /\ Len(made) <= MaxDatagrams
        /\ arrived \in Seq(Nat) /\ taken \in 0 .. Len(arrived)
    BY <1>0 DEF Init
  <2>2. /\ tx_buffers \in [Slots -> 0 .. MaxDatagrams]
        /\ tx_lens \in [Slots -> Nat] /\ tx_at \in [Slots -> Nat]
    BY <1>0 DEF Init
  <2>3. /\ writable \in BOOLEAN /\ readable \in BOOLEAN
        /\ pc \in {"wait", "receive", "fill", "pace", "send", "writable", "failed"}
    BY DEF Init
  <2> QED BY <2>1, <2>2, <2>3 DEF SlotTypes
<1>2. BatchInv /\ SlotTypes /\ [Next]_vars => SlotTypes'
  <2> SUFFICES ASSUME BatchInv, SlotTypes, [Next]_vars PROVE SlotTypes'
    OBVIOUS
  <2>0. /\ now \in Nat /\ made \in Seq(Datagrams) /\ Len(made) \in Nat
        /\ batch.count \in Nat /\ Len(arrived) \in Nat /\ taken \in Nat
    BY <1>0 DEF BatchInv, BatchTypes, SlotTypes, Batches
  <2> USE DEF SlotTypes
  <2>1. CASE Tick BY <1>0, <2>0, <2>1 DEF Tick, task, kernel, ready
  <2>2. CASE Transmit BY <2>2 DEF Transmit, task
  <2>3. CASE Arrive
    <3>1. PICK size \in ArrivalSizes : arrived' = Append(arrived, size) BY <2>3 DEF Arrive
    <3>2. /\ readable' = TRUE
          /\ UNCHANGED <<pc, tx_buffers, tx_lens, tx_at, taken, writable, now, made>>
      BY <2>3 DEF Arrive, task
    <3>3. arrived' \in Seq(Nat) /\ Len(arrived') = Len(arrived) + 1 BY <1>0, <3>1, AppendProperties
    <3>4. taken \in 0 .. Len(arrived') BY <2>0, <3>3
    <3> QED BY <3>2, <3>3, <3>4
  <2>4. CASE Wake \/ ReceiveBlocks
    BY <2>4 DEF Wake, ReceiveBlocks, kernel, ready
  <2>5. CASE FillEnds BY <2>5 DEF FillEnds, kernel, ready
  <2>6. CASE Coalesce BY <2>6 DEF Coalesce, kernel, ready
  <2>7. CASE SendBlocks \/ Writable \/ Fails
    BY <2>7 DEF SendBlocks, Writable, Fails, kernel, ready
  <2>8. CASE SendBatch
    <3>1. pc' \in {"send", "pace", "wait", "fill"}
          /\ UNCHANGED <<tx_buffers, tx_lens, tx_at, arrived, taken, ready, now, made>>
      BY <2>8 DEF SendBatch
    <3> QED BY <3>1 DEF ready
  <2>9. CASE Receive
    <3> DEFINE n == Min({BatchSize, Len(arrived) - taken})
               size(i) == Length(arrived[taken + i])
    <3>1. /\ n > 0 /\ taken' = taken + n
          /\ tx_lens' = [i \in Slots |-> IF i <= n THEN size(i) ELSE tx_lens[i]]
          /\ pc' \in {"fill", "receive"}
          /\ UNCHANGED <<tx_buffers, tx_at, arrived, writable, readable, now, made>>
      BY <2>9 DEF Receive, ready
    <3>2. n \in Nat /\ n <= Len(arrived) - taken
      <4>1. Len(arrived) - taken \in Nat BY <2>0
      <4> QED BY <1>0, <4>1, MinOfTwo
    <3> HIDE DEF n
    <3>3. ASSUME NEW i \in Slots, i <= n PROVE size(i) \in Nat
      <4>1. i \in Nat /\ i >= 1 BY <1>0 DEF Slots
      <4>2. taken + i \in 1 .. Len(arrived) BY <2>0, <3>2, <3>3, <4>1
      <4>3. arrived[taken + i] \in Nat BY <4>2, ElementOfSeq
      <4> QED BY <1>0, <4>3 DEF Length
    <3> HIDE DEF size
    <3>4. tx_lens' \in [Slots -> Nat] BY <3>1, <3>3
    <3>5. taken' \in 0 .. Len(arrived) BY <2>0, <3>1, <3>2
    <3> QED BY <3>1, <3>4, <3>5
  <2>10. CASE Fill
    <3> DEFINE slot == batch.count + 1
    <3>1. PICK size \in 1 .. BufferSize, at \in now .. MaxTime :
            /\ made' = Append(made, [size |-> size, at |-> at])
            /\ tx_buffers' = [tx_buffers EXCEPT ![slot] = Len(made')]
            /\ tx_lens' = [tx_lens EXCEPT ![slot] = size]
            /\ tx_at' = [tx_at EXCEPT ![slot] = at]
      BY <2>10 DEF Fill
    <3>2. /\ Len(made) < MaxDatagrams
          /\ UNCHANGED <<pc, arrived, taken, writable, readable, now>>
      BY <2>10 DEF Fill, kernel, ready
    <3>3. size \in Nat /\ at \in Nat BY <1>0, <2>0
    <3>4. Len(made') = Len(made) + 1
      BY <2>0, <3>1, <3>3, AppendProperties DEF Datagrams
    <3>5. Len(made') \in 0 .. MaxDatagrams BY <1>0, <2>0, <3>2, <3>4
    <3> HIDE DEF slot
    <3>6. /\ tx_buffers' \in [Slots -> 0 .. MaxDatagrams]
          /\ tx_lens' \in [Slots -> Nat] /\ tx_at' \in [Slots -> Nat]
      BY <3>1, <3>3, <3>5
    <3> QED BY <1>0, <3>2, <3>5, <3>6
  <2>11. CASE UNCHANGED vars BY <2>11 DEF vars, task, kernel, ready
  <2> QED
    BY <2>1, <2>2, <2>3, <2>4, <2>5, <2>6, <2>7, <2>8, <2>9, <2>10, <2>11, Zenon DEF Next, Task
<1>3. BatchInv /\ SlotTypes => TypeOK
  <2> SUFFICES ASSUME BatchInv, SlotTypes PROVE TypeOK
    OBVIOUS
  <2>1. now \in 0 .. MaxTime BY <1>0 DEF BatchInv, BatchTypes, SlotTypes
  <2>2. {tx_lens, tx_at} \subseteq [Slots -> Nat] /\ {writable, readable} \subseteq BOOLEAN
    BY DEF SlotTypes
  <2>3. /\ made \in Seq([size : Nat, at : Nat]) /\ wire \in Seq([id : Nat, size : Nat, time : Nat])
        /\ batch \in [count : 0 .. BatchSize, drained : BOOLEAN, start : Nat, sent : Nat, end : Nat]
        /\ space \in 0 .. SendSpace
    BY DEF BatchInv, BatchTypes, Datagrams, Messages, Batches
  <2>4. /\ pc \in {"pace", "send", "writable"} => batch.start \in 1 .. batch.count
        /\ pc \in {"send", "writable"} =>
              batch.start <= batch.sent /\ batch.sent < batch.end /\ batch.end <= batch.count + 1
    <3>1. batch.count \in Nat /\ batch.start \in Nat /\ batch.sent \in Nat /\ batch.end \in Nat
      BY <1>0 DEF BatchInv, BatchTypes, Batches
    <3> QED BY <3>1 DEF BatchInv, Progressing
  <2> QED BY <2>1, <2>2, <2>3, <2>4 DEF SlotTypes, TypeOK
<1> QED BY <1>1, <1>2, <1>3, BatchInvariant, PTL DEF Spec

-----------------------------------------------------------------------------
(* udp.rs, try_recv_batch: the lengths that are not 0 among those of a batch  *)
(* are the sizes that fit among those of its datagrams.                      *)
LEMMA BatchReceived ==
    ASSUME arrived \in Seq(Nat), taken \in 0 .. Len(arrived),
           NEW n \in Nat, n <= Len(arrived) - taken
    PROVE  Keep([i \in 1 .. n |-> Length(arrived[taken + i])], Nat \ {0})
              = Keep(SubSeq(arrived, taken + 1, taken + n), 1 .. BufferSize)
<1> DEFINE lens == [i \in 1 .. n |-> Length(arrived[taken + i])]
           sizes == SubSeq(arrived, taken + 1, taken + n)
<1>0. BufferSize \in Nat /\ Len(arrived) \in Nat /\ taken \in Nat BY UdpBatchConfig
<1>1. sizes \in Seq(Nat) /\ Len(sizes) = n
      /\ \A i \in 1 .. n : sizes[i] = arrived[taken + i]
  <2>1. \A i \in taken + 1 .. taken + n : i \in 1 .. Len(arrived) BY <1>0
  <2>2. sizes = [i \in 1 .. n |-> arrived[taken + i]]
    BY <1>0
  <2>3. \A i \in 1 .. n : arrived[taken + i] \in Nat
    <3>1. \A i \in 1 .. n : taken + i \in 1 .. Len(arrived) BY <1>0
    <3> QED BY <3>1, ElementOfSeq
  <2> QED BY <2>2, <2>3
<1>2. ASSUME NEW i \in 1 .. n
      PROVE  /\ lens[i] \in Nat
             /\ lens[i] \in Nat \ {0} <=> sizes[i] \in 1 .. BufferSize
             /\ lens[i] \in Nat \ {0} => lens[i] = sizes[i]
  <2>1. taken + i \in 1 .. Len(arrived) BY <1>0
  <2>2. arrived[taken + i] \in Nat BY <2>1, ElementOfSeq
  <2>3. lens[i] = Length(sizes[i]) /\ sizes[i] \in Nat BY <1>1, <2>2
  <2> HIDE DEF lens, sizes
  <2> QED BY <1>0, <2>3 DEF Length
<1>3. lens \in Seq(Nat) /\ Len(lens) = n BY <1>2
<1> HIDE DEF lens, sizes
<1>4. Keep(lens, Nat \ {0}) = Keep(sizes, 1 .. BufferSize) 
  <2>1. Len(lens) = Len(sizes) BY <1>1, <1>3
  <2>2. \A i \in 1 .. Len(lens) :
           /\ lens[i] \in Nat \ {0} <=> sizes[i] \in 1 .. BufferSize
           /\ lens[i] \in Nat \ {0} => lens[i] = sizes[i]
    BY <1>2, <1>3
  <2>3. lens \in Seq(Nat) /\ sizes \in Seq(Nat) BY <1>1, <1>3
  <2> DEFINE positive == Nat \ {0}
             fitting == 1 .. BufferSize
  <2> HIDE DEF positive, fitting
  <2>4. \A i \in 1 .. Len(lens) : /\ lens[i] \in positive <=> sizes[i] \in fitting
                                  /\ lens[i] \in positive => lens[i] = sizes[i]
    BY <2>2 DEF positive, fitting
  <2>5. Keep(lens, positive) = Keep(sizes, fitting) BY <2>1, <2>3, <2>4, KeepAlike
  <2> QED BY <2>5 DEF positive, fitting
<1> QED BY <1>4 DEF lens, sizes

(* udp.rs, drain_quic: quiche is given every datagram taken from the socket,  *)
(* in order, except empty and truncated ones.                               *)
THEOREM ReceivedAsTaken == Spec => []ReceivedExact
<1>0. BatchSize \in Nat BY UdpBatchConfig
<1>1. Init => ReceivedExact
  <2> SUFFICES ASSUME Init PROVE ReceivedExact
    OBVIOUS
  <2> DEFINE old == SubSeq(arrived, 1, taken)
  <2>1. old \in Seq(Nat) /\ Len(old) = 0 BY DEF Init
  <2> HIDE DEF old
  <2>2. Keep(old, 1 .. BufferSize) = <<>> BY <2>1, KeepNothing
  <2> QED BY <2>2 DEF Init, ReceivedExact, old
<1>2. TypeOK /\ ReceivedExact /\ [Next]_vars => ReceivedExact'
  <2> SUFFICES ASSUME TypeOK, ReceivedExact, [Next]_vars PROVE ReceivedExact'
    OBVIOUS
  <2>1. arrived \in Seq(Nat) /\ taken \in 0 .. Len(arrived) /\ Len(arrived) \in Nat
    BY DEF TypeOK
  <2>2. CASE Receive
    <3> DEFINE n == Min({BatchSize, Len(arrived) - taken})
               lens == [i \in 1 .. n |-> Length(arrived[taken + i])]
               new == SubSeq(arrived, taken + 1, taken + n)
               old == SubSeq(arrived, 1, taken)
    <3>1. taken' = taken + n /\ got' = got \o Keep(lens, Nat \ {0}) /\ arrived' = arrived
      BY <2>2 DEF Receive
    <3>2. n \in Nat /\ n <= Len(arrived) - taken
      <4>1. Len(arrived) - taken \in Nat BY <2>1
      <4> QED BY <1>0, <4>1, MinOfTwo
    <3>3. Keep(lens, Nat \ {0}) = Keep(new, 1 .. BufferSize)
      <4> HIDE DEF n
      <4> QED BY <2>1, <3>2, BatchReceived
    <3> HIDE DEF n, lens
    <3>4. old \o new = SubSeq(arrived, 1, taken + n)
      <4>1. 1 \in 1 .. Len(arrived) + 1 /\ taken \in 1 - 1 .. Len(arrived)
            /\ taken + n \in taken .. Len(arrived)
        BY <2>1, <3>2
      <4> QED BY <2>1, <4>1, ConcatAdjacentSubSeq
    <3>5. old \in Seq(Nat) /\ new \in Seq(Nat)
      <4>1. \A i \in 1 .. taken : i \in 1 .. Len(arrived) BY <2>1
      <4>2. \A i \in taken + 1 .. taken + n : i \in 1 .. Len(arrived) BY <2>1, <3>2
      <4> QED BY <2>1, <3>2, <4>1, <4>2, SubSeqProperties
    <3> HIDE DEF old, new
    <3>6. Keep(old \o new, 1 .. BufferSize)
             = Keep(old, 1 .. BufferSize) \o Keep(new, 1 .. BufferSize)
      BY <3>5, KeepConcat
    <3>7. got = Keep(old, 1 .. BufferSize) BY DEF ReceivedExact, old
    <3> QED BY <3>1, <3>3, <3>4, <3>6, <3>7 DEF ReceivedExact
  <2>3. CASE Arrive
    <3>1. PICK size \in ArrivalSizes : arrived' = Append(arrived, size) BY <2>3 DEF Arrive
    <3>2. taken' = taken /\ got' = got BY <2>3 DEF Arrive
    <3>3. size \in Nat BY UdpBatchConfig
    <3>4. SubSeq(Append(arrived, size), 1, taken) = SubSeq(arrived, 1, taken)
      BY <2>1, <3>3
    <3> QED BY <3>1, <3>2, <3>4 DEF ReceivedExact
  <2>4. CASE ~ Receive /\ ~ Arrive
    <3>1. UNCHANGED <<arrived, taken, got>>
      BY <2>4 DEF Next, Task, Tick, Transmit, Wake, ReceiveBlocks, Fill, FillEnds, Coalesce,
                  SendBatch, SendBlocks, Writable, Fails, vars, kernel
    <3> QED BY <3>1 DEF ReceivedExact
  <2> QED BY <2>2, <2>3, <2>4
<1> QED BY <1>1, <1>2, TypeCorrect, PTL DEF Spec

=============================================================================
