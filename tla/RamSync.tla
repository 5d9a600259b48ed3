------------------------------ MODULE RamSync -------------------------------
(***************************************************************************)
(* One direction of the RAM-sync transport (ramsync_upper.c, desc_buf.c):  *)
(* the sending node's tx task, the cyclic SPI DMA that mirrors its         *)
(* transmit slots into the receive slots of the other node, and the        *)
(* receiving node's rx task.                                               *)
(*                                                                         *)
(* Each slot carries a message with a sequence number and a checksum, and  *)
(* in the opposite direction the number of the last message received       *)
(* (rseq).  There is no lock between the tasks and the DMA: the tx task    *)
(* fills a slot field by field while the DMA sends it word by word, and    *)
(* the rx task copies a slot that the DMA is overwriting.  What keeps the  *)
(* messages whole is the checksum, what keeps them in order is that the rx *)
(* task takes only the number after rseq, and what keeps them all is that  *)
(* the tx task reuses a slot only when its number has been acknowledged.   *)
(*                                                                         *)
(* A message stands for its length and bytes, its checksum for the number  *)
(* and the message it was computed over (CRC-32 taken as collision free).  *)
(* seqtmp and p_rx_cache are cleared when they are no longer used.         *)
(***************************************************************************)
EXTENDS Naturals, Sequences

CONSTANTS
  NSlot,      \* TP_TXPAYLOAD_NUM = TP_RXPAYLOAD_NUM
  TxDescNum,  \* TP_TXDESC_NUM
  RxDescNum,  \* TP_RXDESC_NUM
  SeqMax,     \* largest uint32_t
  MaxSent,    \* bound: messages the application sends
  MaxReset    \* bound: resets of the link

Slot == 1 .. NSlot
Msg == 0 .. MaxSent
Seqno == 0 .. SeqMax

ASSUME ConstantsAssumption ==
  /\ NSlot \in Nat \ {0} /\ TxDescNum \in Nat \ {0} /\ RxDescNum \in Nat \ {0}
  /\ MaxSent \in Nat /\ MaxReset \in Nat /\ SeqMax \in Nat \ {0}

(* The numbers do not wrap within the messages considered.  When they do,  *)
(* the test for an empty slot takes the message numbered 0 for an          *)
(* acknowledged one.                                                       *)
ASSUME NoWrapAssumption == MaxSent < SeqMax

VARIABLES
  tx_desc,    \* sender: uramsync->tx_desc, head first
  tx_seq,     \* sender: uramsync->tx_seq
  p_tx,       \* sender: p_tx->payload[i], fields seq, msg (len and buf) and crc
  ack,        \* sender: p_rx->payload[i].rseq
  txpc, slottmp,          \* tx task
  dma_i, dma_pc,          \* DMA: node of the LLI ring, next words to transfer
  p_rx,       \* receiver: p_rx->payload[i]
  rseq,       \* receiver: p_tx->payload[i].rseq, the same in every slot
  rx_sem,     \* receiver: binary semaphore
  p_rx_cache, seqtmp, rxi, rxpc,      \* rx task
  rx_desc,    \* receiver: uramsync->rx_desc
  nsent, resets,          \* bounds: pushes and resets so far
  log,        \* history: messages in the order they left tx_desc
  base,       \* history: Len(log) when the numbers last restarted
  popped      \* history: messages the receiving application took

txVars == <<tx_seq, p_tx, txpc, slottmp>>
dmaVars == <<dma_i, dma_pc, p_rx, ack>>
rxVars == <<rseq, p_rx_cache, seqtmp, rxi, rxpc>>
boundVars == <<nsent, resets>>
vars == <<tx_desc, tx_seq, p_tx, ack, txpc, slottmp, dma_i, dma_pc, p_rx, rseq, rx_sem,
          p_rx_cache, seqtmp, rxi, rxpc, rx_desc, nsent, resets, log, base, popped>>

(* uint32_t increment. *)
SeqNext(s) == IF s = SeqMax THEN 0 ELSE s + 1

(* utils_crc32_stream over len, seq and buf. *)
Crc(s, m) == [seq |-> s, msg |-> m]

(* A slot after memset: no message, and the checksum of no bytes. *)
EmptySlot == [seq |-> 0, msg |-> 0, crc |-> Crc(0, 0)]

(* Stores into one field of a slot. *)
WithSeq(slot, s) == [seq |-> s, msg |-> slot.msg, crc |-> slot.crc]
WithMsg(slot, m) == [seq |-> slot.seq, msg |-> m, crc |-> slot.crc]
WithCrc(slot, c) == [seq |-> slot.seq, msg |-> slot.msg, crc |-> c]

(* What a copy of message m finds: while the message is being changed, a   *)
(* mixture that is no message.                                             *)
Read(m, changing) == IF changing THEN {m, 0} ELSE {m}

Init ==
  /\ tx_desc = <<>> /\ rx_desc = <<>>
  /\ tx_seq = 0 /\ rseq = 0
  /\ p_tx = [i \in Slot |-> EmptySlot] /\ p_rx = [i \in Slot |-> EmptySlot]
  /\ ack = [i \in Slot |-> 0]
  /\ txpc = "desc" /\ slottmp = 1
  /\ dma_i = 1 /\ dma_pc = "hdr"
  /\ rx_sem = FALSE
  /\ p_rx_cache = EmptySlot /\ seqtmp = 0 /\ rxi = 1 /\ rxpc = "wait"
  /\ nsent = 0 /\ resets = 0
  /\ log = <<>> /\ base = 0 /\ popped = <<>>

-----------------------------------------------------------------------------
(* The applications. *)

(* Mutant: the queue is not tested for room. *)
Pushed_NoRoomTest(q) ==
  /\ nsent < MaxSent /\ nsent' = nsent + 1
  /\ tx_desc' = q
  /\ UNCHANGED <<txVars, dmaVars, rxVars, rx_sem, rx_desc, resets, log, base, popped>>

Pushed(q) ==
  /\ nsent < MaxSent /\ nsent' = nsent + 1
  /\ Len(tx_desc) < TxDescNum
  /\ tx_desc' = q
  /\ UNCHANGED <<txVars, dmaVars, rxVars, rx_sem, rx_desc, resets, log, base, popped>>

uramsync_tx_push_toback == Pushed(Append(tx_desc, nsent + 1))

uramsync_tx_push_tofront == Pushed(<<nsent + 1>> \o tx_desc)

uramsync_rx_pop ==
  /\ rx_desc # <<>>
  /\ popped' = Append(popped, Head(rx_desc))
  /\ rx_desc' = Tail(rx_desc)
  /\ UNCHANGED <<tx_desc, txVars, dmaVars, rxVars, rx_sem, boundVars, log, base>>

-----------------------------------------------------------------------------
(* The sending node: uramsync_task_tx. *)

(* Mutant: a slot counts as empty one number too early. *)
EmptyTxSlot_OffByOne(i) == p_tx[i].seq <= ack[i] + 1

(* The slots are scanned while the DMA updates the acknowledgements, so    *)
(* any slot that is empty may be the one found.                            *)
EmptyTxSlot(i) == p_tx[i].seq <= ack[i]

(* There is a message and an empty slot: the message goes into the slot. *)
tx_fill ==
  /\ txpc = "desc" /\ tx_desc # <<>>
  /\ \E i \in Slot :
       /\ EmptyTxSlot(i)
       /\ slottmp' = i
       /\ p_tx' = [p_tx EXCEPT ![i] = WithMsg(@, Head(tx_desc))]
  /\ log' = Append(log, Head(tx_desc))
  /\ tx_desc' = Tail(tx_desc)
  /\ txpc' = "seq"
  /\ UNCHANGED <<tx_seq, dmaVars, rxVars, rx_sem, rx_desc, boundVars, base, popped>>

tx_number ==
  /\ txpc = "seq"
  /\ tx_seq' = SeqNext(tx_seq)
  /\ p_tx' = [p_tx EXCEPT ![slottmp] = WithSeq(@, SeqNext(tx_seq))]
  /\ txpc' = "crc"
  /\ UNCHANGED <<tx_desc, slottmp, dmaVars, rxVars, rx_sem, rx_desc, boundVars, log,
                 base, popped>>

tx_checksum ==
  /\ txpc = "crc"
  /\ p_tx' = [p_tx EXCEPT ![slottmp] = WithCrc(@, Crc(@.seq, @.msg))]
  /\ txpc' = "desc"
  /\ UNCHANGED <<tx_desc, tx_seq, slottmp, dmaVars, rxVars, rx_sem, rx_desc, boundVars,
                 log, base, popped>>

-----------------------------------------------------------------------------
(* The DMA on both nodes: one slot after the other, in address order, with *)
(* the completion callback of the receiver after each.                     *)

dma_header ==
  /\ dma_pc = "hdr" /\ dma_pc' = "buf"
  /\ p_rx' = [p_rx EXCEPT ![dma_i] = WithSeq(@, p_tx[dma_i].seq)]
  /\ ack' = [ack EXCEPT ![dma_i] = rseq]
  /\ UNCHANGED <<tx_desc, txVars, dma_i, rxVars, rx_sem, rx_desc, boundVars, log, base,
                 popped>>

dma_buf ==
  /\ dma_pc = "buf" /\ dma_pc' = "crc"
  /\ \E m \in Read(p_tx[dma_i].msg, txpc = "seq" /\ slottmp = dma_i) :
       p_rx' = [p_rx EXCEPT ![dma_i] = WithMsg(@, m)]
  /\ UNCHANGED <<tx_desc, txVars, dma_i, ack, rxVars, rx_sem, rx_desc, boundVars, log,
                 base, popped>>

(* Mutant: the callback looks for the number last received. *)
HasNews_LastReceived(slots) == \E i \in Slot : slots[i].seq = rseq /\ rseq # 0

(* __ramsync_low_rx_cb wakes the rx task if some slot holds what it wants. *)
HasNews(slots) == \E i \in Slot : slots[i].seq = SeqNext(rseq)

dma_crc ==
  /\ dma_pc = "crc" /\ dma_pc' = "hdr"
  /\ p_rx' = [p_rx EXCEPT ![dma_i] = WithCrc(@, p_tx[dma_i].crc)]
  /\ dma_i' = IF dma_i = NSlot THEN 1 ELSE dma_i + 1
  /\ rx_sem' = (rx_sem \/ HasNews(p_rx'))
  /\ UNCHANGED <<tx_desc, txVars, ack, rxVars, rx_desc, boundVars, log, base, popped>>

-----------------------------------------------------------------------------
(* The receiving node: uramsync_task_rx. *)

rx_wake ==
  /\ rxpc = "wait" /\ rx_sem
  /\ rx_sem' = FALSE
  /\ rxpc' = "scan" /\ rxi' = 1
  /\ UNCHANGED <<tx_desc, txVars, dmaVars, rseq, p_rx_cache, seqtmp, rx_desc, boundVars,
                 log, base, popped>>

(* continue: the next slot, or the semaphore again after the last. *)
NextSlot ==
  IF rxi = NSlot THEN rxpc' = "wait" /\ rxi' = 1 ELSE rxpc' = "scan" /\ rxi' = rxi + 1

(* seq is read and compared with rseq + 1. *)
rx_scan ==
  /\ rxpc = "scan"
  /\ \/ /\ p_rx[rxi].seq = SeqNext(rseq)
        /\ seqtmp' = p_rx[rxi].seq
        /\ rxpc' = "copy" /\ UNCHANGED rxi
     \/ /\ p_rx[rxi].seq # SeqNext(rseq)
        /\ NextSlot /\ UNCHANGED seqtmp
  /\ UNCHANGED <<tx_desc, txVars, dmaVars, rseq, p_rx_cache, rx_sem, rx_desc, boundVars,
                 log, base, popped>>

(* ramsync_fast_memcpy: the header ... *)
rx_copy_header ==
  /\ rxpc = "copy" /\ rxpc' = "buf"
  /\ p_rx_cache' = WithSeq(p_rx_cache, p_rx[rxi].seq)
  /\ UNCHANGED <<tx_desc, txVars, dmaVars, rseq, seqtmp, rxi, rx_sem, rx_desc, boundVars,
                 log, base, popped>>

(* ... and the payload, which the DMA may be replacing by another one. *)
rx_copy_buf ==
  /\ rxpc = "buf" /\ rxpc' = "crc"
  /\ \E m \in Read(p_rx[rxi].msg, dma_pc = "buf" /\ dma_i = rxi
                                     /\ p_rx[rxi].msg # p_tx[rxi].msg) :
       p_rx_cache' = WithMsg(p_rx_cache, m)
  /\ UNCHANGED <<tx_desc, txVars, dmaVars, rseq, seqtmp, rxi, rx_sem, rx_desc, boundVars,
                 log, base, popped>>

rx_copy == rx_copy_header \/ rx_copy_buf

(* Mutant: the checksum is not compared. *)
CacheValid_NoCrc(c) == c.seq = seqtmp

CacheValid(c) == c.seq = seqtmp /\ c.crc = Crc(c.seq, c.msg)

(* The checksum is copied and the copy judged. *)
rx_check ==
  LET cache == WithCrc(p_rx_cache, p_rx[rxi].crc) IN
  /\ rxpc = "crc"
  /\ seqtmp' = 0
  /\ \/ CacheValid(cache) /\ p_rx_cache' = cache /\ rxpc' = "push" /\ UNCHANGED rxi
     \/ ~CacheValid(cache) /\ p_rx_cache' = EmptySlot /\ NextSlot
  /\ UNCHANGED <<tx_desc, txVars, dmaVars, rseq, rx_sem, rx_desc, boundVars, log, base,
                 popped>>

(* desc_push_toback, tried again while rx_desc is full. *)
rx_push ==
  /\ rxpc = "push" /\ rxpc' = "ack"
  /\ Len(rx_desc) < RxDescNum
  /\ rx_desc' = Append(rx_desc, p_rx_cache.msg)
  /\ UNCHANGED <<tx_desc, txVars, dmaVars, rseq, p_rx_cache, seqtmp, rxi, rx_sem,
                 boundVars, log, base, popped>>

(* rseq is written to all slots in a critical section. *)
rx_rseq_update ==
  /\ rxpc = "ack" /\ rxpc' = "wait"
  /\ rseq' = p_rx_cache.seq /\ p_rx_cache' = EmptySlot
  /\ UNCHANGED <<tx_desc, txVars, dmaVars, seqtmp, rxi, rx_sem, rx_desc, boundVars, log,
                 base, popped>>

-----------------------------------------------------------------------------
(* A reset of the link, on both nodes: the master finds a slot without the *)
(* magic number or the slave sees the reset pin, both tasks of a node pass *)
(* first_point, __uramsync_reset_logic clears the slots, the numbers, the  *)
(* semaphores and the cache, and the DMA starts over.  The master's tasks  *)
(* stay stopped for a second, in which the slave finishes its own reset.   *)
(* The descriptor queues are kept.                                         *)
uramsync_reset ==
  /\ resets < MaxReset /\ resets' = resets + 1
  /\ tx_seq' = 0 /\ rseq' = 0
  /\ p_tx' = [i \in Slot |-> EmptySlot] /\ p_rx' = [i \in Slot |-> EmptySlot]
  /\ ack' = [i \in Slot |-> 0]
  /\ txpc' = "desc" /\ slottmp' = 1
  /\ dma_i' = 1 /\ dma_pc' = "hdr"
  /\ rx_sem' = FALSE
  /\ p_rx_cache' = EmptySlot /\ seqtmp' = 0 /\ rxi' = 1 /\ rxpc' = "wait"
  /\ log' = popped \o rx_desc
  /\ base' = Len(popped) + Len(rx_desc)
  /\ UNCHANGED <<tx_desc, rx_desc, nsent, popped>>

-----------------------------------------------------------------------------
TxTask == tx_fill \/ tx_number \/ tx_checksum
Dma == dma_header \/ dma_buf \/ dma_crc
RxTask == rx_wake \/ rx_scan \/ rx_copy \/ rx_check \/ rx_push \/ rx_rseq_update

Next ==
  \/ uramsync_tx_push_toback \/ uramsync_tx_push_tofront \/ uramsync_rx_pop
  \/ TxTask \/ Dma \/ RxTask
  \/ uramsync_reset

Spec == Init /\ [][Next]_vars

(* The tasks run, the DMA never stops, and the receiving application keeps *)
(* taking messages.                                                        *)
FairSpec ==
  /\ Spec
  /\ WF_vars(TxTask) /\ WF_vars(Dma) /\ WF_vars(RxTask) /\ WF_vars(uramsync_rx_pop)

-----------------------------------------------------------------------------
(* Properties. *)

SlotRec == [seq : Seqno, msg : Msg, crc : [seq : Seqno, msg : Msg]]

(* Every variable has its type. *)
TypeOK ==
  /\ tx_desc \in Seq(Msg) /\ rx_desc \in Seq(Msg)
  /\ Len(tx_desc) <= TxDescNum /\ Len(rx_desc) <= RxDescNum
  /\ tx_seq \in Seqno /\ rseq \in Seqno /\ seqtmp \in Seqno
  /\ p_tx \in [Slot -> SlotRec] /\ p_rx \in [Slot -> SlotRec]
  /\ ack \in [Slot -> Seqno] /\ p_rx_cache \in SlotRec
  /\ txpc \in {"desc", "seq", "crc"} /\ slottmp \in Slot
  /\ dma_i \in Slot /\ dma_pc \in {"hdr", "buf", "crc"}
  /\ rx_sem \in BOOLEAN /\ rxi \in Slot
  /\ rxpc \in {"wait", "scan", "copy", "buf", "crc", "push", "ack"}
  /\ nsent \in 0 .. MaxSent /\ resets \in 0 .. MaxReset
  /\ log \in Seq(Msg) /\ base \in Nat /\ popped \in Seq(Msg)

(* Messages arrive whole, once and in the order they left tx_desc: what    *)
(* the rx task has passed on is a prefix of what the tx task has sent,     *)
(* although slots are read while they are written on both nodes.           *)
InOrder ==
  /\ Len(popped) + Len(rx_desc) <= Len(log)
  /\ \A k \in 1 .. Len(popped) : popped[k] = log[k]
  /\ \A k \in 1 .. Len(rx_desc) : rx_desc[k] = log[Len(popped) + k]

(* Number of the last message passed on to rx_desc. *)
Passed == IF rxpc = "ack" THEN rseq + 1 ELSE rseq

(* Message number k is whole in transmit slot i. *)
Holds(i, k) ==
  /\ p_tx[i].seq = k /\ p_tx[i].msg = log[base + k]
  /\ (txpc = "crc" /\ slottmp = i) \/ p_tx[i].crc = Crc(k, log[base + k])

(* No slot is reused too early: every message that was numbered and not    *)
(* yet passed on to rx_desc is still whole in a transmit slot, its         *)
(* checksum in place unless the tx task is about to write it.              *)
NoOverwrite == \A k \in (Passed + 1) .. tx_seq : \E i \in Slot : Holds(i, k)

(* The sender never believes in an acknowledgement that was not given, and *)
(* the receiver gives none for a message that was not sent.                *)
AckHonest == Passed <= tx_seq /\ \A i \in Slot : ack[i] <= rseq

-----------------------------------------------------------------------------
(* The inductive invariant. *)

(* The histories, the numbers and the queues count the same messages. *)
Counts ==
  /\ Len(log) + Len(tx_desc) <= nsent
  /\ Len(log) = base + tx_seq + (IF txpc = "seq" THEN 1 ELSE 0)
  /\ Len(popped) + Len(rx_desc) = base + Passed

(* The slot the tx task is filling: its message is the last of log, its    *)
(* old number is acknowledged.                                             *)
Filling ==
  /\ txpc = "seq" => /\ p_tx[slottmp].msg = log[base + tx_seq + 1]
                     /\ p_tx[slottmp].seq <= rseq
  /\ txpc = "crc" => p_tx[slottmp].msg = log[base + tx_seq] /\ p_tx[slottmp].seq = tx_seq

(* A checksum is that of an empty slot or of a message under its number. *)
CrcTrue(c) == c.seq = 0 \/ (c.seq \in 1 .. tx_seq /\ c.msg = log[base + c.seq])

Checksums == \A i \in Slot : CrcTrue(p_tx[i].crc) /\ CrcTrue(p_rx[i].crc)

(* The copy of the rx task. *)
CacheTrue ==
  /\ rxpc \in {"copy", "buf", "crc"} => seqtmp = rseq + 1
  /\ rxpc \in {"push", "ack"} =>
       /\ p_rx_cache.seq = rseq + 1 /\ rseq + 1 <= tx_seq
       /\ p_rx_cache.msg = log[base + rseq + 1]

IInv ==
  /\ TypeOK /\ Counts /\ Filling /\ Checksums /\ CacheTrue
  /\ AckHonest /\ InOrder /\ NoOverwrite

(* The transport is a FIFO line of bounded length that loses messages only *)
(* in a reset: refinement of RamChannel.                                   *)
Channel == INSTANCE RamChannel WITH
  QueueLen <- TxDescNum, LineLen <- NSlot + RxDescNum,
  queue <- tx_desc, line <- SubSeq(log, Len(popped) + 1, Len(log)), arrived <- popped

ChannelSpec == Channel!Spec

(* Once the sending application stops (nsent = MaxSent) everything it      *)
(* pushed and no reset took back reaches the receiving application: the    *)
(* semaphore, the acknowledgements and the DMA never leave the two tasks   *)
(* waiting for each other.                                                 *)
Arrives == (nsent = MaxSent) ~> (tx_desc = <<>> /\ popped = log)

=============================================================================
