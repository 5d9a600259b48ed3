--------------------------- MODULE RamSyncProofs ----------------------------
(***************************************************************************)
(* Proofs about RamSync, for every number of slots, every queue length and *)
(* every number of messages below the range of the sequence numbers.       *)
(***************************************************************************)
EXTENDS RamSync, TLAPS, FiniteSetTheorems, SequenceTheorems

(* The sequence numbers stay below their maximum, so that adding one is    *)
(* plain addition.                                                         *)
LEMMA NoWrap ==
  ASSUME IInv
  PROVE  /\ rseq \in Nat /\ tx_seq \in Nat /\ Len(log) \in Nat
         /\ rseq <= tx_seq
         /\ tx_seq < SeqMax
         /\ txpc = "seq" => tx_seq + 1 < SeqMax
         /\ SeqNext(rseq) = rseq + 1 /\ SeqNext(rseq) \in Seqno
         /\ SeqNext(tx_seq) = tx_seq + 1 /\ SeqNext(tx_seq) \in Seqno
<1>1. rseq \in Nat /\ tx_seq \in Nat /\ base \in Nat /\ nsent \in Nat /\ nsent <= MaxSent
  BY ConstantsAssumption DEF IInv, TypeOK, Seqno
<1>2. Len(log) \in Nat /\ Len(tx_desc) \in Nat
  BY LenProperties DEF IInv, TypeOK
<1>3. rseq <= tx_seq
  BY <1>1 DEF IInv, AckHonest, Passed
<1>4. tx_seq < SeqMax /\ (txpc = "seq" => tx_seq + 1 < SeqMax)
  BY <1>1, <1>2, ConstantsAssumption, NoWrapAssumption DEF IInv, Counts
<1> QED
  BY <1>1, <1>2, <1>3, <1>4, ConstantsAssumption DEF SeqNext, Seqno

(* The messages of an empty slot and of a checksum have their types. *)
LEMMA EmptySlotType == EmptySlot \in SlotRec
  BY ConstantsAssumption DEF EmptySlot, SlotRec, Crc, Seqno, Msg

(* The type invariant is preserved by every step. *)
LEMMA TypeStep ==
  ASSUME IInv, [Next]_vars
  PROVE  TypeOK'
<1> USE ConstantsAssumption
<1>t. TypeOK
  BY DEF IInv
<1>n. /\ SeqNext(rseq) \in Seqno /\ SeqNext(tx_seq) \in Seqno
  BY NoWrap
<1>1. CASE uramsync_tx_push_toback \/ uramsync_tx_push_tofront
  <2>1. nsent + 1 \in Msg /\ nsent' = nsent + 1 /\ nsent' \in 0 .. MaxSent
    BY <1>1, <1>t DEF uramsync_tx_push_toback, uramsync_tx_push_tofront, Pushed, TypeOK, Msg
  <2>2. <<nsent + 1>> \in Seq(Msg) /\ Len(<<nsent + 1>>) = 1
    BY <2>1
  <2>3. tx_desc' \in Seq(Msg) /\ Len(tx_desc') <= TxDescNum
    <3>1. CASE uramsync_tx_push_toback
      BY <3>1, <2>1, <1>t DEF uramsync_tx_push_toback, Pushed, TypeOK
    <3>2. CASE uramsync_tx_push_tofront
      <4>1. /\ <<nsent + 1>> \o tx_desc \in Seq(Msg)
            /\ Len(<<nsent + 1>> \o tx_desc) = 1 + Len(tx_desc)
        BY <2>2, <1>t, ConcatProperties DEF TypeOK
      <4> QED
        BY <4>1, <3>2, <1>t DEF uramsync_tx_push_tofront, Pushed, TypeOK
    <3> QED
      BY <1>1, <3>1, <3>2
  <2> QED
    BY <1>1, <1>t, <2>1, <2>3
    DEF uramsync_tx_push_toback, uramsync_tx_push_tofront, Pushed, TypeOK, txVars, dmaVars,
        rxVars
<1>2. CASE uramsync_rx_pop
  <2>1. Head(rx_desc) \in Msg /\ Tail(rx_desc) \in Seq(Msg) /\ Len(Tail(rx_desc)) = Len(rx_desc) - 1
    BY <1>2, <1>t, HeadTailProperties DEF uramsync_rx_pop, TypeOK
  <2> QED
    BY <1>2, <1>t, <2>1
    DEF uramsync_rx_pop, TypeOK, txVars, dmaVars, rxVars, boundVars
<1>3. CASE tx_fill
  <2>1. Head(tx_desc) \in Msg /\ Tail(tx_desc) \in Seq(Msg) /\ Len(Tail(tx_desc)) = Len(tx_desc) - 1
    BY <1>3, <1>t, HeadTailProperties DEF tx_fill, TypeOK
  <2>2. p_tx' \in [Slot -> SlotRec] /\ slottmp' \in Slot
    BY <1>3, <1>t, <2>1 DEF tx_fill, TypeOK, SlotRec, WithMsg
  <2> QED
    BY <1>3, <1>t, <2>1, <2>2 DEF tx_fill, TypeOK, dmaVars, rxVars, boundVars
<1>4. CASE tx_number
  <2>1. p_tx' \in [Slot -> SlotRec]
    BY <1>4, <1>t, <1>n DEF tx_number, TypeOK, SlotRec, WithSeq
  <2> QED
    BY <1>4, <1>t, <1>n, <2>1 DEF tx_number, TypeOK, dmaVars, rxVars, boundVars
<1>5. CASE tx_checksum
  <2>1. p_tx' \in [Slot -> SlotRec]
    BY <1>5, <1>t DEF tx_checksum, TypeOK, SlotRec, WithCrc, Crc
  <2> QED
    BY <1>5, <1>t, <2>1 DEF tx_checksum, TypeOK, dmaVars, rxVars, boundVars
<1>6. CASE dma_header
  <2>1. p_rx' \in [Slot -> SlotRec] /\ ack' \in [Slot -> Seqno]
    BY <1>6, <1>t DEF dma_header, TypeOK, SlotRec, WithSeq
  <2> QED
    BY <1>6, <1>t, <2>1 DEF dma_header, TypeOK, txVars, rxVars, boundVars
<1>7. CASE dma_buf
  <2>0. p_tx[dma_i].msg \in Msg /\ 0 \in Msg
    BY <1>t DEF TypeOK, SlotRec, Msg
  <2>1. p_rx' \in [Slot -> SlotRec]
    BY <1>7, <1>t, <2>0 DEF dma_buf, TypeOK, SlotRec, WithMsg, Read
  <2> QED
    BY <1>7, <1>t, <2>1 DEF dma_buf, TypeOK, txVars, rxVars, boundVars
<1>8. CASE dma_crc
  <2>1. p_rx' \in [Slot -> SlotRec]
    BY <1>8, <1>t DEF dma_crc, TypeOK, SlotRec, WithCrc
  <2>2. dma_i' \in Slot
    BY <1>8, <1>t DEF dma_crc, TypeOK, Slot
  <2>3. rx_sem' \in BOOLEAN
    BY <1>8, <1>t DEF dma_crc, TypeOK, HasNews
  <2> QED
    BY <1>8, <1>t, <2>1, <2>2, <2>3 DEF dma_crc, TypeOK, txVars, rxVars, boundVars
<1>9. CASE rx_wake
  <2>0. rx_sem' = FALSE
    BY <1>9 DEF rx_wake
  <2>1. rx_sem' \in BOOLEAN
    BY <2>0
  <2>3. 1 \in Slot
    BY DEF Slot
  <2>2. /\ rxpc' = "scan" /\ rxi' = 1
        /\ UNCHANGED <<tx_desc, txVars, dmaVars, rseq, p_rx_cache, seqtmp, rx_desc,
                       boundVars, log, base, popped>>
    BY <1>9 DEF rx_wake
  <2> QED
    BY <2>1, <2>2, <2>3, <1>t DEF TypeOK, txVars, dmaVars, boundVars
<1>10. CASE rx_scan
  <2>1. p_rx[rxi].seq \in Seqno
    BY <1>t DEF TypeOK, SlotRec
  <2> QED
    BY <1>10, <1>t, <2>1 DEF rx_scan, NextSlot, TypeOK, txVars, dmaVars, boundVars, Slot
<1>11. CASE rx_copy
  <2>0. p_rx[rxi] \in SlotRec /\ p_rx_cache \in SlotRec /\ 0 \in Msg
    BY <1>t DEF TypeOK, Msg
  <2>1. CASE rx_copy_header
    BY <2>0, <2>1, <1>t
    DEF rx_copy_header, WithSeq, SlotRec, TypeOK, txVars, dmaVars, boundVars
  <2>2. CASE rx_copy_buf
    <3>1. PICK m \in Msg : p_rx_cache' = WithMsg(p_rx_cache, m)
      BY <2>0, <2>2 DEF rx_copy_buf, Read, SlotRec
    <3>2. p_rx_cache' \in SlotRec
      BY <2>0, <3>1 DEF WithMsg, SlotRec
    <3> QED
      BY <2>2, <3>2, <1>t DEF rx_copy_buf, TypeOK, txVars, dmaVars, boundVars
  <2> QED
    BY <1>11, <2>1, <2>2 DEF rx_copy
<1>12. CASE rx_check
  <2>0. WithCrc(p_rx_cache, p_rx[rxi].crc) \in SlotRec
    BY <1>t DEF TypeOK, SlotRec, WithCrc
  <2>1. p_rx_cache' \in SlotRec
    BY <1>12, <2>0, EmptySlotType DEF rx_check
  <2>2. seqtmp' \in Seqno
    BY <1>12 DEF rx_check, Seqno
  <2> QED
    BY <1>12, <1>t, <2>1, <2>2
    DEF rx_check, NextSlot, TypeOK, txVars, dmaVars, boundVars, Slot
<1>13. CASE rx_push
  <2>1. p_rx_cache.msg \in Msg
    BY <1>t DEF TypeOK, SlotRec
  <2> QED
    BY <1>13, <1>t, <2>1 DEF rx_push, TypeOK, txVars, dmaVars, boundVars
<1>14. CASE rx_rseq_update
  <2>1. p_rx_cache.seq \in Seqno
    BY <1>t DEF TypeOK, SlotRec
  <2> QED
    BY <1>14, <1>t, <2>1, EmptySlotType DEF rx_rseq_update, TypeOK, txVars, dmaVars, boundVars
<1>15. CASE uramsync_reset
  <2>1. popped \o rx_desc \in Seq(Msg) /\ Len(popped) + Len(rx_desc) \in Nat
    BY <1>t, ConcatProperties, LenProperties DEF TypeOK
  <2>2. 1 \in Slot /\ 0 \in Seqno
    BY DEF Slot, Seqno
  <2>3. resets' \in 0 .. MaxReset
    BY <1>15, <1>t DEF uramsync_reset, TypeOK
  <2>4. rx_sem' \in BOOLEAN
    BY <1>15 DEF uramsync_reset
  <2>5. p_tx' \in [Slot -> SlotRec] /\ p_rx' \in [Slot -> SlotRec] /\ ack' \in [Slot -> Seqno]
    BY <1>15, <2>2, EmptySlotType DEF uramsync_reset
  <2>6. /\ tx_seq' = 0 /\ rseq' = 0 /\ txpc' = "desc" /\ slottmp' = 1
        /\ dma_i' = 1 /\ dma_pc' = "hdr"
        /\ p_rx_cache' = EmptySlot /\ seqtmp' = 0 /\ rxi' = 1 /\ rxpc' = "wait"
        /\ log' = popped \o rx_desc /\ base' = Len(popped) + Len(rx_desc)
        /\ UNCHANGED <<tx_desc, rx_desc, nsent, popped>>
    BY <1>15 DEF uramsync_reset
  <2> QED
    BY <1>t, <2>1, <2>2, <2>3, <2>4, <2>5, <2>6, EmptySlotType DEF TypeOK
<1>16. CASE UNCHANGED vars
  BY <1>16, <1>t DEF vars, TypeOK
<1> QED
  BY <1>1, <1>2, <1>3, <1>4, <1>5, <1>6, <1>7, <1>8, <1>9, <1>10, <1>11, <1>12, <1>13,
     <1>14, <1>15, <1>16 DEF Next, TxTask, Dma, RxTask

(* The facts about lengths and numbers that the arithmetic steps need. *)
LEMMA Facts ==
  ASSUME IInv
  PROVE  /\ rseq \in Nat /\ tx_seq \in Nat /\ base \in Nat /\ nsent \in Nat
         /\ Len(log) \in Nat /\ Len(popped) \in Nat
         /\ Len(rx_desc) \in Nat /\ Len(tx_desc) \in Nat
         /\ Passed \in Nat /\ rseq <= Passed
         /\ Len(log) = base + tx_seq + (IF txpc = "seq" THEN 1 ELSE 0)
         /\ Len(popped) + Len(rx_desc) = base + Passed
         /\ Len(log) + Len(tx_desc) <= nsent
         /\ Passed <= tx_seq
<1>1. rseq \in Nat /\ tx_seq \in Nat /\ base \in Nat /\ nsent \in Nat
  BY ConstantsAssumption DEF IInv, TypeOK, Seqno
<1>2. /\ Len(log) \in Nat /\ Len(popped) \in Nat
      /\ Len(rx_desc) \in Nat /\ Len(tx_desc) \in Nat
  BY LenProperties DEF IInv, TypeOK
<1>3. Passed \in Nat /\ rseq <= Passed
  BY <1>1 DEF Passed
<1> QED
  BY <1>1, <1>2, <1>3 DEF IInv, Counts, AckHonest

(* The histories and the numbers keep counting the same messages. *)
LEMMA CountsStep ==
  ASSUME IInv, [Next]_vars
  PROVE  Counts'
<1>f. /\ rseq \in Nat /\ tx_seq \in Nat /\ base \in Nat /\ nsent \in Nat
      /\ Len(log) \in Nat /\ Len(popped) \in Nat
      /\ Len(rx_desc) \in Nat /\ Len(tx_desc) \in Nat
  BY Facts
<1>t. /\ log \in Seq(Msg) /\ popped \in Seq(Msg) /\ tx_desc \in Seq(Msg)
      /\ rx_desc \in Seq(Msg) /\ Counts
  BY DEF IInv, TypeOK
<1>1. CASE uramsync_tx_push_toback
  <2>1. Len(tx_desc') = Len(tx_desc) + 1
    BY <1>1, <1>t DEF uramsync_tx_push_toback, Pushed
  <2> QED
    BY <1>1, <1>f, <1>t, <2>1
    DEF uramsync_tx_push_toback, Pushed, Counts, Passed, txVars, rxVars
<1>2. CASE uramsync_tx_push_tofront
  <2>1. nsent + 1 \in Msg
    BY <1>2, <1>f, ConstantsAssumption DEF uramsync_tx_push_tofront, Pushed, Msg
  <2>2. <<nsent + 1>> \in Seq(Msg) /\ Len(<<nsent + 1>>) = 1
    BY <2>1
  <2>3. Len(tx_desc') = Len(tx_desc) + 1
    BY <1>2, <1>f, <1>t, <2>2, ConcatProperties DEF uramsync_tx_push_tofront, Pushed
  <2> QED
    BY <1>2, <1>f, <1>t, <2>3
    DEF uramsync_tx_push_tofront, Pushed, Counts, Passed, txVars, rxVars
<1>3. CASE uramsync_rx_pop
  <2>1. Len(rx_desc') = Len(rx_desc) - 1 /\ Len(popped') = Len(popped) + 1
    BY <1>3, <1>t, HeadTailProperties DEF uramsync_rx_pop
  <2>2. UNCHANGED <<tx_desc, tx_seq, txpc, rseq, rxpc, nsent, log, base>>
    BY <1>3 DEF uramsync_rx_pop, txVars, rxVars, boundVars
  <2>3. Len(popped') + Len(rx_desc') = Len(popped) + Len(rx_desc)
    BY <1>f, <2>1
  <2> QED
    BY <1>t, <2>2, <2>3 DEF Counts, Passed
<1>4. CASE tx_fill
  <2>1. Len(tx_desc') = Len(tx_desc) - 1 /\ Len(log') = Len(log) + 1
    BY <1>4, <1>t, HeadTailProperties DEF tx_fill
  <2> QED
    BY <1>4, <1>f, <1>t, <2>1 DEF tx_fill, Counts, Passed, rxVars, boundVars
<1>5. CASE tx_number
  BY <1>5, <1>f, <1>t, NoWrap DEF tx_number, Counts, Passed, rxVars, boundVars
<1>6. CASE tx_checksum
  BY <1>6, <1>f, <1>t DEF tx_checksum, Counts, Passed, rxVars, boundVars
<1>7. CASE rx_wake
  BY <1>7, <1>f, <1>t DEF rx_wake, Counts, Passed, txVars, boundVars
<1>8. CASE rx_scan
  BY <1>8, <1>f, <1>t DEF rx_scan, NextSlot, Counts, Passed, txVars, boundVars
<1>9. CASE rx_copy
  BY <1>9, <1>f, <1>t
  DEF rx_copy, rx_copy_header, rx_copy_buf, Counts, Passed, txVars, boundVars
<1>10. CASE rx_check
  BY <1>10, <1>f, <1>t DEF rx_check, NextSlot, Counts, Passed, txVars, boundVars
<1>11. CASE rx_push
  <2>1. Len(rx_desc') = Len(rx_desc) + 1
    BY <1>11, <1>t DEF rx_push, IInv, TypeOK, SlotRec
  <2>2. /\ rxpc = "push" /\ rxpc' = "ack"
        /\ UNCHANGED <<tx_desc, tx_seq, txpc, rseq, nsent, log, base, popped>>
    BY <1>11 DEF rx_push, txVars, boundVars
  <2> QED
    BY <1>f, <1>t, <2>1, <2>2 DEF Counts, Passed
<1>12. CASE rx_rseq_update
  <2>1. p_rx_cache.seq = rseq + 1
    BY <1>12 DEF rx_rseq_update, IInv, CacheTrue
  <2> QED
    BY <1>12, <1>f, <1>t, <2>1 DEF rx_rseq_update, Counts, Passed, txVars, boundVars
<1>13. CASE uramsync_reset
  <2>1. Len(log') = Len(popped) + Len(rx_desc)
    BY <1>13, <1>t, ConcatProperties DEF uramsync_reset
  <2>2. Len(popped) + Len(rx_desc) <= Len(log)
    BY DEF IInv, InOrder
  <2> QED
    BY <1>13, <1>f, <1>t, <2>1, <2>2 DEF uramsync_reset, Counts, Passed
<1>14. CASE UNCHANGED <<tx_desc, rx_desc, log, popped, base, nsent, tx_seq, rseq, txpc, rxpc>>
  BY <1>14, <1>t DEF Counts, Passed
<1>15. CASE Dma \/ UNCHANGED vars
  BY <1>14, <1>15 DEF Dma, dma_header, dma_buf, dma_crc, vars, txVars, rxVars, boundVars
<1> QED
  BY <1>1, <1>2, <1>3, <1>4, <1>5, <1>6, <1>7, <1>8, <1>9, <1>10, <1>11, <1>12, <1>13,
     <1>15 DEF Next, TxTask, RxTask

(* What taking a message from tx_desc does to the history. *)
LEMMA LogGrows ==
  ASSUME IInv, tx_fill
  PROVE  /\ Len(log') = Len(log) + 1
         /\ \A k \in 1 .. Len(log) : log'[k] = log[k]
         /\ log'[Len(log) + 1] = Head(tx_desc)
         /\ Head(tx_desc) \in Msg
<1>1. log \in Seq(Msg) /\ Head(tx_desc) \in Msg /\ log' = Append(log, Head(tx_desc))
  BY HeadTailProperties DEF IInv, TypeOK, tx_fill
<1> QED
  BY <1>1, AppendProperties

(* The slot the tx task fills was empty and gets the next message. *)
LEMMA FillingStep ==
  ASSUME IInv, [Next]_vars
  PROVE  Filling'
<1>f. rseq \in Nat /\ tx_seq \in Nat /\ base \in Nat /\ Len(log) \in Nat
  BY Facts
<1>t. /\ p_tx \in [Slot -> SlotRec] /\ slottmp \in Slot
      /\ ack \in [Slot -> Seqno] /\ Filling
  BY DEF IInv, TypeOK
<1>1. CASE tx_fill
  <2>1. PICK i \in Slot : /\ EmptyTxSlot(i)
                          /\ slottmp' = i
                          /\ p_tx' = [p_tx EXCEPT ![i] = WithMsg(@, Head(tx_desc))]
    BY <1>1 DEF tx_fill
  <2>2. p_tx[i].seq <= rseq
    <3>1. p_tx[i].seq \in Nat /\ ack[i] \in Nat
      BY <2>1, <1>t, ConstantsAssumption DEF SlotRec, Seqno
    <3>2. p_tx[i].seq <= ack[i] /\ ack[i] <= rseq
      BY <2>1 DEF EmptyTxSlot, IInv, AckHonest
    <3> QED
      BY <3>1, <3>2, <1>f
  <2>3. p_tx'[i].msg = Head(tx_desc) /\ p_tx'[i].seq = p_tx[i].seq
    BY <2>1, <1>t DEF WithMsg
  <2>4. Len(log) + 1 = base + tx_seq + 1
    BY <1>1, <1>f, Facts DEF tx_fill
  <2>5. log'[base + tx_seq + 1] = Head(tx_desc)
    BY <2>4, <1>1, LogGrows
  <2>6. txpc' = "seq" /\ UNCHANGED <<tx_seq, rseq, base>>
    BY <1>1 DEF tx_fill, rxVars
  <2> QED
    BY <2>1, <2>2, <2>3, <2>5, <2>6 DEF Filling
<1>2. CASE tx_number
  <2>1. tx_seq' = tx_seq + 1
    BY <1>2, NoWrap DEF tx_number
  <2>2. p_tx'[slottmp].msg = p_tx[slottmp].msg /\ p_tx'[slottmp].seq = tx_seq + 1
    BY <1>2, <1>t, NoWrap DEF tx_number, WithSeq
  <2>3. txpc = "seq" /\ txpc' = "crc" /\ UNCHANGED <<slottmp, log, base>>
    BY <1>2 DEF tx_number
  <2>4. base + tx_seq + 1 = base + tx_seq'
    BY <2>1, <1>f
  <2> QED
    BY <1>t, <2>1, <2>2, <2>3, <2>4 DEF Filling
<1>3. CASE tx_checksum
  BY <1>3 DEF tx_checksum, Filling
<1>4. CASE rx_rseq_update
  <2>1. rseq' = rseq + 1
    BY <1>4 DEF rx_rseq_update, IInv, CacheTrue
  <2>2. UNCHANGED <<txpc, p_tx, slottmp, log, base, tx_seq>>
    BY <1>4 DEF rx_rseq_update, txVars
  <2>3. p_tx[slottmp].seq \in Nat
    BY <1>t, ConstantsAssumption DEF SlotRec, Seqno
  <2> QED
    BY <1>f, <1>t, <2>1, <2>2, <2>3 DEF Filling
<1>5. CASE uramsync_reset
  BY <1>5 DEF uramsync_reset, Filling
<1>6. CASE UNCHANGED <<txpc, p_tx, slottmp, log, base, tx_seq, rseq>>
  BY <1>6, <1>t DEF Filling
<1>7. CASE uramsync_tx_push_toback \/ uramsync_tx_push_tofront \/ uramsync_rx_pop
  BY <1>6, <1>7
  DEF uramsync_tx_push_toback, uramsync_tx_push_tofront, Pushed, uramsync_rx_pop, txVars,
      rxVars
<1>8. CASE Dma
  BY <1>6, <1>8 DEF Dma, dma_header, dma_buf, dma_crc, txVars, rxVars
<1>9. CASE rx_wake \/ rx_scan \/ rx_copy \/ rx_check \/ rx_push
  BY <1>6, <1>9
  DEF rx_wake, rx_scan, rx_copy, rx_copy_header, rx_copy_buf, rx_check, rx_push, txVars
<1>10. CASE UNCHANGED vars
  BY <1>6, <1>10 DEF vars
<1> QED
  BY <1>1, <1>2, <1>3, <1>4, <1>5, <1>7, <1>8, <1>9, <1>10 DEF Next, TxTask, RxTask

(* Checksums in either memory stay true to the history. *)
LEMMA ChecksumsStep ==
  ASSUME IInv, [Next]_vars
  PROVE  Checksums'
<1>f. rseq \in Nat /\ tx_seq \in Nat /\ base \in Nat /\ Len(log) \in Nat
  BY Facts
<1>t. /\ p_tx \in [Slot -> SlotRec] /\ p_rx \in [Slot -> SlotRec]
      /\ slottmp \in Slot /\ dma_i \in Slot /\ Checksums
  BY DEF IInv, TypeOK
<1>n. \A i \in Slot : p_tx[i].crc.seq \in Nat /\ p_rx[i].crc.seq \in Nat
  BY <1>t, ConstantsAssumption DEF SlotRec, Seqno
<1>1. CASE tx_fill
  <2>1. \A i \in Slot : p_tx'[i].crc = p_tx[i].crc
    BY <1>1, <1>t DEF tx_fill, WithMsg
  <2>2. UNCHANGED <<p_rx, tx_seq, base>>
    BY <1>1 DEF tx_fill, dmaVars
  <2>3. \A k \in 1 .. tx_seq : base + k \in 1 .. Len(log)
    BY <1>f, Facts
  <2>4. \A k \in 1 .. tx_seq : log'[base + k] = log[base + k]
    BY <1>1, <2>3, LogGrows
  <2> QED
    BY <1>t, <2>1, <2>2, <2>4 DEF Checksums, CrcTrue
<1>2. CASE tx_number
  <2>1. \A i \in Slot : p_tx'[i].crc = p_tx[i].crc
    BY <1>2, <1>t DEF tx_number, WithSeq
  <2>2. tx_seq' = tx_seq + 1 /\ UNCHANGED <<p_rx, log, base>>
    BY <1>2, NoWrap DEF tx_number, dmaVars
  <2> QED
    BY <1>f, <1>t, <1>n, <2>1, <2>2 DEF Checksums, CrcTrue
<1>3. CASE tx_checksum
  <2>1. /\ \A i \in Slot \ {slottmp} : p_tx'[i].crc = p_tx[i].crc
        /\ p_tx'[slottmp].crc = Crc(p_tx[slottmp].seq, p_tx[slottmp].msg)
    BY <1>3, <1>t DEF tx_checksum, WithCrc
  <2>2. p_tx[slottmp].seq = tx_seq /\ p_tx[slottmp].msg = log[base + tx_seq]
    BY <1>3 DEF tx_checksum, IInv, Filling
  <2>3. UNCHANGED <<p_rx, tx_seq, log, base>>
    BY <1>3 DEF tx_checksum, dmaVars
  <2> QED
    BY <1>f, <1>t, <2>1, <2>2, <2>3 DEF Checksums, CrcTrue, Crc
<1>4. CASE Dma
  <2>1. /\ \A i \in Slot \ {dma_i} : p_rx'[i].crc = p_rx[i].crc
        /\ p_rx'[dma_i].crc \in {p_rx[dma_i].crc, p_tx[dma_i].crc}
    BY <1>4, <1>t DEF Dma, dma_header, dma_buf, dma_crc, WithSeq, WithMsg, WithCrc
  <2>2. UNCHANGED <<p_tx, tx_seq, log, base>>
    BY <1>4 DEF Dma, dma_header, dma_buf, dma_crc, txVars
  <2> QED
    BY <1>t, <2>1, <2>2 DEF Checksums, CrcTrue
<1>5. CASE uramsync_reset
  BY <1>5 DEF uramsync_reset, Checksums, CrcTrue, EmptySlot, Crc
<1>6. CASE UNCHANGED <<p_tx, p_rx, tx_seq, log, base>>
  BY <1>6, <1>t DEF Checksums, CrcTrue
<1>7. CASE uramsync_tx_push_toback \/ uramsync_tx_push_tofront \/ uramsync_rx_pop
  BY <1>6, <1>7
  DEF uramsync_tx_push_toback, uramsync_tx_push_tofront, Pushed, uramsync_rx_pop, txVars,
      dmaVars
<1>8. CASE RxTask
  BY <1>6, <1>8
  DEF RxTask, rx_wake, rx_scan, rx_copy, rx_copy_header, rx_copy_buf, rx_check, rx_push,
      rx_rseq_update, txVars, dmaVars
<1>9. CASE UNCHANGED vars
  BY <1>6, <1>9 DEF vars
<1> QED
  BY <1>1, <1>2, <1>3, <1>4, <1>5, <1>7, <1>8, <1>9 DEF Next, TxTask

(* A copy that passed the tests of the rx task is the message it wants. *)
LEMMA CacheStep ==
  ASSUME IInv, [Next]_vars
  PROVE  CacheTrue'
<1>f. rseq \in Nat /\ tx_seq \in Nat /\ base \in Nat /\ Len(log) \in Nat
  BY Facts
<1>t. /\ p_rx \in [Slot -> SlotRec] /\ p_rx_cache \in SlotRec /\ rxi \in Slot
      /\ rxpc \in {"wait", "scan", "copy", "buf", "crc", "push", "ack"} /\ CacheTrue
  BY DEF IInv, TypeOK
<1>1. CASE tx_fill
  <2>1. UNCHANGED <<rxpc, seqtmp, rseq, p_rx_cache, tx_seq, base>>
    BY <1>1 DEF tx_fill, rxVars
  <2>2. rseq + 1 <= tx_seq => base + rseq + 1 \in 1 .. Len(log)
    BY <1>f, Facts
  <2>3. rseq + 1 <= tx_seq => log'[base + rseq + 1] = log[base + rseq + 1]
    BY <1>1, <2>2, LogGrows
  <2> QED
    BY <1>t, <2>1, <2>3 DEF CacheTrue
<1>2. CASE tx_number
  <2>1. tx_seq' = tx_seq + 1 /\ UNCHANGED <<rxpc, seqtmp, rseq, p_rx_cache, log, base>>
    BY <1>2, NoWrap DEF tx_number, rxVars
  <2> QED
    BY <1>f, <1>t, <2>1 DEF CacheTrue
<1>3. CASE rx_wake
  BY <1>3 DEF rx_wake, CacheTrue
<1>4. CASE rx_scan
  <2>1. rseq' = rseq /\ rxpc' \in {"copy", "scan", "wait"}
    BY <1>4 DEF rx_scan, NextSlot
  <2>2. rxpc' = "copy" => seqtmp' = rseq + 1
    BY <1>4, NoWrap DEF rx_scan, NextSlot
  <2> QED
    BY <2>1, <2>2 DEF CacheTrue
<1>5. CASE rx_copy
  BY <1>5, <1>t DEF rx_copy, rx_copy_header, rx_copy_buf, CacheTrue
<1>6. CASE rx_check
  <2>1. /\ rxpc = "crc" /\ rxpc' \in {"push", "scan", "wait"}
        /\ UNCHANGED <<rseq, tx_seq, log, base>>
    BY <1>6 DEF rx_check, NextSlot, txVars
  <2>2. ASSUME rxpc' = "push"
        PROVE  /\ p_rx_cache'.seq = rseq + 1 /\ rseq + 1 <= tx_seq
               /\ p_rx_cache'.msg = log[base + rseq + 1]
    <3>1. p_rx_cache' = WithCrc(p_rx_cache, p_rx[rxi].crc) /\ CacheValid(p_rx_cache')
      BY <1>6, <2>2 DEF rx_check, NextSlot
    <3>2. p_rx_cache'.crc = p_rx[rxi].crc
      BY <3>1 DEF WithCrc
    <3>3. /\ p_rx_cache'.seq = rseq + 1
          /\ p_rx[rxi].crc = Crc(rseq + 1, p_rx_cache'.msg)
      BY <1>t, <2>1, <3>1, <3>2 DEF CacheTrue, CacheValid
    <3>4. p_rx[rxi].crc.seq = rseq + 1 /\ p_rx[rxi].crc.msg = p_rx_cache'.msg
      BY <3>3 DEF Crc
    <3>5. CrcTrue(p_rx[rxi].crc)
      BY <1>t DEF IInv, Checksums
    <3>6. rseq + 1 # 0 /\ base + rseq + 1 = base + (rseq + 1)
      BY <1>f
    <3>7. rseq + 1 \in 1 .. tx_seq /\ p_rx_cache'.msg = log[base + (rseq + 1)]
      BY <3>4, <3>5, <3>6 DEF CrcTrue
    <3> QED
      BY <1>f, <3>3, <3>6, <3>7
  <2> QED
    BY <2>1, <2>2 DEF CacheTrue
<1>7. CASE rx_push
  BY <1>7, <1>t DEF rx_push, CacheTrue, txVars
<1>8. CASE rx_rseq_update
  BY <1>8 DEF rx_rseq_update, CacheTrue
<1>9. CASE uramsync_reset
  BY <1>9 DEF uramsync_reset, CacheTrue
<1>10. CASE UNCHANGED <<rxpc, seqtmp, rseq, p_rx_cache, tx_seq, log, base>>
  BY <1>10, <1>t DEF CacheTrue
<1>11. CASE uramsync_tx_push_toback \/ uramsync_tx_push_tofront \/ uramsync_rx_pop
  BY <1>10, <1>11
  DEF uramsync_tx_push_toback, uramsync_tx_push_tofront, Pushed, uramsync_rx_pop, txVars,
      rxVars
<1>12. CASE tx_checksum \/ Dma
  BY <1>10, <1>12 DEF tx_checksum, Dma, dma_header, dma_buf, dma_crc, txVars, rxVars
<1>13. CASE UNCHANGED vars
  BY <1>10, <1>13 DEF vars
<1> QED
  BY <1>1, <1>2, <1>3, <1>4, <1>5, <1>6, <1>7, <1>8, <1>9, <1>11, <1>12, <1>13
  DEF Next, TxTask, RxTask

(* Acknowledgements stay honest. *)
LEMMA AckStep ==
  ASSUME IInv, [Next]_vars
  PROVE  AckHonest'
<1>f. rseq \in Nat /\ tx_seq \in Nat
  BY Facts
<1>t. ack \in [Slot -> Seqno] /\ AckHonest /\ CacheTrue
  BY DEF IInv, TypeOK
<1>n. \A i \in Slot : ack[i] \in Nat
  BY <1>t, ConstantsAssumption DEF Seqno
<1>1. CASE tx_number
  <2>1. tx_seq' = tx_seq + 1 /\ UNCHANGED <<rxpc, rseq, ack>>
    BY <1>1, NoWrap DEF tx_number, rxVars, dmaVars
  <2> QED
    BY <1>f, <1>t, <2>1 DEF AckHonest, Passed
<1>2. CASE dma_header
  <2>1. /\ ack' = [ack EXCEPT ![dma_i] = rseq] /\ UNCHANGED <<rxpc, rseq, tx_seq>>
    BY <1>2 DEF dma_header, rxVars, txVars
  <2>2. \A i \in Slot : ack'[i] <= rseq
    BY <1>f, <1>t, <2>1 DEF AckHonest
  <2> QED
    BY <1>t, <2>1, <2>2 DEF AckHonest, Passed
<1>3. CASE rx_wake \/ rx_scan \/ rx_copy \/ rx_check
  <2>1. /\ rxpc' # "ack" /\ rxpc # "ack" /\ UNCHANGED <<rseq, tx_seq, ack>>
    BY <1>3
    DEF rx_wake, rx_scan, rx_copy, rx_copy_header, rx_copy_buf, rx_check, NextSlot,
        txVars, dmaVars
  <2> QED
    BY <1>t, <2>1 DEF AckHonest, Passed
<1>4. CASE rx_push
  <2>1. rxpc = "push" /\ rxpc' = "ack" /\ UNCHANGED <<rseq, tx_seq, ack>>
    BY <1>4 DEF rx_push, txVars, dmaVars
  <2> QED
    BY <1>f, <1>t, <2>1 DEF AckHonest, Passed, CacheTrue
<1>5. CASE rx_rseq_update
  <2>1. rxpc = "ack" /\ rxpc' = "wait" /\ rseq' = rseq + 1 /\ UNCHANGED <<tx_seq, ack>>
    BY <1>5, <1>t DEF rx_rseq_update, CacheTrue, txVars, dmaVars
  <2> QED
    BY <1>f, <1>t, <1>n, <2>1 DEF AckHonest, Passed
<1>6. CASE uramsync_reset
  BY <1>6 DEF uramsync_reset, AckHonest, Passed
<1>7. CASE UNCHANGED <<rxpc, rseq, tx_seq, ack>>
  BY <1>7, <1>t DEF AckHonest, Passed
<1>8. CASE uramsync_tx_push_toback \/ uramsync_tx_push_tofront \/ uramsync_rx_pop
  BY <1>7, <1>8
  DEF uramsync_tx_push_toback, uramsync_tx_push_tofront, Pushed, uramsync_rx_pop, txVars,
      rxVars, dmaVars
<1>9. CASE tx_fill \/ tx_checksum \/ dma_buf \/ dma_crc
  BY <1>7, <1>9 DEF tx_fill, tx_checksum, dma_buf, dma_crc, txVars, rxVars, dmaVars
<1>10. CASE UNCHANGED vars
  BY <1>7, <1>10 DEF vars
<1> QED
  BY <1>1, <1>2, <1>3, <1>4, <1>5, <1>6, <1>8, <1>9, <1>10 DEF Next, TxTask, Dma, RxTask

(* What the receiver has passed on stays a prefix of the history. *)
LEMMA InOrderStep ==
  ASSUME IInv, [Next]_vars
  PROVE  InOrder'
<1>f. /\ Len(log) \in Nat /\ Len(popped) \in Nat /\ Len(rx_desc) \in Nat
      /\ rseq \in Nat /\ base \in Nat /\ tx_seq \in Nat
  BY Facts
<1>t. /\ log \in Seq(Msg) /\ popped \in Seq(Msg) /\ rx_desc \in Seq(Msg) /\ InOrder
  BY DEF IInv, TypeOK
<1>1. CASE uramsync_rx_pop
  <2>1. /\ Len(popped') = Len(popped) + 1
        /\ \A k \in 1 .. Len(popped) : popped'[k] = popped[k]
        /\ popped'[Len(popped) + 1] = rx_desc[1]
    BY <1>1, <1>t, HeadTailProperties, AppendProperties DEF uramsync_rx_pop
  <2>2. /\ Len(rx_desc') = Len(rx_desc) - 1 /\ Len(rx_desc) >= 1
        /\ \A k \in 1 .. Len(rx_desc') : rx_desc'[k] = rx_desc[k + 1]
    BY <1>1, <1>t, HeadTailProperties DEF uramsync_rx_pop
  <2>3. log' = log
    BY <1>1 DEF uramsync_rx_pop
  <2>4. \A k \in 1 .. Len(popped') : popped'[k] = log[k]
    <3>1. 1 \in 1 .. Len(rx_desc)
      BY <1>f, <2>2
    <3>2. rx_desc[1] = log[Len(popped) + 1]
      BY <1>t, <3>1 DEF InOrder
    <3>3. \A k \in 1 .. Len(popped') : k \in 1 .. Len(popped) \/ k = Len(popped) + 1
      BY <1>f, <2>1
    <3> QED
      BY <1>t, <2>1, <3>2, <3>3 DEF InOrder
  <2>5. \A k \in 1 .. Len(rx_desc') : rx_desc'[k] = log[Len(popped') + k]
    <3> TAKE k \in 1 .. Len(rx_desc')
    <3>1. k + 1 \in 1 .. Len(rx_desc) /\ Len(popped) + (k + 1) = Len(popped') + k
      BY <1>f, <2>1, <2>2
    <3>2. rx_desc[k + 1] = log[Len(popped) + (k + 1)]
      BY <1>t, <3>1 DEF InOrder
    <3> QED
      BY <2>2, <3>1, <3>2
  <2>6. Len(popped') + Len(rx_desc') <= Len(log)
    BY <1>f, <1>t, <2>1, <2>2 DEF InOrder
  <2> QED
    BY <2>3, <2>4, <2>5, <2>6 DEF InOrder
<1>2. CASE tx_fill
  <2>1. UNCHANGED <<popped, rx_desc>>
    BY <1>2 DEF tx_fill
  <2>2. \A k \in 1 .. Len(popped) : k \in 1 .. Len(log)
    BY <1>f, <1>t DEF InOrder
  <2>3. \A k \in 1 .. Len(rx_desc) : Len(popped) + k \in 1 .. Len(log)
    BY <1>f, <1>t DEF InOrder
  <2>4. Len(log') = Len(log) + 1 /\ \A k \in 1 .. Len(log) : log'[k] = log[k]
    BY <1>2, LogGrows
  <2>5. Len(popped) + Len(rx_desc) <= Len(log')
    BY <1>f, <1>t, <2>4 DEF InOrder
  <2> QED
    BY <1>t, <2>1, <2>2, <2>3, <2>4, <2>5 DEF InOrder
<1>3. CASE rx_push
  <2>1. UNCHANGED <<popped, log>> /\ rx_desc' = Append(rx_desc, p_rx_cache.msg)
    BY <1>3 DEF rx_push
  <2>2. p_rx_cache.msg \in Msg
    BY DEF IInv, TypeOK, SlotRec
  <2>3. /\ Len(rx_desc') = Len(rx_desc) + 1
        /\ \A k \in 1 .. Len(rx_desc) : rx_desc'[k] = rx_desc[k]
        /\ rx_desc'[Len(rx_desc) + 1] = p_rx_cache.msg
    BY <1>t, <2>1, <2>2, AppendProperties
  <2>4. p_rx_cache.msg = log[base + rseq + 1] /\ rseq + 1 <= tx_seq
    BY <1>3 DEF rx_push, IInv, CacheTrue
  <2>5. /\ base + rseq + 1 = Len(popped) + (Len(rx_desc) + 1)
        /\ Len(popped) + (Len(rx_desc) + 1) <= Len(log)
    BY <1>3, <1>f, <2>4, Facts DEF rx_push, Passed
  <2>6. \A k \in 1 .. Len(rx_desc') : k \in 1 .. Len(rx_desc) \/ k = Len(rx_desc) + 1
    BY <1>f, <2>3
  <2>7. \A k \in 1 .. Len(rx_desc') : rx_desc'[k] = log[Len(popped) + k]
    BY <1>t, <2>3, <2>4, <2>5, <2>6 DEF InOrder
  <2> QED
    BY <1>t, <2>1, <2>3, <2>5, <2>7 DEF InOrder
<1>4. CASE uramsync_reset
  <2>1. UNCHANGED <<popped, rx_desc>> /\ log' = popped \o rx_desc
    BY <1>4 DEF uramsync_reset
  <2>2. /\ Len(log') = Len(popped) + Len(rx_desc)
        /\ \A k \in 1 .. Len(popped) : log'[k] = popped[k]
        /\ \A k \in 1 .. Len(rx_desc) : log'[Len(popped) + k] = rx_desc[k]
    BY <1>t, <1>f, <2>1
  <2> QED
    BY <1>f, <2>1, <2>2 DEF InOrder
<1>5. CASE UNCHANGED <<popped, rx_desc, log>>
  BY <1>5, <1>t DEF InOrder
<1>6. CASE uramsync_tx_push_toback \/ uramsync_tx_push_tofront
  BY <1>5, <1>6 DEF uramsync_tx_push_toback, uramsync_tx_push_tofront, Pushed
<1>7. CASE tx_number \/ tx_checksum \/ Dma
  BY <1>5, <1>7 DEF tx_number, tx_checksum, Dma, dma_header, dma_buf, dma_crc
<1>8. CASE rx_wake \/ rx_scan \/ rx_copy \/ rx_check \/ rx_rseq_update
  BY <1>5, <1>8
  DEF rx_wake, rx_scan, rx_copy, rx_copy_header, rx_copy_buf, rx_check, rx_rseq_update
<1>9. CASE UNCHANGED vars
  BY <1>5, <1>9 DEF vars
<1> QED
  BY <1>1, <1>2, <1>3, <1>4, <1>6, <1>7, <1>8, <1>9 DEF Next, TxTask, RxTask

(* A message that was not passed on stays whole in its transmit slot. *)
LEMMA NoOverwriteStep ==
  ASSUME IInv, [Next]_vars
  PROVE  NoOverwrite'
<1>f. /\ rseq \in Nat /\ tx_seq \in Nat /\ base \in Nat /\ Len(log) \in Nat
      /\ Passed \in Nat /\ rseq <= Passed
  BY Facts
<1>t. /\ p_tx \in [Slot -> SlotRec] /\ slottmp \in Slot /\ NoOverwrite
      /\ ack \in [Slot -> Seqno] /\ txpc \in {"desc", "seq", "crc"}
  BY DEF IInv, TypeOK
<1>n. \A i \in Slot : p_tx[i].seq \in Nat /\ ack[i] \in Nat
  BY <1>t, ConstantsAssumption DEF SlotRec, Seqno
<1>1. CASE tx_fill
  <2>1. PICK i \in Slot : /\ EmptyTxSlot(i)
                          /\ p_tx' = [p_tx EXCEPT ![i] = WithMsg(@, Head(tx_desc))]
    BY <1>1 DEF tx_fill
  <2>2. /\ txpc = "desc" /\ txpc' = "seq"
        /\ UNCHANGED <<rxpc, rseq, tx_seq, base>>
    BY <1>1 DEF tx_fill, rxVars
  <2>3. p_tx[i].seq <= rseq
    BY <1>f, <1>n, <2>1 DEF EmptyTxSlot, IInv, AckHonest
  <2>4. SUFFICES ASSUME NEW k \in (Passed + 1) .. tx_seq
                 PROVE  \E j \in Slot : Holds(j, k)'
    BY <2>2 DEF NoOverwrite, Passed
  <2>5. PICK j \in Slot : Holds(j, k)
    BY <1>t DEF NoOverwrite
  <2>6. j # i /\ p_tx'[j] = p_tx[j]
    BY <1>f, <1>n, <1>t, <2>1, <2>3, <2>5 DEF Holds
  <2>7. base + k \in 1 .. Len(log)
    BY <1>f, Facts
  <2>8. log'[base + k] = log[base + k]
    BY <1>1, <2>7, LogGrows
  <2> QED
    BY <2>2, <2>5, <2>6, <2>8 DEF Holds
<1>2. CASE tx_number
  <2>1. /\ p_tx' = [p_tx EXCEPT ![slottmp] = WithSeq(@, tx_seq + 1)]
        /\ tx_seq' = tx_seq + 1 /\ txpc = "seq" /\ txpc' = "crc"
        /\ UNCHANGED <<slottmp, rxpc, rseq, base, log>>
    BY <1>2, NoWrap DEF tx_number, rxVars
  <2>2. p_tx[slottmp].seq <= rseq /\ p_tx[slottmp].msg = log[base + tx_seq + 1]
    BY <2>1 DEF IInv, Filling
  <2>3. SUFFICES ASSUME NEW k \in (Passed + 1) .. (tx_seq + 1)
                 PROVE  \E j \in Slot : Holds(j, k)'
    BY <2>1 DEF NoOverwrite, Passed
  <2>4. CASE k = tx_seq + 1
    <3>1. p_tx'[slottmp].seq = k /\ p_tx'[slottmp].msg = p_tx[slottmp].msg
      BY <1>t, <2>1, <2>4 DEF WithSeq
    <3>2. base + tx_seq + 1 = base + k
      BY <1>f, <2>4
    <3>3. Holds(slottmp, k)'
      BY <2>1, <2>2, <3>1, <3>2 DEF Holds
    <3> QED
      BY <1>t, <3>3, <2>1
  <2>5. CASE k # tx_seq + 1
    <3>1. k \in (Passed + 1) .. tx_seq
      BY <1>f, <2>5
    <3>2. PICK j \in Slot : Holds(j, k)
      BY <1>t, <3>1 DEF NoOverwrite
    <3>3. j # slottmp /\ p_tx'[j] = p_tx[j]
      BY <1>f, <1>n, <1>t, <2>1, <2>2, <3>1, <3>2 DEF Holds
    <3> QED
      BY <2>1, <3>2, <3>3 DEF Holds
  <2> QED
    BY <2>4, <2>5
<1>3. CASE tx_checksum
  <2>1. /\ p_tx' = [p_tx EXCEPT ![slottmp] = WithCrc(@, Crc(@.seq, @.msg))]
        /\ txpc' = "desc" /\ UNCHANGED <<tx_seq, slottmp, rxpc, rseq, base, log>>
    BY <1>3 DEF tx_checksum, rxVars
  <2>2. SUFFICES ASSUME NEW k \in (Passed + 1) .. tx_seq
                 PROVE  \E j \in Slot : Holds(j, k)'
    BY <2>1 DEF NoOverwrite, Passed
  <2>3. PICK j \in Slot : Holds(j, k)
    BY <1>t DEF NoOverwrite
  <2>4. p_tx'[j].seq = p_tx[j].seq /\ p_tx'[j].msg = p_tx[j].msg
    BY <1>t, <2>1 DEF WithCrc
  <2>5. p_tx'[j].crc = IF j = slottmp THEN Crc(p_tx[j].seq, p_tx[j].msg) ELSE p_tx[j].crc
    BY <1>t, <2>1 DEF WithCrc
  <2> QED
    BY <2>1, <2>3, <2>4, <2>5 DEF Holds
<1>4. CASE RxTask
  <2>1. UNCHANGED <<p_tx, tx_seq, txpc, slottmp, base, log>>
    BY <1>4
    DEF RxTask, rx_wake, rx_scan, rx_copy, rx_copy_header, rx_copy_buf, rx_check, rx_push,
        rx_rseq_update, txVars
  <2>2. Passed' \in Nat /\ Passed <= Passed'
    <3>1. CASE rx_wake \/ rx_scan \/ rx_copy \/ rx_check
      BY <3>1, <1>f
      DEF rx_wake, rx_scan, rx_copy, rx_copy_header, rx_copy_buf, rx_check, NextSlot, Passed
    <3>2. CASE rx_push
      BY <3>2, <1>f DEF rx_push, Passed
    <3>3. CASE rx_rseq_update
      <4>1. rxpc = "ack" /\ rxpc' = "wait" /\ rseq' = rseq + 1
        BY <3>3 DEF rx_rseq_update, IInv, CacheTrue
      <4> QED
        BY <1>f, <4>1 DEF Passed
    <3> QED
      BY <1>4, <3>1, <3>2, <3>3 DEF RxTask
  <2>3. \A k \in (Passed' + 1) .. tx_seq : k \in (Passed + 1) .. tx_seq
    <3>1. \A a, b, c \in Nat : a <= b => \A k \in (b + 1) .. c : k \in (a + 1) .. c
      OBVIOUS
    <3> QED
      BY <1>f, <2>2, <3>1
  <2>4. \A k, j : Holds(j, k)' <=> Holds(j, k)
    BY <2>1 DEF Holds
  <2> QED
    BY <1>t, <2>1, <2>3, <2>4 DEF NoOverwrite
<1>5. CASE uramsync_reset
  BY <1>5 DEF uramsync_reset, NoOverwrite, Passed
<1>6. CASE UNCHANGED <<p_tx, tx_seq, txpc, slottmp, base, log, rxpc, rseq>>
  BY <1>6, <1>t DEF NoOverwrite, Holds, Passed
<1>7. CASE uramsync_tx_push_toback \/ uramsync_tx_push_tofront \/ uramsync_rx_pop
  BY <1>6, <1>7
  DEF uramsync_tx_push_toback, uramsync_tx_push_tofront, Pushed, uramsync_rx_pop, txVars,
      rxVars
<1>8. CASE Dma
  BY <1>6, <1>8 DEF Dma, dma_header, dma_buf, dma_crc, txVars, rxVars
<1>9. CASE UNCHANGED vars
  BY <1>6, <1>9 DEF vars
<1> QED
  BY <1>1, <1>2, <1>3, <1>4, <1>5, <1>7, <1>8, <1>9 DEF Next, TxTask

(* The initial states satisfy the inductive invariant. *)
LEMMA InitIInv ==
  ASSUME Init
  PROVE  IInv
<1> USE ConstantsAssumption
<1>1. 1 \in Slot /\ 0 \in Seqno
  BY DEF Slot, Seqno
<1>2. /\ p_tx \in [Slot -> SlotRec] /\ p_rx \in [Slot -> SlotRec]
      /\ ack \in [Slot -> Seqno] /\ p_rx_cache \in SlotRec
  BY <1>1, EmptySlotType DEF Init
<1>3. rx_sem \in BOOLEAN
  BY DEF Init
<1>4. /\ tx_desc = <<>> /\ rx_desc = <<>> /\ log = <<>> /\ popped = <<>>
      /\ tx_seq = 0 /\ rseq = 0 /\ seqtmp = 0 /\ txpc = "desc" /\ slottmp = 1
      /\ dma_i = 1 /\ dma_pc = "hdr" /\ rxi = 1 /\ rxpc = "wait"
      /\ nsent = 0 /\ resets = 0 /\ base = 0
  BY DEF Init
<1>5. TypeOK
  BY <1>1, <1>2, <1>3, <1>4 DEF TypeOK
<1>6. Counts /\ Filling /\ CacheTrue /\ InOrder
  BY <1>4 DEF Counts, Filling, CacheTrue, InOrder, Passed
<1>7. Checksums
  BY DEF Init, Checksums, CrcTrue, EmptySlot, Crc
<1>8. AckHonest /\ NoOverwrite
  BY DEF Init, AckHonest, NoOverwrite, Passed
<1> QED
  BY <1>5, <1>6, <1>7, <1>8 DEF IInv

(* IInv is an inductive invariant of the transport. *)
THEOREM Inductive == Spec => []IInv
<1>1. Init => IInv
  BY InitIInv
<1>2. IInv /\ [Next]_vars => IInv'
  BY TypeStep, CountsStep, FillingStep, ChecksumsStep, CacheStep, AckStep, InOrderStep,
     NoOverwriteStep DEF IInv
<1> QED
  BY <1>1, <1>2, PTL DEF Spec

(* Type correctness: the numbers stay in range and neither descriptor      *)
(* queue ever holds more than its capacity.                                *)
THEOREM TypeCorrect == Spec => []TypeOK
<1>1. IInv => TypeOK
  BY DEF IInv
<1> QED
  BY <1>1, Inductive, PTL

(* Messages arrive whole, once and in order although both memories are     *)
(* read while they are written, for any number of slots and any schedule.  *)
THEOREM ArriveInOrder == Spec => []InOrder
<1>1. IInv => InOrder
  BY DEF IInv
<1> QED
  BY <1>1, Inductive, PTL

(* No transmit slot is reused before its message was passed on. *)
THEOREM NeverOverwritten == Spec => []NoOverwrite
<1>1. IInv => NoOverwrite
  BY DEF IInv
<1> QED
  BY <1>1, Inductive, PTL

(* The sender never believes in an acknowledgement that was not given. *)
THEOREM AcksAreHonest == Spec => []AckHonest
<1>1. IInv => AckHonest
  BY DEF IInv
<1> QED
  BY <1>1, Inductive, PTL

-----------------------------------------------------------------------------
(* The transport implements RamChannel. *)

Line == SubSeq(log, Len(popped) + 1, Len(log))

LineIsRest ==
  /\ Line \in Seq(Msg)
  /\ Len(Line) = Len(log) - Len(popped)
  /\ \A k \in 1 .. Len(Line) : Line[k] = log[Len(popped) + k]

(* What the line of the refinement holds. *)
LEMMA LineProperties == IInv => LineIsRest
<1> SUFFICES ASSUME IInv
             PROVE  LineIsRest
  OBVIOUS
<1>1. Len(log) \in Nat /\ Len(popped) \in Nat /\ Len(popped) <= Len(log)
  BY Facts DEF IInv, InOrder
<1>2. \A k \in (Len(popped) + 1) .. Len(log) : log[k] \in Msg
  BY <1>1 DEF IInv, TypeOK
<1>3. /\ Line \in Seq(Msg)
      /\ Len(Line) = IF Len(popped) + 1 <= Len(log)
                       THEN Len(log) - (Len(popped) + 1) + 1 ELSE 0
      /\ \A k \in 1 .. Len(log) - (Len(popped) + 1) + 1 :
           Line[k] = log[Len(popped) + 1 + k - 1]
  BY <1>1, <1>2, SubSeqProperties DEF Line
<1>4. Len(Line) = Len(log) - Len(popped)
  BY <1>1, <1>3
<1>5. ASSUME NEW k \in 1 .. Len(Line)
      PROVE  Line[k] = log[Len(popped) + k]
  <2>1. /\ k \in 1 .. Len(log) - (Len(popped) + 1) + 1
        /\ Len(popped) + 1 + k - 1 = Len(popped) + k
    BY <1>1, <1>4
  <2> QED
    BY <1>3, <2>1
<1> QED
  BY <1>3, <1>4, <1>5 DEF LineIsRest

(* When an empty slot is found, one message fewer than there are slots is  *)
(* on its way in them: distinct messages are held by distinct slots.       *)
LEMMA SlotsBound ==
  ASSUME IInv, NEW i \in Slot, EmptyTxSlot(i)
  PROVE  tx_seq - Passed < NSlot
<1> DEFINE Sent == (Passed + 1) .. tx_seq
           Others == Slot \ {i}
           f == [k \in Sent |-> CHOOSE j \in Others : p_tx[j].seq = k]
<1>f. rseq \in Nat /\ tx_seq \in Nat /\ Passed \in Nat /\ rseq <= Passed /\ Passed <= tx_seq
  BY Facts
<1>n. p_tx[i].seq \in Nat /\ ack[i] \in Nat
  BY ConstantsAssumption DEF IInv, TypeOK, SlotRec, Seqno
<1>1. p_tx[i].seq <= rseq
  BY <1>f, <1>n DEF EmptyTxSlot, IInv, AckHonest
<1>2. ASSUME NEW k \in Sent
      PROVE  \E j \in Others : p_tx[j].seq = k
  <2>1. PICK j \in Slot : Holds(j, k)
    BY DEF IInv, NoOverwrite
  <2>2. j # i
    BY <1>f, <1>n, <1>1, <2>1 DEF Holds
  <2> QED
    BY <2>1, <2>2 DEF Holds
<1>3. \A k \in Sent : f[k] \in Others /\ p_tx[f[k]].seq = k
  BY <1>2
<1>4. f \in [Sent -> Others]
  BY <1>3
<1>5. IsFiniteSet(Slot) /\ Cardinality(Slot) = NSlot
  <2>1. 1 \in Int /\ NSlot \in Int /\ ~(1 > NSlot) /\ NSlot - 1 + 1 = NSlot
    BY ConstantsAssumption
  <2> QED
    BY <2>1, FS_Interval DEF Slot
<1>6. IsFiniteSet(Others) /\ Cardinality(Others) = NSlot - 1
  BY <1>5, FS_RemoveElement
<1>7. IsFiniteSet(Sent) /\ Cardinality(Sent) = tx_seq - Passed
  <2>1. /\ Passed + 1 \in Int /\ tx_seq \in Int
        /\ (IF Passed + 1 > tx_seq THEN 0 ELSE tx_seq - (Passed + 1) + 1) = tx_seq - Passed
    BY <1>f
  <2> QED
    BY <2>1, FS_Interval
<1>8. ~(Cardinality(Others) < Cardinality(Sent))
  <2> SUFFICES ASSUME Cardinality(Others) < Cardinality(Sent)
               PROVE  FALSE
    OBVIOUS
  <2> HIDE DEF f, Sent, Others
  <2>1. PICK x \in Sent, y \in Sent : x # y /\ f[x] = f[y]
    BY <1>4, <1>6, <1>7, FS_PigeonHole
  <2> QED
    BY <1>3, <2>1
<1> QED
  BY <1>f, <1>6, <1>7, <1>8, ConstantsAssumption

(* The history with one more message makes the line one longer. *)
LEMMA LineGrows ==
  ASSUME IInv, IInv', tx_fill
  PROVE  Line' = Append(Line, Head(tx_desc))
<1>1. /\ Line \in Seq(Msg) /\ Len(Line) = Len(log) - Len(popped)
      /\ \A k \in 1 .. Len(Line) : Line[k] = log[Len(popped) + k]
  BY LineProperties DEF LineIsRest
<1>2. /\ Line' \in Seq(Msg) /\ Len(Line') = Len(log') - Len(popped')
      /\ \A k \in 1 .. Len(Line') : Line'[k] = log'[Len(popped') + k]
  <2>1. LineIsRest'
    BY LineProperties, PTL
  <2> QED
    BY <2>1 DEF LineIsRest
<1>3. popped' = popped /\ Len(log) \in Nat /\ Len(popped) \in Nat /\ Len(popped) <= Len(log)
  BY Facts DEF tx_fill, IInv, InOrder
<1>4. /\ Len(log') = Len(log) + 1 /\ Head(tx_desc) \in Msg
      /\ \A k \in 1 .. Len(log) : log'[k] = log[k]
      /\ log'[Len(log) + 1] = Head(tx_desc)
  BY LogGrows
<1> DEFINE A == Append(Line, Head(tx_desc))
<1>5. /\ A \in Seq(Msg) /\ Len(A) = Len(Line) + 1
      /\ \A k \in 1 .. Len(Line) : A[k] = Line[k]
      /\ A[Len(Line) + 1] = Head(tx_desc)
  BY <1>1, <1>4, AppendProperties
<1> HIDE DEF A
<1>6. Len(Line') = Len(A)
  BY <1>1, <1>2, <1>3, <1>4, <1>5
<1>7. ASSUME NEW k \in 1 .. Len(Line')
      PROVE  Line'[k] = A[k]
  <2>1. CASE k = Len(Line) + 1
    <3>1. Len(popped) + k = Len(log) + 1
      BY <1>1, <1>3, <2>1
    <3> QED
      BY <1>2, <1>3, <1>4, <1>5, <2>1, <3>1
  <2>2. CASE k # Len(Line) + 1
    <3>1. k \in 1 .. Len(Line)
      <4>1. Len(Line) \in Nat /\ k \in 1 .. (Len(Line) + 1)
        BY <1>1, <1>3, <1>5, <1>6
      <4> QED
        BY <2>2, <4>1
    <3>2. Len(popped) + k \in 1 .. Len(log)
      BY <1>1, <1>3, <3>1
    <3> QED
      BY <1>1, <1>2, <1>3, <1>4, <1>5, <3>1, <3>2
  <2> QED
    BY <2>1, <2>2
<1>8. Line' = A
  BY <1>2, <1>5, <1>6, <1>7, SeqEqual
<1> QED
  BY <1>8 DEF A

(* Every step of the transport is a step of the channel or leaves its      *)
(* state alone.                                                            *)
LEMMA ChannelStep ==
  ASSUME IInv, IInv', [Next]_vars
  PROVE  [Channel!Next]_(Channel!vars)
<1>f. /\ Len(log) \in Nat /\ Len(popped) \in Nat /\ Len(rx_desc) \in Nat
      /\ Len(popped) + Len(rx_desc) <= Len(log)
  BY Facts DEF IInv, InOrder
<1>t. /\ log \in Seq(Msg) /\ popped \in Seq(Msg) /\ rx_desc \in Seq(Msg)
      /\ tx_desc \in Seq(Msg)
  BY DEF IInv, TypeOK
<1>l. /\ Line \in Seq(Msg) /\ Len(Line) = Len(log) - Len(popped)
      /\ \A k \in 1 .. Len(Line) : Line[k] = log[Len(popped) + k]
  BY LineProperties DEF LineIsRest
<1>1. CASE uramsync_tx_push_toback \/ uramsync_tx_push_tofront
  <2>1. nsent + 1 \in Msg
    BY <1>1, ConstantsAssumption
    DEF uramsync_tx_push_toback, uramsync_tx_push_tofront, Pushed, IInv, TypeOK, Msg
  <2>2. /\ Len(tx_desc) < TxDescNum
        /\ tx_desc' \in {Append(tx_desc, nsent + 1), <<nsent + 1>> \o tx_desc}
        /\ UNCHANGED <<log, popped>>
    BY <1>1 DEF uramsync_tx_push_toback, uramsync_tx_push_tofront, Pushed
  <2>3. Channel!Push
    BY <2>1, <2>2 DEF Channel!Push
  <2> QED
    BY <2>3 DEF Channel!Next
<1>2. CASE uramsync_rx_pop
  <2>1. /\ rx_desc # <<>> /\ popped' = Append(popped, Head(rx_desc))
        /\ UNCHANGED <<tx_desc, log>>
    BY <1>2 DEF uramsync_rx_pop
  <2>2. Len(rx_desc) >= 1 /\ Head(rx_desc) = rx_desc[1] /\ rx_desc[1] \in Msg
    BY <1>t, <2>1, HeadTailProperties
  <2>3. Len(popped') = Len(popped) + 1
    BY <1>t, <2>1, <2>2, AppendProperties
  <2>4. Len(popped) + 1 \in 1 .. Len(log) /\ Len(log) \in Len(popped) + 1 .. Len(log)
    BY <1>f, <2>2
  <2>5. Head(Line) = log[Len(popped) + 1] /\ Tail(Line) = SubSeq(log, Len(popped) + 1 + 1, Len(log))
    BY <1>t, <2>4, HeadTailOfSubSeq DEF Line
  <2>6. Head(Line) = Head(rx_desc)
    <3>1. 1 \in 1 .. Len(rx_desc)
      BY <1>f, <2>2
    <3>2. rx_desc[1] = log[Len(popped) + 1]
      BY <3>1 DEF IInv, InOrder
    <3> QED
      BY <2>2, <2>5, <3>2
  <2>7. Line # <<>>
    BY <1>f, <1>l, <2>2
  <2>8. Line' = Tail(Line)
    BY <2>1, <2>3, <2>5 DEF Line
  <2>9. Channel!Arrive
    BY <2>1, <2>6, <2>7, <2>8 DEF Channel!Arrive, Line
  <2> QED
    BY <2>9 DEF Channel!Next
<1>3. CASE tx_fill
  <2>1. /\ tx_desc # <<>> /\ tx_desc' = Tail(tx_desc) /\ popped' = popped
        /\ txpc = "desc" /\ \E j \in Slot : EmptyTxSlot(j)
    BY <1>3 DEF tx_fill
  <2>2. tx_seq - Passed < NSlot
    BY <2>1, SlotsBound
  <2>3. Len(Line) < NSlot + RxDescNum
    <3>1. /\ tx_seq \in Nat /\ Passed \in Nat /\ base \in Nat
          /\ Len(log) = base + tx_seq /\ Len(popped) + Len(rx_desc) = base + Passed
      BY <2>1, Facts
    <3>2. Len(rx_desc) <= RxDescNum
      BY DEF IInv, TypeOK
    <3> QED
      BY <1>f, <1>l, <2>2, <3>1, <3>2, ConstantsAssumption
  <2>4. Line' = Append(Line, Head(tx_desc))
    BY <1>3, LineGrows
  <2>5. Channel!Commit
    BY <2>1, <2>3, <2>4 DEF Channel!Commit, Line
  <2> QED
    BY <2>5 DEF Channel!Next
<1>4. CASE uramsync_reset
  <2>1. UNCHANGED <<tx_desc, rx_desc, popped>> /\ log' = popped \o rx_desc
    BY <1>4 DEF uramsync_reset
  <2>2. /\ Line' \in Seq(Msg) /\ Len(Line') = Len(log') - Len(popped')
        /\ \A k \in 1 .. Len(Line') : Line'[k] = log'[Len(popped') + k]
    <3>1. LineIsRest'
      BY LineProperties, PTL
    <3> QED
      BY <3>1 DEF LineIsRest
  <2>3. /\ Len(log') = Len(popped) + Len(rx_desc)
        /\ \A k \in 1 .. Len(rx_desc) : log'[Len(popped) + k] = rx_desc[k]
    BY <1>f, <1>t, <2>1
  <2>4. Len(Line') = Len(rx_desc) /\ \A k \in 1 .. Len(rx_desc) : Line'[k] = rx_desc[k]
    BY <1>f, <2>1, <2>2, <2>3
  <2> DEFINE n == Len(rx_desc)
             S == SubSeq(Line, 1, n)
  <2>5. n \in 0 .. Len(Line)
    BY <1>f, <1>l
  <2>6. \A k \in 1 .. n : Line[k] \in Msg
    BY <1>l, <1>f, <2>5
  <2>7. S \in Seq(Msg) /\ Len(S) = n /\ \A k \in 1 .. n : S[k] = Line[k]
    BY <1>f, <2>6, SubSeqProperties
  <2>8. \A k \in 1 .. n : Line[k] = rx_desc[k]
    <3> TAKE k \in 1 .. n
    <3>1. k \in 1 .. Len(Line)
      BY <1>f, <2>5
    <3> QED
      BY <1>l, <3>1 DEF IInv, InOrder
  <2> HIDE DEF S
  <2>9. Line' = S
    BY <2>2, <2>4, <2>7, <2>8, SeqEqual
  <2>10. Channel!Reset
    BY <2>1, <2>5, <2>9 DEF Channel!Reset, Line, S
  <2> QED
    BY <2>10 DEF Channel!Next
<1>5. CASE UNCHANGED <<tx_desc, log, popped>>
  BY <1>5 DEF Channel!vars
<1>6. CASE tx_number \/ tx_checksum \/ Dma
  BY <1>5, <1>6 DEF tx_number, tx_checksum, Dma, dma_header, dma_buf, dma_crc
<1>7. CASE RxTask
  BY <1>5, <1>7
  DEF RxTask, rx_wake, rx_scan, rx_copy, rx_copy_header, rx_copy_buf, rx_check, rx_push,
      rx_rseq_update
<1>8. CASE UNCHANGED vars
  BY <1>5, <1>8 DEF vars
<1> QED
  BY <1>1, <1>2, <1>3, <1>4, <1>6, <1>7, <1>8 DEF Next, TxTask

(* The transport, with its unlocked slots, checksums and acknowledgements, *)
(* implements the FIFO line of RamChannel, which holds at most one message *)
(* per slot and per receive descriptor.                                    *)
THEOREM Refinement == Spec => ChannelSpec
<1>1. Init => Channel!Init
  <2> SUFFICES ASSUME Init
               PROVE  Channel!Init
    OBVIOUS
  <2>1. tx_desc = <<>> /\ log = <<>> /\ popped = <<>>
    BY DEF Init
  <2>2. SubSeq(log, Len(popped) + 1, Len(log)) = <<>>
    BY <2>1, SubSeqEmpty
  <2> QED
    BY <2>1, <2>2 DEF Channel!Init
<1>2. IInv /\ IInv' /\ [Next]_vars => [Channel!Next]_(Channel!vars)
  BY ChannelStep
<1> QED
  BY <1>1, <1>2, Inductive, PTL DEF Spec, ChannelSpec, Channel!Spec

=============================================================================
