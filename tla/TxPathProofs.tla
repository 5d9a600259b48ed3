---------------------------- MODULE TxPathProofs ----------------------------
(***************************************************************************)
(* Proofs about TxPath, for any number of station entries, packets,        *)
(* descriptors and hand-backs.                                             *)
(*                                                                         *)
(* Two arguments meet in the invariant.  Packets: Apart and Referenced say *)
(* that the lists share no packet and together hold what is referenced.    *)
(* Triggers: Announced says for every place of the Wi-Fi task how it will  *)
(* come back to an entry with something to send.  It needs DescAccounted   *)
(* and CfmRaised (where no descriptor was left, a confirmation is to       *)
(* come), LinksMatch and GroupFixed (which entry a release reaches),       *)
(* LiveOrStale (an entry that is linked anew holds nothing to send) and    *)
(* DownOpen (what went down is not off channel, so it can be purged).      *)
(***************************************************************************)
EXTENDS TxPath, TLAPS, SequenceTheorems, FiniteSetTheorems, WellFoundedInduction

(* No packet twice in a list. *)
Distinct(s) == \A j, k \in DOMAIN s : s[j] = s[k] => j = k

(* Where the packets are, as sets. *)
Pend(i) == ToSet(pending_list[i])
Wait(i) == ToSet(waiting_list[i])
Ongoing == ToSet(list_ongoing)
Cfm == ToSet(CfmPkts)

(* A list holds no packet twice, two lists have none in common, and the    *)
(* lists of a station have only its own.                                   *)
Apart ==
  /\ \A i \in Sta :
       /\ Distinct(pending_list[i]) /\ Distinct(waiting_list[i])
       /\ Pend(i) \cap Wait(i) = {}
  /\ Distinct(list_ongoing) /\ Distinct(CfmPkts) /\ Ongoing \cap Cfm = {}
  /\ out \cap (Ongoing \cup Cfm) = {}
  /\ \A i \in Sta : Queued(i) \cap (out \cup Ongoing \cup Cfm) = {}
  /\ \A i \in Sta : \A p \in Queued(i) : sta_id[p] = i

(* The driver holds a reference on the packets it has, and knows where     *)
(* they go.                                                                *)
Referenced ==
  /\ \A p \in Pkt : ref[p] = 1 <=>
       p \in out \cup Ongoing \cup Cfm \/ \E i \in Sta : p \in Queued(i)
  /\ \A p \in Pkt : ref[p] = 1 => sta_id[p] \in Sta

(* The group station is the AP's, for good. *)
GroupFixed == fixed_sta_idx["AP"] = BcmcIdx /\ vif_idx[BcmcIdx] = "AP"

(* A packet for an entry that is not in use lost its link. *)
LiveOrStale == \A p \in Pkt : ref[p] = 1 /\ ~is_used[sta_id[p]] => p \in stale

(* Confirmations to handle are announced, or being handled. *)
CfmRaised == list_cfm # <<>> => irq \/ pc = "bh"

(* The firmware owes a release for what it handed back and the host has    *)
(* not handled; it hands no group packet back for power save.              *)
OwedFor(c) ==
  LET i == sta_id[c.pkt] IN
  /\ "FRAME_REPUSHABLE_CHAN" \in c.status => vif_idx[i] \in fw_chan
  /\ "FRAME_REPUSHABLE_PS" \in c.status => i # BcmcIdx /\ (i \in fw_ps \/ ~is_used[i])

Owed == \A c \in ToSet(list_cfm) : OwedFor(c)

(* Off channel no longer than a link lasts. *)
DownOpen == \A v \in Vif : links_num[v] = 0 => ~fc_chan[v]

(* What the flush has to move: on an entry in use the packets that have    *)
(* their link, on one that went down all of them.                          *)
ToSend(i) == IF is_used[i] THEN Queued(i) \ stale ELSE Queued(i)

(* Entry i has packets to send and may send them. *)
Needs(i) == Recovers(i) /\ ToSend(i) # {} /\ bl_tx_cntrl_check_fc(i)

(* The Wi-Fi task, under way, will come to entry i. *)
OnTheWay(i) ==
  \/ pc \in {"bh", "flush"} /\ i \in trig \cup sta_trigger \cup trigger_pending
  \/ pc = "walk" /\ i \in trig /\ walk <= i

Announced == \A i \in Sta : Needs(i) => WillFlush(i) \/ OnTheWay(i)

IInv ==
  /\ TypeOK /\ DescAccounted /\ Apart /\ Referenced
  /\ GroupFixed /\ LinksMatch /\ LiveOrStale
  /\ CfmRaised /\ Owed /\ FcReleasable /\ DownOpen /\ Announced

-----------------------------------------------------------------------------
(* Lists of packets: what they hold once they have grown, shrunk or been   *)
(* split, and that they hold it once.                                      *)

(* The empty list holds nothing. *)
LEMMA EmptyList == Distinct(<<>>) /\ ToSet(<<>>) = {}
  BY DEF Distinct, ToSet

(* A list that grows by a packet holds that packet too, and still none     *)
(* twice.                                                                  *)
LEMMA AppendList ==
  ASSUME NEW S, NEW s \in Seq(S), NEW e \in S
  PROVE  /\ ToSet(Append(s, e)) = ToSet(s) \cup {e}
         /\ Distinct(s) /\ e \notin ToSet(s) => Distinct(Append(s, e))
<1> DEFINE t == Append(s, e)
<1>1. Len(s) \in Nat /\ DOMAIN s = 1 .. Len(s)
  BY LenProperties
<1>2. t \in Seq(S) /\ Len(t) = Len(s) + 1 /\ DOMAIN t = 1 .. Len(s) + 1
  BY AppendProperties, LenProperties
<1>3. t[Len(s) + 1] = e /\ \A k \in DOMAIN s : k \in DOMAIN t /\ t[k] = s[k]
  BY <1>1, <1>2, AppendProperties
<1>4. \A k \in DOMAIN t : k \in DOMAIN s \/ k = Len(s) + 1
  BY <1>1, <1>2
<1>5. Len(s) + 1 \in DOMAIN t
  BY <1>1, <1>2
<1> HIDE DEF t
<1>6. ToSet(t) = ToSet(s) \cup {e}
  BY <1>3, <1>4, <1>5 DEF ToSet
<1>7. Distinct(s) /\ e \notin ToSet(s) => Distinct(t)
  BY <1>1, <1>3, <1>4 DEF Distinct, ToSet
<1> QED
  BY <1>6, <1>7 DEF t

(* A list that loses its head holds the rest. *)
LEMMA TailList ==
  ASSUME NEW S, NEW s \in Seq(S), s # <<>>
  PROVE  /\ Head(s) \in ToSet(s)
         /\ ToSet(Tail(s)) \subseteq ToSet(s)
         /\ ToSet(s) \subseteq ToSet(Tail(s)) \cup {Head(s)}
         /\ Distinct(s) => Distinct(Tail(s)) /\ Head(s) \notin ToSet(Tail(s))
<1> DEFINE t == Tail(s)
<1>1. Len(s) \in Nat \ {0} /\ DOMAIN s = 1 .. Len(s)
  BY LenProperties, EmptySeq
<1>2. t \in Seq(S) /\ Len(t) = Len(s) - 1 /\ DOMAIN t = 1 .. Len(s) - 1
  BY HeadTailProperties, LenProperties
<1>3. /\ Head(s) = s[1] /\ 1 \in DOMAIN s
      /\ \A k \in DOMAIN t : k + 1 \in DOMAIN s /\ t[k] = s[k + 1] /\ k + 1 # 1
  BY <1>1, <1>2, HeadTailProperties
<1>4. \A k \in DOMAIN s : k = 1 \/ (k - 1 \in DOMAIN t /\ t[k - 1] = s[k])
  BY <1>1, <1>2, <1>3
<1>5. DOMAIN t \subseteq Int
  BY <1>1, <1>2
<1> HIDE DEF t
<1>6. /\ Head(s) \in ToSet(s) /\ ToSet(t) \subseteq ToSet(s)
      /\ ToSet(s) \subseteq ToSet(t) \cup {Head(s)}
  BY <1>3, <1>4 DEF ToSet
<1>7. Distinct(s) => Distinct(t)
  BY <1>3, <1>5 DEF Distinct
<1>8. Distinct(s) => Head(s) \notin ToSet(t)
  BY <1>3 DEF Distinct, ToSet
<1> QED
  BY <1>6, <1>7, <1>8 DEF t

(* Two lists joined hold what each held; none twice if they share none. *)
LEMMA ConcatList ==
  ASSUME NEW S, NEW s \in Seq(S), NEW t \in Seq(S)
  PROVE  /\ ToSet(s \o t) = ToSet(s) \cup ToSet(t)
         /\ Distinct(s \o t) <=>
              Distinct(s) /\ Distinct(t) /\ ToSet(s) \cap ToSet(t) = {}
<1> DEFINE u == s \o t
<1>1. /\ Len(s) \in Nat /\ DOMAIN s = 1 .. Len(s)
      /\ Len(t) \in Nat /\ DOMAIN t = 1 .. Len(t)
  BY LenProperties
<1>2. u \in Seq(S) /\ Len(u) = Len(s) + Len(t) /\ DOMAIN u = 1 .. Len(s) + Len(t)
  BY <1>1, ConcatProperties, LenProperties
<1>3. /\ \A k \in DOMAIN s : k \in DOMAIN u /\ u[k] = s[k]
      /\ \A k \in DOMAIN t : k + Len(s) \in DOMAIN u /\ u[k + Len(s)] = t[k]
  BY <1>1, <1>2, ConcatProperties
<1>4. \A k \in DOMAIN u :
        k \in DOMAIN s \/ (k - Len(s) \in DOMAIN t /\ (k - Len(s)) + Len(s) = k)
  BY <1>1, <1>2
<1> HIDE DEF u
<1>5. ToSet(u) = ToSet(s) \cup ToSet(t)
  <2>1. ASSUME NEW x \in ToSet(u) PROVE x \in ToSet(s) \cup ToSet(t)
    BY <1>3, <1>4 DEF ToSet
  <2>2. ASSUME NEW x \in ToSet(s) \cup ToSet(t) PROVE x \in ToSet(u)
    BY <1>3 DEF ToSet
  <2> QED
    BY <2>1, <2>2
<1>6. ASSUME Distinct(u) PROVE Distinct(s) /\ Distinct(t) /\ ToSet(s) \cap ToSet(t) = {}
  <2>1. Distinct(s)
    BY <1>3, <1>6 DEF Distinct
  <2>2. Distinct(t)
    BY <1>1, <1>3, <1>6 DEF Distinct
  <2>3. ASSUME NEW j \in DOMAIN s, NEW k \in DOMAIN t PROVE s[j] # t[k]
    BY <1>1, <1>3, <1>6 DEF Distinct
  <2> QED
    BY <2>1, <2>2, <2>3 DEF ToSet
<1>7. ASSUME Distinct(s), Distinct(t), ToSet(s) \cap ToSet(t) = {} PROVE Distinct(u)
  <2> SUFFICES ASSUME NEW j \in DOMAIN u, NEW k \in DOMAIN u, u[j] = u[k] PROVE j = k
    BY DEF Distinct
  <2>1. \A a \in DOMAIN s, b \in DOMAIN t : s[a] # t[b]
    BY <1>7 DEF ToSet
  <2>2. CASE j \in DOMAIN s /\ k \in DOMAIN s
    BY <1>3, <1>7, <2>2 DEF Distinct
  <2>3. CASE j \notin DOMAIN s /\ k \notin DOMAIN s
    BY <1>1, <1>2, <1>3, <1>4, <1>7, <2>3 DEF Distinct
  <2>4. CASE j \in DOMAIN s /\ k \notin DOMAIN s
    BY <1>3, <1>4, <2>1, <2>4
  <2>5. CASE j \notin DOMAIN s /\ k \in DOMAIN s
    BY <1>3, <1>4, <2>1, <2>5
  <2> QED
    BY <2>2, <2>3, <2>4, <2>5
<1> QED
  BY <1>5, <1>6, <1>7 DEF u

(* A list split in two holds every packet in one part only. *)
LEMMA SplitList ==
  ASSUME NEW S, NEW s \in Seq(S), NEW n \in 0 .. Len(s)
  PROVE  LET a == SubSeq(s, 1, n)
             b == SubSeq(s, n + 1, Len(s))
         IN /\ a \in Seq(S) /\ Len(a) = n
            /\ b \in Seq(S) /\ Len(b) = Len(s) - n
            /\ ToSet(a) \cup ToSet(b) = ToSet(s)
            /\ Distinct(s) => Distinct(a) /\ Distinct(b) /\ ToSet(a) \cap ToSet(b) = {}
<1> DEFINE a == SubSeq(s, 1, n)
           b == SubSeq(s, n + 1, Len(s))
<1>1. Len(s) \in Nat /\ n \in Nat /\ n <= Len(s) /\ \A k \in 1 .. Len(s) : s[k] \in S
  BY LenProperties
<1>2. a \in Seq(S) /\ Len(a) = n
  BY <1>1, SubSeqProperties
<1>3. b \in Seq(S) /\ Len(b) = Len(s) - n
  BY <1>1, SubSeqProperties
<1>4. a \o b = s
  <2>1. 1 \in 1 .. Len(s) + 1 /\ n \in 1 - 1 .. Len(s) /\ Len(s) \in n .. Len(s)
    BY <1>1
  <2>2. a \o b = SubSeq(s, 1, Len(s))
    BY <2>1, ConcatAdjacentSubSeq
  <2> QED
    BY <2>2, SubSeqFull
<1> HIDE DEF a, b
<1>5. ToSet(a) \cup ToSet(b) = ToSet(s)
  BY <1>2, <1>3, <1>4, ConcatList
<1>6. Distinct(s) => Distinct(a) /\ Distinct(b) /\ ToSet(a) \cap ToSet(b) = {}
  BY <1>2, <1>3, <1>4, ConcatList
<1> QED
  BY <1>2, <1>3, <1>5, <1>6 DEF a, b

(* A list that loses the packet at k holds the others. *)
LEMMA RemoveAtList ==
  ASSUME NEW S, NEW s \in Seq(S), NEW k \in 1 .. Len(s)
  PROVE  /\ RemoveAt(s, k) \in Seq(S) /\ Len(RemoveAt(s, k)) = Len(s) - 1
         /\ s[k] \in S /\ s[k] \in ToSet(s)
         /\ ToSet(RemoveAt(s, k)) \cup {s[k]} = ToSet(s)
         /\ Distinct(s) => Distinct(RemoveAt(s, k)) /\ s[k] \notin ToSet(RemoveAt(s, k))
<1> DEFINE a == SubSeq(s, 1, k - 1)
           b == SubSeq(s, k, Len(s))
           c == SubSeq(s, k + 1, Len(s))
<1>1. Len(s) \in Nat /\ k \in Nat /\ k - 1 \in 0 .. Len(s) /\ (k - 1) + 1 = k
  BY LenProperties
<1>2. /\ a \in Seq(S) /\ Len(a) = k - 1
      /\ b \in Seq(S) /\ Len(b) = Len(s) - (k - 1)
      /\ ToSet(a) \cup ToSet(b) = ToSet(s)
      /\ Distinct(s) => Distinct(a) /\ Distinct(b) /\ ToSet(a) \cap ToSet(b) = {}
  BY <1>1, SplitList
<1>3. Head(b) = s[k] /\ Tail(b) = c /\ b # <<>>
  <2>1. Len(s) \in k .. Len(s)
    BY <1>1
  <2>2. Len(b) # 0
    BY <1>1, <1>2
  <2> QED
    BY <1>2, <2>1, <2>2, EmptySeq, HeadTailOfSubSeq
<1>4. c \in Seq(S) /\ Len(c) = Len(s) - k
  BY <1>1, <1>2, <1>3, HeadTailProperties
<1> HIDE DEF a, b, c
<1>5. /\ s[k] \in ToSet(b) /\ ToSet(c) \subseteq ToSet(b)
      /\ ToSet(b) \subseteq ToSet(c) \cup {s[k]}
      /\ Distinct(b) => Distinct(c) /\ s[k] \notin ToSet(c)
  BY <1>2, <1>3, TailList
<1>6. RemoveAt(s, k) = a \o c
  BY DEF RemoveAt, a, c
<1>7. a \o c \in Seq(S) /\ Len(a \o c) = Len(s) - 1
  BY <1>1, <1>2, <1>4, ConcatProperties
<1>8. /\ ToSet(a \o c) = ToSet(a) \cup ToSet(c)
      /\ Distinct(a \o c) <=> Distinct(a) /\ Distinct(c) /\ ToSet(a) \cap ToSet(c) = {}
  BY <1>2, <1>4, ConcatList
<1>9. s[k] \in S
  BY LenProperties
<1> QED
  BY <1>2, <1>5, <1>6, <1>7, <1>8, <1>9

(* The smaller of two numbers. *)
LEMMA MinOfTwo ==
  ASSUME NEW a \in Nat, NEW b \in Nat
  PROVE  Min({a, b}) = IF a <= b THEN a ELSE b
<1>1. \E x \in {a, b} : \A y \in {a, b} : x <= y
  OBVIOUS
<1>2. Min({a, b}) \in {a, b} /\ \A y \in {a, b} : Min({a, b}) <= y
  BY <1>1 DEF Min
<1> QED
  BY <1>2

(* The least of a set of station entries is one of them. *)
LEMMA MinOfSome ==
  ASSUME NEW S, S \subseteq Nat, S # {}
  PROVE  Min(S) \in S
<1>1. PICK x \in S : \A y \in S : <<y, x>> \notin OpToRel(<, Nat)
  BY NatLessThanWellFounded, WFMin
<1>2. \A y \in S : x <= y
  <2> SUFFICES ASSUME NEW y \in S PROVE x <= y
    OBVIOUS
  <2>1. x \in Nat /\ y \in Nat
    OBVIOUS
  <2>2. <<y, x>> \in OpToRel(<, Nat) <=> y < x
    BY <2>1 DEF OpToRel
  <2>3. ~(y < x)
    BY <1>1, <2>2, Zenon
  <2> QED
    BY <2>1, <2>3
<1> QED
  BY <1>2 DEF Min

(* The packets of the completed descriptors change as these do. *)
Completion == [pkt : Pkt, status : TxStatus]
PktsOf(c) == [k \in DOMAIN c |-> c[k].pkt]

(* The list of completed packets grows and shrinks with the completions. *)
LEMMA CfmList ==
  ASSUME NEW c \in Seq(Completion)
  PROVE  /\ PktsOf(c) \in Seq(Pkt) /\ Len(PktsOf(c)) = Len(c)
         /\ \A r \in Completion : PktsOf(Append(c, r)) = Append(PktsOf(c), r.pkt)
         /\ c # <<>> => /\ PktsOf(c) # <<>> /\ Head(PktsOf(c)) = Head(c).pkt
                        /\ PktsOf(Tail(c)) = Tail(PktsOf(c))
<1>1. /\ Len(c) \in Nat /\ DOMAIN c = 1 .. Len(c)
      /\ \A k \in 1 .. Len(c) : c[k] \in Completion
  BY LenProperties
<1>2. /\ PktsOf(c) \in Seq(Pkt) /\ Len(PktsOf(c)) = Len(c)
      /\ \A k \in 1 .. Len(c) : PktsOf(c)[k] = c[k].pkt
  BY <1>1 DEF PktsOf, Completion
<1>3. ASSUME NEW r \in Completion PROVE PktsOf(Append(c, r)) = Append(PktsOf(c), r.pkt)
  <2> DEFINE d == Append(c, r)
             e == Append(PktsOf(c), r.pkt)
  <2>1. /\ d \in Seq(Completion) /\ Len(d) = Len(c) + 1 /\ DOMAIN d = 1 .. Len(c) + 1
        /\ d[Len(c) + 1] = r /\ \A k \in 1 .. Len(c) : d[k] = c[k]
    BY <1>1, AppendProperties, LenProperties
  <2>2. /\ e \in Seq(Pkt) /\ Len(e) = Len(c) + 1
        /\ e[Len(c) + 1] = r.pkt /\ \A k \in 1 .. Len(c) : e[k] = c[k].pkt
    BY <1>2, AppendProperties DEF Completion
  <2> HIDE DEF d, e
  <2>3. PktsOf(d) \in Seq(Pkt) /\ Len(PktsOf(d)) = Len(c) + 1
        /\ \A k \in 1 .. Len(c) + 1 : PktsOf(d)[k] = d[k].pkt
    <3>1. \A k \in 1 .. Len(c) + 1 : d[k] \in Completion
      BY <2>1, LenProperties
    <3> QED
      BY <1>1, <2>1, <3>1 DEF PktsOf, Completion
  <2>4. \A k \in 1 .. Len(c) + 1 : PktsOf(d)[k] = e[k]
    BY <1>1, <2>1, <2>2, <2>3
  <2>5. PktsOf(d) = e
    BY <2>2, <2>3, <2>4, SeqEqual
  <2> QED
    BY <2>5 DEF d, e
<1>4. ASSUME c # <<>>
      PROVE  /\ PktsOf(c) # <<>> /\ Head(PktsOf(c)) = Head(c).pkt
             /\ PktsOf(Tail(c)) = Tail(PktsOf(c))
  <2> DEFINE d == Tail(c)
             e == Tail(PktsOf(c))
  <2>1. Len(c) # 0
    BY <1>4, EmptySeq
  <2>2. PktsOf(c) # <<>>
    BY <1>2, <2>1, EmptySeq
  <2>3. Head(PktsOf(c)) = Head(c).pkt
    BY <1>1, <1>2, <1>4, <2>1, <2>2
  <2>4. /\ d \in Seq(Completion) /\ Len(d) = Len(c) - 1 /\ DOMAIN d = 1 .. Len(c) - 1
        /\ \A k \in 1 .. Len(c) - 1 : d[k] = c[k + 1]
    BY <1>4, HeadTailProperties, LenProperties
  <2>5. /\ e \in Seq(Pkt) /\ Len(e) = Len(c) - 1
        /\ \A k \in 1 .. Len(c) - 1 : e[k] = c[k + 1].pkt
    BY <1>1, <1>2, <2>2, HeadTailProperties
  <2> HIDE DEF d, e
  <2>6. PktsOf(d) \in Seq(Pkt) /\ Len(PktsOf(d)) = Len(c) - 1
        /\ \A k \in 1 .. Len(c) - 1 : PktsOf(d)[k] = d[k].pkt
    <3>1. \A k \in 1 .. Len(c) - 1 : d[k] \in Completion
      BY <2>4, LenProperties
    <3> QED
      BY <1>1, <2>1, <2>4, <3>1 DEF PktsOf, Completion
  <2>7. PktsOf(d) = e
    BY <2>4, <2>5, <2>6, SeqEqual
  <2> QED
    BY <2>2, <2>3, <2>7 DEF d, e
<1> QED
  BY <1>2, <1>3, <1>4

-----------------------------------------------------------------------------
(* What the steps that move packets do to the lists. *)

(* bl_output looks up an entry in use for a packet the driver does not hold. *)
LEMMA OutputEffect ==
  ASSUME IInv, NEW p \in Pkt, NEW d \in Dest, bl_output(p, d)
  PROVE  /\ ref[p] = 0 /\ ref' = [ref EXCEPT ![p] = 1]
         /\ out = {} /\ out' = {p}
         /\ \E i \in Sta : is_used[i] /\ sta_id' = [sta_id EXCEPT ![p] = i]
<1>1. ref[p] = 0
  BY ConstantsAssumption DEF bl_output, IInv, Referenced, TypeOK, PktOK, Sta
<1>2. ref' = [ref EXCEPT ![p] = 1]
  BY <1>1 DEF bl_output, IInv, TypeOK, PktOK
<1>3. out = {} /\ out' = {p}
  BY DEF bl_output
<1>4. ASSUME NEW i \in bl_tx_cntrl_get_sta_id(d) PROVE i \in Sta /\ is_used[i]
  <2> DEFINE U == {j \in Sta : links_num["AP"] > 0 /\ is_used[j] /\ sta_addr[j] = d}
  <2>1. CASE d = ViaSta \/ d = Bcast
    <3>1. PICK v \in Vif : i = fixed_sta_idx[v] /\ is_used[i]
      <4>1. CASE d = ViaSta
        BY <1>4, <4>1 DEF bl_tx_cntrl_get_sta_id, Vif
      <4>2. CASE d = Bcast
        BY <1>4, <4>2, ConstantsAssumption DEF bl_tx_cntrl_get_sta_id, Vif
      <4> QED
        BY <2>1, <4>1, <4>2
    <3>2. fixed_sta_idx \in [Vif -> Sta]
      BY DEF IInv, TypeOK, StaOK
    <3> QED
      BY <3>1, <3>2
  <2>2. CASE d # ViaSta /\ d # Bcast
    <3>1. U # {} /\ i = Min(U)
      BY <1>4, <2>2 DEF bl_tx_cntrl_get_sta_id
    <3>2. U \subseteq Nat
      BY ConstantsAssumption DEF Sta
    <3> HIDE DEF U
    <3>3. i \in U
      BY <3>1, <3>2, MinOfSome
    <3> QED
      BY <3>3 DEF U
  <2> QED
    BY <2>1, <2>2
<1> QED
  BY <1>1, <1>2, <1>3, <1>4 DEF bl_output

(* The critical section of bl_output moves the packet to its station. *)
LEMMA QueueEffect ==
  ASSUME IInv, NEW p \in Pkt, bl_output_queue(p)
  PROVE  \E i \in Sta :
           /\ i = sta_id[p] /\ p \in out /\ out' = out \ {p}
           /\ waiting_list' \in [Sta -> Seq(Pkt)] /\ Distinct(waiting_list'[i])
           /\ Wait(i)' = Wait(i) \cup {p}
           /\ \A j \in Sta \ {i} : waiting_list'[j] = waiting_list[j]
<1>1. p \in out /\ out' = out \ {p}
  BY DEF bl_output_queue
<1>2. PICK i \in Sta : i = sta_id[p]
  BY <1>1 DEF IInv, Referenced, TypeOK, PktOK
<1>3. /\ waiting_list' = [waiting_list EXCEPT ![i] = Append(@, p)]
      /\ waiting_list \in [Sta -> Seq(Pkt)]
  BY <1>2 DEF bl_output_queue, IInv, TypeOK, ListOK
<1>4. waiting_list'[i] = Append(waiting_list[i], p) /\ waiting_list[i] \in Seq(Pkt)
  BY <1>3
<1>5. p \notin Wait(i) /\ Distinct(waiting_list[i])
  BY <1>1 DEF IInv, Apart, Queued, Wait
<1>6. /\ Distinct(waiting_list'[i])
      /\ ToSet(waiting_list'[i]) = ToSet(waiting_list[i]) \cup {p}
  BY <1>4, <1>5, AppendList DEF Wait
<1>7. /\ waiting_list' \in [Sta -> Seq(Pkt)]
      /\ \A j \in Sta \ {i} : waiting_list'[j] = waiting_list[j]
  BY <1>3, <1>4, AppendProperties
<1> QED
  BY <1>1, <1>2, <1>6, <1>7 DEF Wait

(* The firmware completes a packet: it changes lists. *)
LEMMA CompleteEffect ==
  ASSUME IInv, NEW k \in 1 .. Len(list_ongoing), NEW value \in TxStatus,
         fw_complete(k, value)
  PROVE  \E p \in Pkt :
           /\ p = list_ongoing[k] /\ p \in Ongoing
           /\ list_ongoing' \in Seq(Pkt) /\ Len(list_ongoing') = Len(list_ongoing) - 1
           /\ Ongoing' \cup {p} = Ongoing /\ p \notin Ongoing'
           /\ Distinct(list_ongoing')
           /\ list_cfm' = Append(list_cfm, [pkt |-> p, status |-> value])
           /\ list_cfm' \in Seq(Completion) /\ Len(list_cfm') = Len(list_cfm) + 1
           /\ Cfm' = Cfm \cup {p} /\ Distinct(CfmPkts')
<1>1. /\ list_ongoing \in Seq(Pkt) /\ list_cfm \in Seq(Completion)
      /\ Distinct(list_ongoing)
  BY DEF IInv, TypeOK, ListOK, Apart, Completion
<1>2. PICK p \in Pkt : p = list_ongoing[k]
  BY <1>1, RemoveAtList
<1>3. /\ list_ongoing' = RemoveAt(list_ongoing, k)
      /\ list_cfm' = Append(list_cfm, [pkt |-> p, status |-> value])
  BY <1>2 DEF fw_complete
<1>4. /\ list_ongoing' \in Seq(Pkt) /\ Len(list_ongoing') = Len(list_ongoing) - 1
      /\ p \in Ongoing /\ Ongoing' \cup {p} = Ongoing /\ p \notin Ongoing'
      /\ Distinct(list_ongoing')
  BY <1>1, <1>2, <1>3, RemoveAtList DEF Ongoing
<1>5. [pkt |-> p, status |-> value] \in Completion
  BY DEF Completion
<1>6. list_cfm' \in Seq(Completion) /\ Len(list_cfm') = Len(list_cfm) + 1
  BY <1>1, <1>3, <1>5, AppendProperties
<1>7. CfmPkts' = Append(CfmPkts, p) /\ CfmPkts \in Seq(Pkt)
  BY <1>1, <1>3, <1>5, CfmList DEF CfmPkts, PktsOf
<1>8. p \notin Cfm /\ Distinct(CfmPkts)
  BY <1>4 DEF IInv, Apart
<1>9. Cfm' = Cfm \cup {p} /\ Distinct(CfmPkts')
  BY <1>7, <1>8, AppendList DEF Cfm
<1> QED
  BY <1>2, <1>3, <1>4, <1>6, <1>9

(* A confirmation frees the first completed descriptor; a packet that is   *)
(* pushed again joins the pending list of its station.                     *)
LEMMA CfmEffect ==
  ASSUME IInv, bl_tx_cfm
  PROVE  \E p \in Pkt, i \in Sta, value \in TxStatus :
           /\ Head(list_cfm) = [pkt |-> p, status |-> value] /\ i = sta_id[p]
           /\ p \in Cfm /\ ref[p] = 1
           /\ list_cfm' \in Seq(Completion) /\ Len(list_cfm') = Len(list_cfm) - 1
           /\ Cfm' \cup {p} = Cfm /\ p \notin Cfm' /\ Distinct(CfmPkts')
           /\ \/ /\ Repushed(p, value) /\ ref' = ref
                 /\ pending_list' \in [Sta -> Seq(Pkt)] /\ Distinct(pending_list'[i])
                 /\ Pend(i)' = Pend(i) \cup {p}
                 /\ \A j \in Sta \ {i} : pending_list'[j] = pending_list[j]
              \/ /\ ~Repushed(p, value) /\ ref' = [ref EXCEPT ![p] = 0]
                 /\ pending_list' = pending_list
<1>1. list_cfm \in Seq(Completion) /\ list_cfm # <<>> /\ list_cfm' = Tail(list_cfm)
  BY DEF bl_tx_cfm, desc_to_free, IInv, TypeOK, ListOK, Completion
<1>2. Head(list_cfm) \in Completion
  BY <1>1, HeadTailProperties
<1>3. PICK p \in Pkt, value \in TxStatus :
          Head(list_cfm) = [pkt |-> p, status |-> value]
  BY <1>2 DEF Completion
<1>4. /\ CfmPkts \in Seq(Pkt) /\ CfmPkts # <<>> /\ Head(CfmPkts) = p
      /\ CfmPkts' = Tail(CfmPkts)
  BY <1>1, <1>3, CfmList DEF CfmPkts, PktsOf
<1>5. Distinct(CfmPkts)
  BY DEF IInv, Apart
<1>6. p \in Cfm /\ Cfm' \cup {p} = Cfm /\ p \notin Cfm' /\ Distinct(CfmPkts')
  BY <1>4, <1>5, TailList DEF Cfm
<1>7. list_cfm' \in Seq(Completion) /\ Len(list_cfm') = Len(list_cfm) - 1
  BY <1>1, HeadTailProperties
<1>8. ref[p] = 1
  BY <1>6 DEF IInv, Referenced
<1>9. PICK i \in Sta : i = sta_id[p]
  BY <1>8 DEF IInv, Referenced
<1>10. \/ /\ Repushed(p, value) /\ ref' = ref
          /\ pending_list' = [pending_list EXCEPT ![i] = Append(@, p)]
       \/ /\ ~Repushed(p, value) /\ ref' = [ref EXCEPT ![p] = @ - 1]
          /\ pending_list' = pending_list
  BY <1>3, <1>9 DEF bl_tx_cfm
<1>11. /\ pending_list \in [Sta -> Seq(Pkt)] /\ pending_list[i] \in Seq(Pkt)
       /\ ref \in [Pkt -> {0, 1}]
  BY DEF IInv, TypeOK, ListOK, PktOK
<1>12. p \notin Pend(i) /\ Distinct(pending_list[i])
  BY <1>6 DEF IInv, Apart, Queued, Pend
<1>13. ASSUME pending_list' = [pending_list EXCEPT ![i] = Append(@, p)]
       PROVE  /\ pending_list' \in [Sta -> Seq(Pkt)] /\ Distinct(pending_list'[i])
              /\ Pend(i)' = Pend(i) \cup {p}
              /\ \A j \in Sta \ {i} : pending_list'[j] = pending_list[j]
  <2>1. pending_list'[i] = Append(pending_list[i], p)
    BY <1>11, <1>13
  <2>2. /\ Distinct(pending_list'[i])
        /\ ToSet(pending_list'[i]) = ToSet(pending_list[i]) \cup {p}
    BY <1>11, <1>12, <2>1, AppendList DEF Pend
  <2>3. /\ pending_list' \in [Sta -> Seq(Pkt)]
        /\ \A j \in Sta \ {i} : pending_list'[j] = pending_list[j]
    BY <1>11, <1>13, <2>1, AppendProperties
  <2> QED
    BY <2>2, <2>3 DEF Pend
<1>14. ref' = [ref EXCEPT ![p] = @ - 1] => ref' = [ref EXCEPT ![p] = 0]
  BY <1>8, <1>11
<1> QED
  BY <1>3, <1>6, <1>7, <1>8, <1>9, <1>10, <1>13, <1>14

(* bl_tx_try_flush moves the packets of a station to descriptors; where    *)
(* some are left, no descriptor is, and the station is triggered again.    *)
LEMMA FlushEffect ==
  ASSUME IInv, flush_sta, walk \in trig, bl_tx_cntrl_check_fc(walk)
  PROVE  \E i \in Sta :
           /\ i = walk
           /\ pending_list' \in [Sta -> Seq(Pkt)] /\ waiting_list' \in [Sta -> Seq(Pkt)]
           /\ \A j \in Sta \ {i} :
                pending_list'[j] = pending_list[j] /\ waiting_list'[j] = waiting_list[j]
           /\ Pend(i)' \subseteq Pend(i) /\ Distinct(pending_list'[i])
           /\ Wait(i)' \subseteq Wait(i) /\ Distinct(waiting_list'[i])
           /\ list_ongoing' \in Seq(Pkt) /\ Distinct(list_ongoing')
           /\ Ongoing' = Ongoing \cup (Pend(i) \ Pend(i)') \cup (Wait(i) \ Wait(i)')
           /\ list_free' \in 0 .. list_free
           /\ Len(list_ongoing') = Len(list_ongoing) + (list_free - list_free')
           /\ Queued(i)' # {} => list_free' = 0 /\ i \in trigger_pending'
           /\ trigger_pending \subseteq trigger_pending'
           /\ trigger_pending' \subseteq trigger_pending \cup {i}
<1>1. PICK i \in Sta : i = walk
  BY DEF IInv, TypeOK, TaskOK
<1> DEFINE P == pending_list[i]
           W == waiting_list[i]
           n == Min({list_free, Len(P)})
           m == Min({list_free - n, Len(W)})
           left == list_free - n - m
           pa == SubSeq(P, 1, n)
           pb == SubSeq(P, n + 1, Len(P))
           wa == SubSeq(W, 1, m)
           wb == SubSeq(W, m + 1, Len(W))
<1>2. /\ pending_list \in [Sta -> Seq(Pkt)] /\ waiting_list \in [Sta -> Seq(Pkt)]
      /\ P \in Seq(Pkt) /\ W \in Seq(Pkt) /\ list_ongoing \in Seq(Pkt)
      /\ list_free \in Nat
  <2>1. /\ pending_list \in [Sta -> Seq(Pkt)]
        /\ waiting_list \in [Sta -> Seq(Pkt)] /\ list_ongoing \in Seq(Pkt)
    BY DEF IInv, TypeOK, ListOK
  <2>2. list_free \in Nat
    BY ConstantsAssumption DEF IInv, TypeOK, ListOK
  <2> QED
    BY <2>1, <2>2
<1>3. Len(P) \in Nat /\ Len(W) \in Nat
  BY <1>2, LenProperties
<1>4. /\ pending_list' = [pending_list EXCEPT ![i] = pb]
      /\ waiting_list' = [waiting_list EXCEPT ![i] = wb]
      /\ list_ongoing' = list_ongoing \o pa \o wa
      /\ list_free' = left
      /\ trigger_pending' = trigger_pending \cup Deferred(i, left)
  BY <1>1, <1>2 DEF flush_sta
<1>5. /\ n = (IF list_free <= Len(P) THEN list_free ELSE Len(P))
      /\ n \in 0 .. Len(P) /\ list_free - n \in Nat
  <2> HIDE DEF P
  <2>1. n = (IF list_free <= Len(P) THEN list_free ELSE Len(P))
    BY <1>2, <1>3, MinOfTwo
  <2> QED
    BY <1>2, <1>3, <2>1
<1>6. /\ m = (IF list_free - n <= Len(W) THEN list_free - n ELSE Len(W))
      /\ m \in 0 .. Len(W)
  <2> HIDE DEF n, W
  <2>1. m = (IF list_free - n <= Len(W) THEN list_free - n ELSE Len(W))
    BY <1>3, <1>5, MinOfTwo
  <2> QED
    BY <1>3, <1>5, <2>1
<1>7. left \in 0 .. list_free /\ list_free - left = n + m
      /\ (n # Len(P) => left = 0) /\ (m # Len(W) => left = 0)
  BY <1>2, <1>3, <1>5, <1>6
<1>8. /\ Distinct(P) /\ Distinct(W) /\ ToSet(P) \cap ToSet(W) = {}
      /\ Distinct(list_ongoing)
      /\ (ToSet(P) \cup ToSet(W)) \cap ToSet(list_ongoing) = {}
  BY DEF IInv, Apart, Queued, Pend, Wait, Ongoing
<1> HIDE DEF n, m, left, P, W
<1>9. /\ pa \in Seq(Pkt) /\ Len(pa) = n /\ pb \in Seq(Pkt) /\ Len(pb) = Len(P) - n
      /\ ToSet(pa) \cup ToSet(pb) = ToSet(P)
      /\ Distinct(pa) /\ Distinct(pb) /\ ToSet(pa) \cap ToSet(pb) = {}
  <2>1. P \in Seq(Pkt) /\ n \in 0 .. Len(P) /\ Distinct(P)
    BY <1>2, <1>5, <1>8
  <2> QED
    BY <2>1, SplitList
<1>10. /\ wa \in Seq(Pkt) /\ Len(wa) = m /\ wb \in Seq(Pkt) /\ Len(wb) = Len(W) - m
       /\ ToSet(wa) \cup ToSet(wb) = ToSet(W)
       /\ Distinct(wa) /\ Distinct(wb) /\ ToSet(wa) \cap ToSet(wb) = {}
  BY <1>2, <1>6, <1>8, SplitList
<1> HIDE DEF pa, pb, wa, wb
<1>11. /\ list_ongoing \o pa \in Seq(Pkt)
       /\ Len(list_ongoing \o pa) = Len(list_ongoing) + n
       /\ ToSet(list_ongoing \o pa) = ToSet(list_ongoing) \cup ToSet(pa)
       /\ Distinct(list_ongoing \o pa)
  <2>1. ToSet(list_ongoing) \cap ToSet(pa) = {}
    BY <1>8, <1>9
  <2>2. /\ list_ongoing \o pa \in Seq(Pkt)
        /\ Len(list_ongoing \o pa) = Len(list_ongoing) + n
    BY <1>2, <1>9, ConcatProperties
  <2> QED
    BY <1>2, <1>8, <1>9, <2>1, <2>2, ConcatList
<1>12. /\ list_ongoing' \in Seq(Pkt) /\ Len(list_ongoing') = Len(list_ongoing) + n + m
       /\ ToSet(list_ongoing') = ToSet(list_ongoing) \cup ToSet(pa) \cup ToSet(wa)
       /\ Distinct(list_ongoing')
  <2> DEFINE s == list_ongoing \o pa
  <2>1. list_ongoing' = s \o wa
    BY <1>4
  <2>2. s \in Seq(Pkt) /\ Len(s) = Len(list_ongoing) + n /\ Distinct(s)
        /\ ToSet(s) = ToSet(list_ongoing) \cup ToSet(pa)
    BY <1>11
  <2> HIDE DEF s
  <2>3. ToSet(s) \cap ToSet(wa) = {}
    BY <1>8, <1>9, <1>10, <2>2
  <2>4. s \o wa \in Seq(Pkt) /\ Len(s \o wa) = Len(list_ongoing) + n + m
    BY <1>10, <2>2, ConcatProperties
  <2>5. ToSet(s \o wa) = ToSet(s) \cup ToSet(wa) /\ Distinct(s \o wa)
    BY <1>10, <2>2, <2>3, ConcatList
  <2> QED
    BY <2>1, <2>2, <2>4, <2>5
<1>13. /\ pending_list'[i] = pb /\ waiting_list'[i] = wb
       /\ pending_list' \in [Sta -> Seq(Pkt)] /\ waiting_list' \in [Sta -> Seq(Pkt)]
       /\ \A j \in Sta \ {i} :
            pending_list'[j] = pending_list[j] /\ waiting_list'[j] = waiting_list[j]
  BY <1>2, <1>4, <1>9, <1>10
<1>14. /\ Pend(i) = ToSet(P) /\ Wait(i) = ToSet(W) /\ Pend(i)' = ToSet(pb)
       /\ Wait(i)' = ToSet(wb)
       /\ Ongoing = ToSet(list_ongoing) /\ Ongoing' = ToSet(list_ongoing')
       /\ Queued(i)' = ToSet(pb) \cup ToSet(wb)
  BY <1>13 DEF Pend, Wait, Ongoing, Queued, P, W
<1>15. Ongoing' = Ongoing \cup (Pend(i) \ Pend(i)') \cup (Wait(i) \ Wait(i)')
  BY <1>9, <1>10, <1>12, <1>14
<1>16. ASSUME Queued(i)' # {} PROVE left = 0 /\ i \in Deferred(i, left)
  <2>1. pb # <<>> \/ wb # <<>>
    BY <1>14, <1>16, EmptyList
  <2>2. CASE pb # <<>>
    <3>1. Len(pb) # 0
      BY <1>9, <2>2, EmptySeq
    <3>2. n # Len(P) /\ Len(P) # 0
      BY <1>3, <1>5, <1>9, <3>1
    <3>3. P # <<>>
      BY <1>2, <3>2, EmptySeq DEF P
    <3> QED
      BY <1>7, <3>2, <3>3 DEF Deferred, P
  <2>3. CASE wb # <<>>
    <3>1. Len(wb) # 0
      BY <1>10, <2>3, EmptySeq
    <3>2. m # Len(W) /\ Len(W) # 0
      BY <1>3, <1>6, <1>10, <3>1
    <3>3. W # <<>>
      BY <1>2, <3>2, EmptySeq DEF W
    <3> QED
      BY <1>7, <3>2, <3>3 DEF Deferred, W
  <2> QED
    BY <2>1, <2>2, <2>3
<1>17. Deferred(i, left) \subseteq {i}
  BY DEF Deferred
<1>18. /\ Len(list_ongoing') = Len(list_ongoing) + (list_free - list_free')
       /\ list_free' \in 0 .. list_free
  <2>1. Len(list_ongoing) \in Nat /\ n \in Nat /\ m \in Nat
    BY <1>2, <1>5, <1>6, LenProperties
  <2> QED
    BY <1>4, <1>7, <1>12, <2>1
<1>19. Pend(i)' \subseteq Pend(i) /\ Wait(i)' \subseteq Wait(i)
  BY <1>9, <1>10, <1>14
<1>20. Distinct(pending_list'[i]) /\ Distinct(waiting_list'[i])
  BY <1>9, <1>10, <1>13
<1>21. /\ Queued(i)' # {} => list_free' = 0 /\ i \in trigger_pending'
       /\ trigger_pending \subseteq trigger_pending'
       /\ trigger_pending' \subseteq trigger_pending \cup {i}
  BY <1>4, <1>16, <1>17
<1> HIDE DEF P, W
<1> QED
  BY <1>1, <1>12, <1>13, <1>15, <1>18, <1>19, <1>20, <1>21

-----------------------------------------------------------------------------
(* The steps keep the invariant, part by part. *)

(* The counts of descriptors are numbers, the first completed one included. *)
LEMMA Counts ==
  ASSUME IInv
  PROVE  /\ Len(list_ongoing) \in Nat /\ Len(list_cfm) \in Nat /\ list_free \in Nat
         /\ TxDescCnt \in Nat \ {0}
         /\ list_cfm # <<>> => Len(list_cfm) >= 1
<1>1. list_ongoing \in Seq(Pkt) /\ list_cfm \in Seq([pkt : Pkt, status : TxStatus])
  BY DEF IInv, TypeOK, ListOK
<1>2. list_free \in Nat
  BY ConstantsAssumption DEF IInv, TypeOK, ListOK
<1>3. Len(list_ongoing) \in Nat /\ Len(list_cfm) \in Nat
  BY <1>1, LenProperties
<1>4. list_cfm # <<>> => Len(list_cfm) # 0
  BY <1>1, EmptySeq
<1> QED
  BY <1>2, <1>3, <1>4, ConstantsAssumption

(* The station and interface tables keep their types. *)
LEMMA StaTypes == IInv /\ [Next]_vars => StaOK'
<1> SUFFICES ASSUME IInv, [Next]_vars PROVE StaOK'
  OBVIOUS
<1>1. ASSUME NEW p \in Pkt, NEW d \in Dest, bl_output(p, d) PROVE StaOK'
  BY <1>1 DEF bl_output, staVars, vifVars, IInv, TypeOK, StaOK
<1>2. ASSUME NEW p \in Pkt, bl_output_queue(p) PROVE StaOK'
  BY <1>2 DEF bl_output_queue, staVars, vifVars, IInv, TypeOK, StaOK
<1>3. CASE bl_main_event_handle
  BY <1>3 DEF bl_main_event_handle, staVars, vifVars, IInv, TypeOK, StaOK
<1>4. CASE bl_tx_cfm
  BY <1>4 DEF bl_tx_cfm, IInv, TypeOK, StaOK
<1>5. CASE sample_trigger
  BY <1>5 DEF sample_trigger, staVars, vifVars, IInv, TypeOK, StaOK
<1>6. CASE flush_sta
  BY <1>6 DEF flush_sta, staVars, vifVars, IInv, TypeOK, StaOK
<1>7. ASSUME NEW k \in 1 .. Len(list_ongoing), NEW value \in TxStatus,
             fw_complete(k, value)
      PROVE  StaOK'
  BY <1>7 DEF fw_complete, staVars, vifVars, IInv, TypeOK, StaOK
<1>8. ASSUME NEW v \in Vif, NEW chan \in BOOLEAN, NEW ps \in SUBSET fw_ps,
             fw_release(v, chan, ps)
      PROVE  StaOK'
  BY <1>8 DEF fw_release, bl_tx_cntrl_update_fc, IInv, TypeOK, StaOK
<1>9. ASSUME NEW i \in Sta, bl_rx_sm_sta_add_ind(i) PROVE StaOK'
  <2>1. /\ is_used' \in [Sta -> BOOLEAN] /\ fc_ps' \in [Sta -> BOOLEAN]
        /\ fc_chan' \in [Vif -> BOOLEAN]
    BY <1>9 DEF bl_rx_sm_sta_add_ind, IInv, TypeOK, StaOK
  <2>2. /\ vif_idx' \in [Sta -> Vif] /\ links_num' \in [Vif -> Nat]
        /\ fixed_sta_idx' \in [Vif -> Sta]
    BY <1>9 DEF bl_rx_sm_sta_add_ind, IInv, TypeOK, StaOK, Vif
  <2> QED
    BY <1>9, <2>1, <2>2 DEF bl_rx_sm_sta_add_ind, IInv, TypeOK, StaOK
<1>10. CASE bl_rx_sm_disconnect_ind
  <2>1. is_used' \in [Sta -> BOOLEAN] /\ fc_chan' \in [Vif -> BOOLEAN]
    BY <1>10 DEF bl_rx_sm_disconnect_ind, IInv, TypeOK, StaOK
  <2>2. links_num' \in [Vif -> Nat]
    BY <1>10 DEF bl_rx_sm_disconnect_ind, IInv, TypeOK, StaOK, Vif
  <2> QED
    BY <1>10, <2>1, <2>2 DEF bl_rx_sm_disconnect_ind, IInv, TypeOK, StaOK
<1>11. ASSUME NEW i \in Sta, NEW m \in Mac, bl_rx_apm_sta_add_ind(i, m) PROVE StaOK'
  <2>1. is_used' \in [Sta -> BOOLEAN] /\ fc_ps' \in [Sta -> BOOLEAN]
    BY <1>11 DEF bl_rx_apm_sta_add_ind, IInv, TypeOK, StaOK
  <2>2. fc_chan' \in [Vif -> BOOLEAN]
    BY <1>11 DEF bl_rx_apm_sta_add_ind, IInv, TypeOK, StaOK
  <2>3. /\ vif_idx' \in [Sta -> Vif] /\ links_num' \in [Vif -> Nat]
        /\ sta_addr' \in [Sta -> Mac \cup {NoMac}]
    BY <1>11 DEF bl_rx_apm_sta_add_ind, IInv, TypeOK, StaOK, Vif
  <2> QED
    BY <1>11, <2>1, <2>2, <2>3 DEF bl_rx_apm_sta_add_ind, IInv, TypeOK, StaOK
<1>12. ASSUME NEW i \in Sta, bl_rx_apm_sta_del_ind(i) PROVE StaOK'
  BY <1>12 DEF bl_rx_apm_sta_del_ind, IInv, TypeOK, StaOK
<1>13. CASE UNCHANGED vars
  BY <1>13 DEF vars, IInv, TypeOK, StaOK
<1> QED
  BY <1>1, <1>2, <1>3, <1>4, <1>5, <1>6, <1>7, <1>8, <1>9, <1>10, <1>11, <1>12, <1>13
  DEF Next, WifiTask, Complete, Release, Link

(* The packet lists and the count of free descriptors keep their types:    *)
(* neither bl_tx_cfm nor the flush leaves 0 .. NX_TXDESC_CNT0.             *)
LEMMA ListTypes == IInv /\ [Next]_vars => ListOK'
<1> SUFFICES ASSUME IInv, [Next]_vars PROVE ListOK'
  OBVIOUS
<1>1. ASSUME NEW p \in Pkt, NEW d \in Dest, bl_output(p, d) PROVE ListOK'
  BY <1>1 DEF bl_output, descVars, IInv, TypeOK, ListOK
<1>2. ASSUME NEW p \in Pkt, bl_output_queue(p) PROVE ListOK'
  BY <1>2, QueueEffect DEF bl_output_queue, descVars, IInv, TypeOK, ListOK
<1>3. CASE bl_main_event_handle
  BY <1>3 DEF bl_main_event_handle, descVars, IInv, TypeOK, ListOK
<1>4. CASE bl_tx_cfm
  <2>1. /\ list_cfm' \in Seq([pkt : Pkt, status : TxStatus])
        /\ pending_list' \in [Sta -> Seq(Pkt)]
    BY <1>4, CfmEffect DEF Completion, IInv, TypeOK, ListOK
  <2>2. list_free' \in 0 .. TxDescCnt
    BY <1>4, Counts DEF bl_tx_cfm, desc_to_free, IInv, DescAccounted
  <2> QED
    BY <1>4, <2>1, <2>2 DEF bl_tx_cfm, IInv, TypeOK, ListOK
<1>5. CASE sample_trigger
  BY <1>5 DEF sample_trigger, descVars, IInv, TypeOK, ListOK
<1>6. CASE flush_sta
  <2>1. CASE walk \in trig /\ bl_tx_cntrl_check_fc(walk)
    <3>1. /\ pending_list' \in [Sta -> Seq(Pkt)] /\ waiting_list' \in [Sta -> Seq(Pkt)]
          /\ list_ongoing' \in Seq(Pkt) /\ list_free' \in 0 .. list_free
      BY <1>6, <2>1, FlushEffect
    <3>2. list_free' \in 0 .. TxDescCnt
      BY <3>1, Counts DEF IInv, TypeOK, ListOK
    <3> QED
      BY <1>6, <3>1, <3>2 DEF flush_sta, IInv, TypeOK, ListOK
  <2>2. CASE ~(walk \in trig /\ bl_tx_cntrl_check_fc(walk))
    BY <1>6, <2>2 DEF flush_sta, IInv, TypeOK, ListOK
  <2> QED
    BY <2>1, <2>2
<1>7. ASSUME NEW k \in 1 .. Len(list_ongoing), NEW value \in TxStatus,
             fw_complete(k, value)
      PROVE  ListOK'
  <2>1. list_ongoing' \in Seq(Pkt) /\ list_cfm' \in Seq([pkt : Pkt, status : TxStatus])
    BY <1>7, CompleteEffect DEF Completion
  <2> QED
    BY <1>7, <2>1 DEF fw_complete, IInv, TypeOK, ListOK
<1>8. ASSUME NEW v \in Vif, NEW chan \in BOOLEAN, NEW ps \in SUBSET fw_ps,
             fw_release(v, chan, ps)
      PROVE  ListOK'
  BY <1>8 DEF fw_release, bl_tx_cntrl_update_fc, descVars, IInv, TypeOK, ListOK
<1>9. ASSUME NEW i \in Sta, bl_rx_sm_sta_add_ind(i) PROVE ListOK'
  BY <1>9 DEF bl_rx_sm_sta_add_ind, descVars, IInv, TypeOK, ListOK
<1>10. CASE bl_rx_sm_disconnect_ind
  BY <1>10 DEF bl_rx_sm_disconnect_ind, descVars, IInv, TypeOK, ListOK
<1>11. ASSUME NEW i \in Sta, NEW m \in Mac, bl_rx_apm_sta_add_ind(i, m) PROVE ListOK'
  BY <1>11 DEF bl_rx_apm_sta_add_ind, descVars, IInv, TypeOK, ListOK
<1>12. ASSUME NEW i \in Sta, bl_rx_apm_sta_del_ind(i) PROVE ListOK'
  BY <1>12 DEF bl_rx_apm_sta_del_ind, descVars, IInv, TypeOK, ListOK
<1>13. CASE UNCHANGED vars
  BY <1>13 DEF vars, IInv, TypeOK, ListOK
<1> QED
  BY <1>1, <1>2, <1>3, <1>4, <1>5, <1>6, <1>7, <1>8, <1>9, <1>10, <1>11, <1>12, <1>13
  DEF Next, WifiTask, Complete, Release, Link

(* The headers and references of packets keep their types: bl_output takes *)
(* a reference only on a packet it does not hold, bl_tx_cfm releases only  *)
(* one it holds.                                                           *)
LEMMA PktTypes == IInv /\ [Next]_vars => PktOK'
<1> SUFFICES ASSUME IInv, [Next]_vars PROVE PktOK'
  OBVIOUS
<1>1. ASSUME NEW p \in Pkt, NEW d \in Dest, bl_output(p, d) PROVE PktOK'
  <2>1. /\ ref' = [ref EXCEPT ![p] = 1] /\ out' = {p}
        /\ \E i \in Sta : sta_id' = [sta_id EXCEPT ![p] = i]
    BY <1>1, OutputEffect
  <2>2. sta_id' \in [Pkt -> 0 .. NSta]
    BY <2>1, ConstantsAssumption DEF IInv, TypeOK, PktOK, Sta
  <2> QED
    BY <1>1, <2>1, <2>2 DEF bl_output, fwVars, IInv, TypeOK, PktOK
<1>2. ASSUME NEW p \in Pkt, bl_output_queue(p) PROVE PktOK'
  BY <1>2 DEF bl_output_queue, hdrVars, fwVars, IInv, TypeOK, PktOK
<1>3. CASE bl_main_event_handle
  BY <1>3 DEF bl_main_event_handle, hdrVars, fwVars, IInv, TypeOK, PktOK
<1>4. CASE bl_tx_cfm
  <2>1. PICK p \in Pkt, value \in TxStatus :
          /\ Head(list_cfm) = [pkt |-> p, status |-> value]
          /\ ref' = ref \/ ref' = [ref EXCEPT ![p] = 0]
    BY <1>4, CfmEffect
  <2>2. \/ repush' = repush
        \/ repush[p] < MaxRepush /\ repush' = [repush EXCEPT ![p] = repush[p] + 1]
    BY <1>4, <2>1 DEF bl_tx_cfm, Repushed
  <2>3. repush' \in [Pkt -> 0 .. MaxRepush]
    BY <2>2, ConstantsAssumption DEF IInv, TypeOK, PktOK
  <2>4. ref' \in [Pkt -> {0, 1}]
    BY <2>1 DEF IInv, TypeOK, PktOK
  <2> QED
    BY <1>4, <2>3, <2>4 DEF bl_tx_cfm, fwVars, IInv, TypeOK, PktOK
<1>5. CASE sample_trigger
  BY <1>5 DEF sample_trigger, hdrVars, fwVars, IInv, TypeOK, PktOK
<1>6. CASE flush_sta
  BY <1>6 DEF flush_sta, hdrVars, fwVars, IInv, TypeOK, PktOK
<1>7. ASSUME NEW k \in 1 .. Len(list_ongoing), NEW value \in TxStatus,
             fw_complete(k, value)
      PROVE  PktOK'
  BY <1>7 DEF fw_complete, hdrVars, IInv, TypeOK, PktOK
<1>8. ASSUME NEW v \in Vif, NEW chan \in BOOLEAN, NEW ps \in SUBSET fw_ps,
             fw_release(v, chan, ps)
      PROVE  PktOK'
  BY <1>8 DEF fw_release, bl_tx_cntrl_update_fc, hdrVars, IInv, TypeOK, PktOK
<1>9. ASSUME NEW i \in Sta, bl_rx_sm_sta_add_ind(i) PROVE PktOK'
  BY <1>9 DEF bl_rx_sm_sta_add_ind, hdrVars, fwVars, IInv, TypeOK, PktOK
<1>10. CASE bl_rx_sm_disconnect_ind
  <2>1. stale' \subseteq Pkt
    BY <1>10 DEF bl_rx_sm_disconnect_ind, Held, IInv, TypeOK, PktOK
  <2> QED
    BY <1>10, <2>1 DEF bl_rx_sm_disconnect_ind, hdrVars, IInv, TypeOK, PktOK
<1>11. ASSUME NEW i \in Sta, NEW m \in Mac, bl_rx_apm_sta_add_ind(i, m) PROVE PktOK'
  BY <1>11 DEF bl_rx_apm_sta_add_ind, hdrVars, fwVars, IInv, TypeOK, PktOK
<1>12. ASSUME NEW i \in Sta, bl_rx_apm_sta_del_ind(i) PROVE PktOK'
  <2>1. stale' \subseteq Pkt
    BY <1>12 DEF bl_rx_apm_sta_del_ind, Held, IInv, TypeOK, PktOK
  <2> QED
    BY <1>12, <2>1 DEF bl_rx_apm_sta_del_ind, hdrVars, IInv, TypeOK, PktOK
<1>13. CASE UNCHANGED vars
  BY <1>13 DEF vars, IInv, TypeOK, PktOK
<1> QED
  BY <1>1, <1>2, <1>3, <1>4, <1>5, <1>6, <1>7, <1>8, <1>9, <1>10, <1>11, <1>12, <1>13
  DEF Next, WifiTask, Complete, Release, Link

(* The trigger bits, the place of the Wi-Fi task and the firmware's debts  *)
(* keep their types.                                                       *)
LEMMA TaskTypes == IInv /\ [Next]_vars => TaskOK'
<1> SUFFICES ASSUME IInv, [Next]_vars PROVE TaskOK'
  OBVIOUS
<1>1. ASSUME NEW p \in Pkt, NEW d \in Dest, bl_output(p, d) PROVE TaskOK'
  BY <1>1 DEF bl_output, trigVars, taskVars, fwVars, IInv, TypeOK, TaskOK
<1>2. ASSUME NEW p \in Pkt, bl_output_queue(p) PROVE TaskOK'
  <2>0. PICK i \in Sta : i = sta_id[p]
    BY <1>2, QueueEffect
  <2>1. sta_trigger' \subseteq Sta
    BY <1>2, <2>0 DEF bl_output_queue, IInv, TypeOK, TaskOK
  <2>2. irq' \in BOOLEAN
    BY <1>2 DEF bl_output_queue
  <2> QED
    BY <1>2, <2>1, <2>2 DEF bl_output_queue, taskVars, fwVars, IInv, TypeOK, TaskOK
<1>3. CASE bl_main_event_handle
  BY <1>3 DEF bl_main_event_handle, fwVars, IInv, TypeOK, TaskOK
<1>4. CASE bl_tx_cfm
  <2>0. PICK i \in Sta : i = sta_id[Head(list_cfm).pkt]
    BY <1>4, CfmEffect
  <2>1. trigger_pending' \subseteq Sta
    BY <1>4, <2>0 DEF bl_tx_cfm, IInv, TypeOK, TaskOK
  <2> QED
    BY <1>4, <2>1 DEF bl_tx_cfm, taskVars, fwVars, IInv, TypeOK, TaskOK
<1>5. CASE sample_trigger
  <2>1. 0 \in Sta
    BY ConstantsAssumption DEF Sta
  <2> QED
    BY <1>5, <2>1 DEF sample_trigger, fwVars, IInv, TypeOK, TaskOK
<1>6. CASE flush_sta
  <2>1. trigger_pending' \subseteq Sta
    BY <1>6 DEF flush_sta, Deferred, IInv, TypeOK, TaskOK
  <2>2. walk' \in Sta
    BY <1>6, ConstantsAssumption DEF flush_sta, Sta, IInv, TypeOK, TaskOK
  <2>3. trig' \subseteq Sta /\ pc' \in {"fw", "walk"}
    BY <1>6 DEF flush_sta, IInv, TypeOK, TaskOK
  <2> QED
    BY <1>6, <2>1, <2>2, <2>3 DEF flush_sta, fwVars, IInv, TypeOK, TaskOK
<1>7. ASSUME NEW k \in 1 .. Len(list_ongoing), NEW value \in TxStatus,
             fw_complete(k, value)
      PROVE  TaskOK'
  <2>1. PICK p \in Pkt : p = list_ongoing[k] /\ p \in Ongoing
    BY <1>7, CompleteEffect
  <2>2. sta_id[p] \in Sta /\ vif_idx[sta_id[p]] \in Vif
    BY <2>1 DEF IInv, Referenced, TypeOK, StaOK
  <2>3. fw_ps' \subseteq Sta /\ fw_chan' \subseteq Vif
    BY <1>7, <2>1, <2>2 DEF fw_complete, IInv, TypeOK, TaskOK
  <2> QED
    BY <1>7, <2>3 DEF fw_complete, taskVars, IInv, TypeOK, TaskOK
<1>8. ASSUME NEW v \in Vif, NEW chan \in BOOLEAN, NEW ps \in SUBSET fw_ps,
             fw_release(v, chan, ps)
      PROVE  TaskOK'
  <2>1. trig' \subseteq Sta /\ pc' = "flush"
    <3>1. fixed_sta_idx[v] \in Sta /\ ps \subseteq Sta
      BY DEF IInv, TypeOK, StaOK, TaskOK
    <3> QED
      BY <1>8, <3>1 DEF fw_release, bl_tx_cntrl_update_fc
  <2>2. fw_ps' \subseteq Sta /\ fw_chan' \subseteq Vif
    BY <1>8 DEF fw_release, IInv, TypeOK, TaskOK
  <2> QED
    BY <1>8, <2>1, <2>2
    DEF fw_release, bl_tx_cntrl_update_fc, trigVars, IInv, TypeOK, TaskOK
<1>9. ASSUME NEW i \in Sta, bl_rx_sm_sta_add_ind(i) PROVE TaskOK'
  BY <1>9 DEF bl_rx_sm_sta_add_ind, trigVars, taskVars, fwVars, IInv, TypeOK, TaskOK
<1>10. CASE bl_rx_sm_disconnect_ind
  <2>1. {fixed_sta_idx["STA"]} \subseteq Sta
    BY DEF Vif, IInv, TypeOK, StaOK
  <2>2. sta_trigger' \subseteq Sta /\ irq' \in BOOLEAN /\ fw_ps' \subseteq Sta
    BY <1>10, <2>1
    DEF bl_rx_sm_disconnect_ind, bl_tx_cntrl_link_down, Purged, IInv, TypeOK, TaskOK
  <2> QED
    BY <1>10, <2>2
    DEF bl_rx_sm_disconnect_ind, bl_tx_cntrl_link_down, taskVars, IInv, TypeOK, TaskOK
<1>11. ASSUME NEW i \in Sta, NEW m \in Mac, bl_rx_apm_sta_add_ind(i, m) PROVE TaskOK'
  BY <1>11 DEF bl_rx_apm_sta_add_ind, trigVars, taskVars, fwVars, IInv, TypeOK, TaskOK
<1>12. ASSUME NEW i \in Sta, bl_rx_apm_sta_del_ind(i) PROVE TaskOK'
  <2>1. GoesDown(i) \subseteq Sta
    BY DEF GoesDown, Vif, IInv, TypeOK, StaOK
  <2>2. sta_trigger' \subseteq Sta /\ irq' \in BOOLEAN /\ fw_ps' \subseteq Sta
    BY <1>12, <2>1
    DEF bl_rx_apm_sta_del_ind, bl_tx_cntrl_link_down, Purged, IInv, TypeOK, TaskOK
  <2> QED
    BY <1>12, <2>2
    DEF bl_rx_apm_sta_del_ind, bl_tx_cntrl_link_down, taskVars, IInv, TypeOK, TaskOK
<1>13. CASE UNCHANGED vars
  BY <1>13 DEF vars, IInv, TypeOK, TaskOK
<1> QED
  BY <1>1, <1>2, <1>3, <1>4, <1>5, <1>6, <1>7, <1>8, <1>9, <1>10, <1>11, <1>12, <1>13
  DEF Next, WifiTask, Complete, Release, Link

(* Descriptors are moved between the three lists, never lost or doubled. *)
LEMMA DescStep == IInv /\ [Next]_vars => DescAccounted'
<1> SUFFICES ASSUME IInv, [Next]_vars PROVE DescAccounted'
  OBVIOUS
<1>1. ASSUME NEW p \in Pkt, NEW d \in Dest, bl_output(p, d) PROVE DescAccounted'
  BY <1>1 DEF bl_output, descVars, IInv, DescAccounted
<1>2. ASSUME NEW p \in Pkt, bl_output_queue(p) PROVE DescAccounted'
  BY <1>2 DEF bl_output_queue, descVars, IInv, DescAccounted
<1>3. CASE bl_main_event_handle
  BY <1>3 DEF bl_main_event_handle, descVars, IInv, DescAccounted
<1>4. CASE bl_tx_cfm
  <2>1. Len(list_cfm') = Len(list_cfm) - 1
    BY <1>4, CfmEffect
  <2> QED
    BY <1>4, <2>1, Counts DEF bl_tx_cfm, desc_to_free, IInv, DescAccounted
<1>5. CASE sample_trigger
  BY <1>5 DEF sample_trigger, descVars, IInv, DescAccounted
<1>6. CASE flush_sta
  <2>1. CASE walk \in trig /\ bl_tx_cntrl_check_fc(walk)
    <3>1. /\ list_free' \in 0 .. list_free
          /\ Len(list_ongoing') = Len(list_ongoing) + (list_free - list_free')
      BY <1>6, <2>1, FlushEffect
    <3>2. list_cfm' = list_cfm
      BY <1>6 DEF flush_sta
    <3> QED
      BY <3>1, <3>2, Counts DEF IInv, DescAccounted
  <2>2. CASE ~(walk \in trig /\ bl_tx_cntrl_check_fc(walk))
    BY <1>6, <2>2 DEF flush_sta, IInv, DescAccounted
  <2> QED
    BY <2>1, <2>2
<1>7. ASSUME NEW k \in 1 .. Len(list_ongoing), NEW value \in TxStatus,
             fw_complete(k, value)
      PROVE  DescAccounted'
  <2>1. Len(list_ongoing') = Len(list_ongoing) - 1 /\ Len(list_cfm') = Len(list_cfm) + 1
    BY <1>7, CompleteEffect
  <2> QED
    BY <1>7, <2>1, Counts DEF fw_complete, IInv, DescAccounted
<1>8. ASSUME NEW v \in Vif, NEW chan \in BOOLEAN, NEW ps \in SUBSET fw_ps,
             fw_release(v, chan, ps)
      PROVE  DescAccounted'
  BY <1>8 DEF fw_release, bl_tx_cntrl_update_fc, descVars, IInv, DescAccounted
<1>9. ASSUME NEW i \in Sta, bl_rx_sm_sta_add_ind(i) PROVE DescAccounted'
  BY <1>9 DEF bl_rx_sm_sta_add_ind, descVars, IInv, DescAccounted
<1>10. CASE bl_rx_sm_disconnect_ind
  BY <1>10 DEF bl_rx_sm_disconnect_ind, descVars, IInv, DescAccounted
<1>11. ASSUME NEW i \in Sta, NEW m \in Mac, bl_rx_apm_sta_add_ind(i, m)
       PROVE  DescAccounted'
  BY <1>11 DEF bl_rx_apm_sta_add_ind, descVars, IInv, DescAccounted
<1>12. ASSUME NEW i \in Sta, bl_rx_apm_sta_del_ind(i) PROVE DescAccounted'
  BY <1>12 DEF bl_rx_apm_sta_del_ind, descVars, IInv, DescAccounted
<1>13. CASE UNCHANGED vars
  BY <1>13 DEF vars, IInv, DescAccounted
<1> QED
  BY <1>1, <1>2, <1>3, <1>4, <1>5, <1>6, <1>7, <1>8, <1>9, <1>10, <1>11, <1>12, <1>13
  DEF Next, WifiTask, Complete, Release, Link

(* A step moves a packet from one list to another, and never to the lists  *)
(* of a station that is not its own.                                       *)
LEMMA ApartStep == IInv /\ [Next]_vars => Apart'
<1> SUFFICES ASSUME IInv, [Next]_vars PROVE Apart'
  OBVIOUS
<1>1. ASSUME NEW p \in Pkt, NEW d \in Dest, bl_output(p, d) PROVE Apart'
  <2>1. PICK i \in Sta : is_used[i] /\ sta_id' = [sta_id EXCEPT ![p] = i]
    BY <1>1, OutputEffect
  <2>2. ref[p] = 0 /\ out = {} /\ out' = {p}
    BY <1>1, OutputEffect
  <2>3. p \notin Ongoing \cup Cfm /\ \A j \in Sta : p \notin Queued(j)
    BY <2>2 DEF IInv, Referenced
  <2>4. /\ Ongoing' = Ongoing /\ Cfm' = Cfm /\ CfmPkts' = CfmPkts
        /\ list_ongoing' = list_ongoing
        /\ waiting_list' = waiting_list /\ pending_list' = pending_list
        /\ \A j \in Sta :
             Pend(j)' = Pend(j) /\ Wait(j)' = Wait(j) /\ Queued(j)' = Queued(j)
    BY <1>1 DEF bl_output, descVars, Pend, Wait, Ongoing, Cfm, CfmPkts, Queued
  <2>5. \A j \in Sta : \A q \in Queued(j) : q # p /\ sta_id'[q] = sta_id[q]
    BY <2>1, <2>3 DEF IInv, TypeOK, PktOK
  <2> QED
    BY <2>2, <2>3, <2>4, <2>5 DEF IInv, Apart
<1>2. ASSUME NEW p \in Pkt, bl_output_queue(p) PROVE Apart'
  <2>1. PICK i \in Sta :
          /\ i = sta_id[p] /\ p \in out /\ out' = out \ {p}
          /\ Distinct(waiting_list'[i]) /\ Wait(i)' = Wait(i) \cup {p}
          /\ \A j \in Sta \ {i} : waiting_list'[j] = waiting_list[j]
    BY <1>2, QueueEffect
  <2>2. /\ Ongoing' = Ongoing /\ Cfm' = Cfm /\ CfmPkts' = CfmPkts
        /\ list_ongoing' = list_ongoing
        /\ pending_list' = pending_list /\ sta_id' = sta_id
        /\ \A j \in Sta : Pend(j)' = Pend(j)
    BY <1>2 DEF bl_output_queue, descVars, hdrVars, Pend, Ongoing, Cfm, CfmPkts
  <2>3. \A j \in Sta \ {i} : Wait(j)' = Wait(j)
    BY <2>1 DEF Wait
  <2>4. \A j \in Sta :
          Queued(j) = Pend(j) \cup Wait(j) /\ Queued(j)' = Pend(j)' \cup Wait(j)'
    BY DEF Queued, Pend, Wait
  <2>5. p \notin Ongoing \cup Cfm /\ \A j \in Sta : p \notin Queued(j)
    BY <2>1 DEF IInv, Apart
  <2>6. \A j \in Sta : Distinct(waiting_list'[j]) /\ Pend(j)' \cap Wait(j)' = {}
    BY <2>1, <2>2, <2>3, <2>4, <2>5 DEF IInv, Apart
  <2>7. \A j \in Sta : Queued(j)' \cap (out' \cup Ongoing' \cup Cfm') = {}
    BY <2>1, <2>2, <2>3, <2>4, <2>5 DEF IInv, Apart
  <2>8. \A j \in Sta : \A q \in Queued(j)' : sta_id'[q] = j
    BY <2>1, <2>2, <2>3, <2>4 DEF IInv, Apart
  <2> QED
    BY <2>1, <2>2, <2>6, <2>7, <2>8 DEF IInv, Apart
<1>3. CASE bl_main_event_handle
  BY <1>3
  DEF bl_main_event_handle, hdrVars, descVars, IInv, Apart, Pend, Wait, Ongoing, Cfm,
      CfmPkts, Queued
<1>4. CASE bl_tx_cfm
  <2>1. PICK p \in Pkt, i \in Sta :
          /\ i = sta_id[p] /\ p \in Cfm
          /\ Cfm' \cup {p} = Cfm /\ p \notin Cfm' /\ Distinct(CfmPkts')
          /\ \/ /\ Distinct(pending_list'[i]) /\ Pend(i)' = Pend(i) \cup {p}
                /\ \A j \in Sta \ {i} : pending_list'[j] = pending_list[j]
             \/ pending_list' = pending_list
    BY <1>4, CfmEffect
  <2>2. /\ list_ongoing' = list_ongoing /\ Ongoing' = Ongoing /\ out' = out
        /\ waiting_list' = waiting_list /\ sta_id' = sta_id
        /\ \A j \in Sta : Wait(j)' = Wait(j)
    BY <1>4 DEF bl_tx_cfm, Wait, Ongoing
  <2>3. \A j \in Sta :
          Queued(j) = Pend(j) \cup Wait(j) /\ Queued(j)' = Pend(j)' \cup Wait(j)'
    BY DEF Queued, Pend, Wait
  <2>4. p \notin Ongoing \cup out /\ \A j \in Sta : p \notin Queued(j)
    BY <2>1 DEF IInv, Apart
  <2>5. CASE pending_list' = pending_list
    <3>1. \A j \in Sta : Pend(j)' = Pend(j) /\ Queued(j)' = Queued(j)
      BY <2>2, <2>3, <2>5 DEF Pend
    <3> QED
      BY <2>1, <2>2, <2>5, <3>1 DEF IInv, Apart
  <2>6. CASE pending_list' # pending_list
    <3>1. \A j \in Sta \ {i} : pending_list'[j] = pending_list[j] /\ Pend(j)' = Pend(j)
      BY <2>1, <2>6 DEF Pend
    <3>2. \A j \in Sta : Distinct(pending_list'[j]) /\ Pend(j)' \cap Wait(j)' = {}
      BY <2>1, <2>2, <2>3, <2>4, <2>6, <3>1 DEF IInv, Apart
    <3>3. \A j \in Sta : Queued(j)' \cap (out' \cup Ongoing' \cup Cfm') = {}
      BY <2>1, <2>2, <2>3, <2>4, <2>6, <3>1 DEF IInv, Apart
    <3>4. \A j \in Sta : \A q \in Queued(j)' : sta_id'[q] = j
      BY <2>1, <2>2, <2>3, <2>6, <3>1 DEF IInv, Apart
    <3> QED
      BY <2>1, <2>2, <3>2, <3>3, <3>4 DEF IInv, Apart
  <2> QED
    BY <2>5, <2>6
<1>5. CASE sample_trigger
  BY <1>5
  DEF sample_trigger, hdrVars, descVars, IInv, Apart, Pend, Wait, Ongoing, Cfm,
      CfmPkts, Queued
<1>6. CASE flush_sta
  <2>1. CASE walk \in trig /\ bl_tx_cntrl_check_fc(walk)
    <3>1. PICK i \in Sta :
            /\ \A j \in Sta \ {i} :
                 /\ pending_list'[j] = pending_list[j]
                 /\ waiting_list'[j] = waiting_list[j]
            /\ Pend(i)' \subseteq Pend(i) /\ Distinct(pending_list'[i])
            /\ Wait(i)' \subseteq Wait(i) /\ Distinct(waiting_list'[i])
            /\ Distinct(list_ongoing')
            /\ Ongoing' = Ongoing \cup (Pend(i) \ Pend(i)') \cup (Wait(i) \ Wait(i)')
      BY <1>6, <2>1, FlushEffect
    <3>2. CfmPkts' = CfmPkts /\ Cfm' = Cfm /\ out' = out /\ sta_id' = sta_id
      BY <1>6 DEF flush_sta, hdrVars, Cfm, CfmPkts
    <3>3. \A j \in Sta :
            Queued(j) = Pend(j) \cup Wait(j) /\ Queued(j)' = Pend(j)' \cup Wait(j)'
      BY DEF Queued, Pend, Wait
    <3>4. \A j \in Sta \ {i} :
            Pend(j)' = Pend(j) /\ Wait(j)' = Wait(j) /\ Queued(j)' = Queued(j)
      BY <3>1, <3>3 DEF Pend, Wait
    <3>5. \A j \in Sta :
            /\ Distinct(pending_list'[j]) /\ Distinct(waiting_list'[j])
            /\ Pend(j)' \cap Wait(j)' = {}
      BY <3>1, <3>4 DEF IInv, Apart
    <3>6. \A j \in Sta \ {i} : Queued(j) \cap Queued(i) = {}
      BY DEF IInv, Apart
    <3>7. \A j \in Sta : Queued(j)' \cap (out' \cup Ongoing' \cup Cfm') = {}
      <4>1. Queued(i) \cap (out \cup Ongoing \cup Cfm) = {} /\ Pend(i) \cap Wait(i) = {}
        BY DEF IInv, Apart
      <4>2. Queued(i)' \cap (out' \cup Ongoing' \cup Cfm') = {}
        BY <3>1, <3>2, <3>3, <4>1
      <4>3. ASSUME NEW j \in Sta \ {i}
            PROVE  Queued(j)' \cap (out' \cup Ongoing' \cup Cfm') = {}
        <5>1. Queued(j) \cap (out \cup Ongoing \cup Cfm) = {}
          BY DEF IInv, Apart
        <5> QED
          BY <3>1, <3>2, <3>3, <3>4, <3>6, <5>1
      <4> QED
        BY <4>2, <4>3
    <3>8. \A j \in Sta : \A q \in Queued(j)' : sta_id'[q] = j
      BY <3>1, <3>2, <3>3, <3>4 DEF IInv, Apart
    <3>9. Ongoing' \cap Cfm' = {} /\ out' \cap (Ongoing' \cup Cfm') = {}
      <4>1. /\ Ongoing \cap Cfm = {} /\ out \cap (Ongoing \cup Cfm) = {}
            /\ Queued(i) \cap (out \cup Ongoing \cup Cfm) = {}
        BY DEF IInv, Apart
      <4> QED
        BY <3>1, <3>2, <3>3, <4>1
    <3> QED
      BY <3>1, <3>2, <3>5, <3>7, <3>8, <3>9 DEF IInv, Apart
  <2>2. CASE ~(walk \in trig /\ bl_tx_cntrl_check_fc(walk))
    BY <1>6, <2>2
    DEF flush_sta, hdrVars, IInv, Apart, Pend, Wait, Ongoing, Cfm, CfmPkts, Queued
  <2> QED
    BY <2>1, <2>2
<1>7. ASSUME NEW k \in 1 .. Len(list_ongoing), NEW value \in TxStatus,
             fw_complete(k, value)
      PROVE  Apart'
  <2>1. PICK p \in Pkt :
          /\ p \in Ongoing /\ Ongoing' \cup {p} = Ongoing /\ p \notin Ongoing'
          /\ Distinct(list_ongoing')
          /\ Cfm' = Cfm \cup {p} /\ Distinct(CfmPkts')
    BY <1>7, CompleteEffect
  <2>2. /\ pending_list' = pending_list /\ waiting_list' = waiting_list
        /\ sta_id' = sta_id /\ out' = out
        /\ \A j \in Sta :
             Pend(j)' = Pend(j) /\ Wait(j)' = Wait(j) /\ Queued(j)' = Queued(j)
    BY <1>7 DEF fw_complete, hdrVars, Pend, Wait, Queued
  <2> QED
    BY <2>1, <2>2 DEF IInv, Apart
<1>8. ASSUME NEW v \in Vif, NEW chan \in BOOLEAN, NEW ps \in SUBSET fw_ps,
             fw_release(v, chan, ps)
      PROVE  Apart'
  BY <1>8
  DEF fw_release, bl_tx_cntrl_update_fc, hdrVars, descVars, IInv, Apart, Pend, Wait,
      Ongoing, Cfm, CfmPkts, Queued
<1>9. ASSUME NEW i \in Sta, bl_rx_sm_sta_add_ind(i) PROVE Apart'
  BY <1>9
  DEF bl_rx_sm_sta_add_ind, hdrVars, descVars, IInv, Apart, Pend, Wait, Ongoing, Cfm,
      CfmPkts, Queued
<1>10. CASE bl_rx_sm_disconnect_ind
  BY <1>10
  DEF bl_rx_sm_disconnect_ind, hdrVars, descVars, IInv, Apart, Pend, Wait, Ongoing,
      Cfm, CfmPkts, Queued
<1>11. ASSUME NEW i \in Sta, NEW m \in Mac, bl_rx_apm_sta_add_ind(i, m) PROVE Apart'
  BY <1>11
  DEF bl_rx_apm_sta_add_ind, hdrVars, descVars, IInv, Apart, Pend, Wait, Ongoing, Cfm,
      CfmPkts, Queued
<1>12. ASSUME NEW i \in Sta, bl_rx_apm_sta_del_ind(i) PROVE Apart'
  BY <1>12
  DEF bl_rx_apm_sta_del_ind, hdrVars, descVars, IInv, Apart, Pend, Wait, Ongoing, Cfm,
      CfmPkts, Queued
<1>13. CASE UNCHANGED vars
  BY <1>13 DEF vars, IInv, Apart, Pend, Wait, Ongoing, Cfm, CfmPkts, Queued
<1> QED
  BY <1>1, <1>2, <1>3, <1>4, <1>5, <1>6, <1>7, <1>8, <1>9, <1>10, <1>11, <1>12, <1>13
  DEF Next, WifiTask, Complete, Release, Link

(* The driver keeps its reference on what it moves and drops it with the   *)
(* packet.                                                                 *)
LEMMA ReferencedStep == IInv /\ [Next]_vars => Referenced'
<1> SUFFICES ASSUME IInv, [Next]_vars PROVE Referenced'
  OBVIOUS
<1>1. ASSUME NEW p \in Pkt, NEW d \in Dest, bl_output(p, d) PROVE Referenced'
  <2>1. PICK i \in Sta : is_used[i] /\ sta_id' = [sta_id EXCEPT ![p] = i]
    BY <1>1, OutputEffect
  <2>2. ref' = [ref EXCEPT ![p] = 1] /\ out = {} /\ out' = {p}
    BY <1>1, OutputEffect
  <2>3. /\ Ongoing' = Ongoing /\ Cfm' = Cfm /\ \A j \in Sta : Queued(j)' = Queued(j)
    BY <1>1 DEF bl_output, descVars, Ongoing, Cfm, CfmPkts, Queued
  <2> QED
    BY <2>1, <2>2, <2>3 DEF IInv, Referenced, TypeOK, PktOK
<1>2. ASSUME NEW p \in Pkt, bl_output_queue(p) PROVE Referenced'
  <2>1. PICK i \in Sta :
          /\ i = sta_id[p] /\ p \in out /\ out' = out \ {p}
          /\ Wait(i)' = Wait(i) \cup {p}
          /\ \A j \in Sta \ {i} : waiting_list'[j] = waiting_list[j]
    BY <1>2, QueueEffect
  <2>2. /\ Ongoing' = Ongoing /\ Cfm' = Cfm /\ ref' = ref
        /\ pending_list' = pending_list /\ sta_id' = sta_id
    BY <1>2 DEF bl_output_queue, descVars, hdrVars, Ongoing, Cfm, CfmPkts
  <2>3. Queued(i)' = Queued(i) \cup {p} /\ \A j \in Sta \ {i} : Queued(j)' = Queued(j)
    BY <2>1, <2>2 DEF Wait, Queued
  <2>4. ASSUME NEW q \in Pkt
        PROVE  (\E j \in Sta : q \in Queued(j)') <=>
                 q = p \/ \E j \in Sta : q \in Queued(j)
    BY <2>3
  <2> QED
    BY <2>1, <2>2, <2>4 DEF IInv, Referenced
<1>3. CASE bl_main_event_handle
  BY <1>3
  DEF bl_main_event_handle, hdrVars, descVars, IInv, Referenced, Ongoing, Cfm,
      CfmPkts, Queued
<1>4. CASE bl_tx_cfm
  <2>1. PICK p \in Pkt, i \in Sta :
          /\ i = sta_id[p] /\ p \in Cfm /\ Cfm' \cup {p} = Cfm /\ p \notin Cfm'
          /\ \/ /\ ref' = ref /\ Pend(i)' = Pend(i) \cup {p}
                /\ \A j \in Sta \ {i} : pending_list'[j] = pending_list[j]
             \/ ref' = [ref EXCEPT ![p] = 0] /\ pending_list' = pending_list
    BY <1>4, CfmEffect
  <2>2. /\ Ongoing' = Ongoing /\ out' = out /\ waiting_list' = waiting_list
        /\ sta_id' = sta_id
    BY <1>4 DEF bl_tx_cfm, Ongoing
  <2>3. p \notin Ongoing \cup out /\ \A j \in Sta : p \notin Queued(j)
    BY <2>1 DEF IInv, Apart
  <2>4. CASE /\ ref' = ref /\ Pend(i)' = Pend(i) \cup {p}
             /\ \A j \in Sta \ {i} : pending_list'[j] = pending_list[j]
    <3>1. Queued(i)' = Queued(i) \cup {p} /\ \A j \in Sta \ {i} : Queued(j)' = Queued(j)
      BY <2>2, <2>4 DEF Pend, Queued
    <3>2. ASSUME NEW q \in Pkt
          PROVE  (\E j \in Sta : q \in Queued(j)') <=>
                   q = p \/ \E j \in Sta : q \in Queued(j)
      BY <3>1
    <3> QED
      BY <2>1, <2>2, <2>4, <3>2 DEF IInv, Referenced
  <2>5. CASE ref' = [ref EXCEPT ![p] = 0] /\ pending_list' = pending_list
    <3>1. \A j \in Sta : Queued(j)' = Queued(j)
      BY <2>2, <2>5 DEF Queued
    <3>2. \A q \in Pkt : ref'[q] = IF q = p THEN 0 ELSE ref[q]
      BY <2>5 DEF IInv, TypeOK, PktOK
    <3> QED
      BY <2>1, <2>2, <2>3, <3>1, <3>2 DEF IInv, Referenced
  <2> QED
    BY <2>1, <2>4, <2>5
<1>5. CASE sample_trigger
  BY <1>5
  DEF sample_trigger, hdrVars, descVars, IInv, Referenced, Ongoing, Cfm, CfmPkts,
      Queued
<1>6. CASE flush_sta
  <2>1. CASE walk \in trig /\ bl_tx_cntrl_check_fc(walk)
    <3>1. PICK i \in Sta :
            /\ \A j \in Sta \ {i} :
                 /\ pending_list'[j] = pending_list[j]
                 /\ waiting_list'[j] = waiting_list[j]
            /\ Pend(i)' \subseteq Pend(i) /\ Wait(i)' \subseteq Wait(i)
            /\ Ongoing' = Ongoing \cup (Pend(i) \ Pend(i)') \cup (Wait(i) \ Wait(i)')
      BY <1>6, <2>1, FlushEffect
    <3>2. Cfm' = Cfm /\ out' = out /\ sta_id' = sta_id /\ ref' = ref
      BY <1>6 DEF flush_sta, hdrVars, Cfm, CfmPkts
    <3>3. \A j \in Sta :
            Queued(j) = Pend(j) \cup Wait(j) /\ Queued(j)' = Pend(j)' \cup Wait(j)'
      BY DEF Queued, Pend, Wait
    <3>4. \A j \in Sta \ {i} : Queued(j)' = Queued(j)
      BY <3>1 DEF Queued
    <3>5. Ongoing' \cup Queued(i)' = Ongoing \cup Queued(i)
      BY <3>1, <3>3
    <3>6. ASSUME NEW q \in Pkt
          PROVE  q \in Ongoing' \/ (\E j \in Sta : q \in Queued(j)')
                   <=> q \in Ongoing \/ \E j \in Sta : q \in Queued(j)
      BY <3>4, <3>5
    <3> QED
      BY <3>2, <3>6 DEF IInv, Referenced
  <2>2. CASE ~(walk \in trig /\ bl_tx_cntrl_check_fc(walk))
    BY <1>6, <2>2
    DEF flush_sta, hdrVars, IInv, Referenced, Ongoing, Cfm, CfmPkts, Queued
  <2> QED
    BY <2>1, <2>2
<1>7. ASSUME NEW k \in 1 .. Len(list_ongoing), NEW value \in TxStatus,
             fw_complete(k, value)
      PROVE  Referenced'
  <2>1. PICK p \in Pkt : Ongoing' \cup {p} = Ongoing /\ Cfm' = Cfm \cup {p}
    BY <1>7, CompleteEffect
  <2>2. /\ sta_id' = sta_id /\ ref' = ref /\ out' = out
        /\ \A j \in Sta : Queued(j)' = Queued(j)
    BY <1>7 DEF fw_complete, hdrVars, Queued
  <2> QED
    BY <2>1, <2>2 DEF IInv, Referenced
<1>8. ASSUME NEW v \in Vif, NEW chan \in BOOLEAN, NEW ps \in SUBSET fw_ps,
             fw_release(v, chan, ps)
      PROVE  Referenced'
  BY <1>8
  DEF fw_release, bl_tx_cntrl_update_fc, hdrVars, descVars, IInv, Referenced, Ongoing,
      Cfm, CfmPkts, Queued
<1>9. ASSUME NEW i \in Sta, bl_rx_sm_sta_add_ind(i) PROVE Referenced'
  BY <1>9
  DEF bl_rx_sm_sta_add_ind, hdrVars, descVars, IInv, Referenced, Ongoing, Cfm,
      CfmPkts, Queued
<1>10. CASE bl_rx_sm_disconnect_ind
  BY <1>10
  DEF bl_rx_sm_disconnect_ind, hdrVars, descVars, IInv, Referenced, Ongoing, Cfm,
      CfmPkts, Queued
<1>11. ASSUME NEW i \in Sta, NEW m \in Mac, bl_rx_apm_sta_add_ind(i, m)
       PROVE  Referenced'
  BY <1>11
  DEF bl_rx_apm_sta_add_ind, hdrVars, descVars, IInv, Referenced, Ongoing, Cfm,
      CfmPkts, Queued
<1>12. ASSUME NEW i \in Sta, bl_rx_apm_sta_del_ind(i) PROVE Referenced'
  BY <1>12
  DEF bl_rx_apm_sta_del_ind, hdrVars, descVars, IInv, Referenced, Ongoing, Cfm,
      CfmPkts, Queued
<1>13. CASE UNCHANGED vars
  BY <1>13 DEF vars, IInv, Referenced, Ongoing, Cfm, CfmPkts, Queued
<1> QED
  BY <1>1, <1>2, <1>3, <1>4, <1>5, <1>6, <1>7, <1>8, <1>9, <1>10, <1>11, <1>12, <1>13
  DEF Next, WifiTask, Complete, Release, Link

(* No indication gives the AP another group station or the group station   *)
(* another interface.                                                      *)
LEMMA GroupStep == IInv /\ [Next]_vars => GroupFixed'
<1> SUFFICES ASSUME IInv, [Next]_vars PROVE GroupFixed'
  OBVIOUS
<1>1. ASSUME NEW p \in Pkt, NEW d \in Dest, bl_output(p, d) PROVE GroupFixed'
  BY <1>1, ConstantsAssumption
  DEF bl_output, staVars, vifVars, descVars, trigVars, taskVars, fwVars, IInv,
      GroupFixed, TypeOK, StaOK
<1>2. ASSUME NEW p \in Pkt, bl_output_queue(p) PROVE GroupFixed'
  BY <1>2, ConstantsAssumption
  DEF bl_output_queue, staVars, vifVars, hdrVars, descVars, taskVars, fwVars, IInv,
      GroupFixed, TypeOK, StaOK
<1>3. CASE bl_main_event_handle
  BY <1>3, ConstantsAssumption
  DEF bl_main_event_handle, staVars, vifVars, hdrVars, descVars, fwVars, IInv,
      GroupFixed, TypeOK, StaOK
<1>4. CASE bl_tx_cfm
  BY <1>4, ConstantsAssumption
  DEF bl_tx_cfm, desc_to_free, taskVars, fwVars, IInv, GroupFixed, TypeOK, StaOK
<1>5. CASE sample_trigger
  BY <1>5, ConstantsAssumption
  DEF sample_trigger, staVars, vifVars, hdrVars, descVars, fwVars, IInv, GroupFixed,
      TypeOK, StaOK
<1>6. CASE flush_sta
  BY <1>6, ConstantsAssumption
  DEF flush_sta, staVars, vifVars, hdrVars, fwVars, IInv, GroupFixed, TypeOK, StaOK
<1>7. ASSUME NEW k \in 1 .. Len(list_ongoing), NEW value \in TxStatus,
             fw_complete(k, value)
      PROVE  GroupFixed'
  BY <1>7, ConstantsAssumption
  DEF fw_complete, staVars, vifVars, hdrVars, taskVars, IInv, GroupFixed, TypeOK,
      StaOK
<1>8. ASSUME NEW v \in Vif, NEW chan \in BOOLEAN, NEW ps \in SUBSET fw_ps,
             fw_release(v, chan, ps)
      PROVE  GroupFixed'
  BY <1>8, ConstantsAssumption
  DEF fw_release, bl_tx_cntrl_update_fc, hdrVars, descVars, trigVars, IInv,
      GroupFixed, TypeOK, StaOK
<1>9. ASSUME NEW i \in Sta, bl_rx_sm_sta_add_ind(i) PROVE GroupFixed'
  BY <1>9, ConstantsAssumption
  DEF bl_rx_sm_sta_add_ind, hdrVars, descVars, trigVars, taskVars, fwVars, FwFree,
      Vif, IInv, GroupFixed, TypeOK, StaOK
<1>10. CASE bl_rx_sm_disconnect_ind
  BY <1>10, ConstantsAssumption
  DEF bl_rx_sm_disconnect_ind, bl_tx_cntrl_link_down, hdrVars, descVars, taskVars,
      IInv, GroupFixed, TypeOK, StaOK
<1>11. ASSUME NEW i \in Sta, NEW m \in Mac, bl_rx_apm_sta_add_ind(i, m)
       PROVE  GroupFixed'
  BY <1>11, ConstantsAssumption
  DEF bl_rx_apm_sta_add_ind, hdrVars, descVars, trigVars, taskVars, fwVars, FwFree,
      IInv, GroupFixed, TypeOK, StaOK
<1>12. ASSUME NEW i \in Sta, bl_rx_apm_sta_del_ind(i) PROVE GroupFixed'
  BY <1>12, ConstantsAssumption
  DEF bl_rx_apm_sta_del_ind, bl_tx_cntrl_link_down, hdrVars, descVars, taskVars, IInv,
      GroupFixed, TypeOK, StaOK
<1>13. CASE UNCHANGED vars
  BY <1>13 DEF vars, IInv, GroupFixed, TypeOK, StaOK
<1> QED
  BY <1>1, <1>2, <1>3, <1>4, <1>5, <1>6, <1>7, <1>8, <1>9, <1>10, <1>11, <1>12, <1>13
  DEF Next, WifiTask, Complete, Release, Link

(* A link that goes down marks what is held for it, and bl_output looks up *)
(* only entries in use.                                                    *)
LEMMA LiveStep == IInv /\ [Next]_vars => LiveOrStale'
<1> SUFFICES ASSUME IInv, [Next]_vars PROVE LiveOrStale'
  OBVIOUS
<1>1. ASSUME NEW p \in Pkt, NEW d \in Dest, bl_output(p, d) PROVE LiveOrStale'
  <2>1. PICK i \in Sta : is_used[i] /\ sta_id' = [sta_id EXCEPT ![p] = i]
    BY <1>1, OutputEffect
  <2>2. ref' = [ref EXCEPT ![p] = 1]
    BY <1>1, OutputEffect
  <2>3. is_used' = is_used /\ stale' = stale
    BY <1>1 DEF bl_output, staVars, fwVars
  <2> QED
    BY <2>1, <2>2, <2>3 DEF IInv, LiveOrStale, TypeOK, PktOK
<1>2. ASSUME NEW p \in Pkt, bl_output_queue(p) PROVE LiveOrStale'
  BY <1>2 DEF bl_output_queue, staVars, hdrVars, fwVars, IInv, LiveOrStale
<1>3. CASE bl_main_event_handle
  BY <1>3 DEF bl_main_event_handle, staVars, hdrVars, fwVars, IInv, LiveOrStale
<1>4. CASE bl_tx_cfm
  <2>1. PICK p \in Pkt : ref' = ref \/ ref' = [ref EXCEPT ![p] = 0]
    BY <1>4, CfmEffect
  <2>2. \A q \in Pkt : ref'[q] = 1 => ref[q] = 1
    BY <2>1 DEF IInv, TypeOK, PktOK
  <2> QED
    BY <1>4, <2>2 DEF bl_tx_cfm, fwVars, IInv, LiveOrStale
<1>5. CASE sample_trigger
  BY <1>5 DEF sample_trigger, staVars, hdrVars, fwVars, IInv, LiveOrStale
<1>6. CASE flush_sta
  BY <1>6 DEF flush_sta, staVars, hdrVars, fwVars, IInv, LiveOrStale
<1>7. ASSUME NEW k \in 1 .. Len(list_ongoing), NEW value \in TxStatus,
             fw_complete(k, value)
      PROVE  LiveOrStale'
  BY <1>7 DEF fw_complete, staVars, hdrVars, IInv, LiveOrStale
<1>8. ASSUME NEW v \in Vif, NEW chan \in BOOLEAN, NEW ps \in SUBSET fw_ps,
             fw_release(v, chan, ps)
      PROVE  LiveOrStale'
  BY <1>8 DEF fw_release, bl_tx_cntrl_update_fc, hdrVars, IInv, LiveOrStale
<1>9. ASSUME NEW i \in Sta, bl_rx_sm_sta_add_ind(i) PROVE LiveOrStale'
  <2>1. \A j \in Sta : is_used[j] => is_used'[j]
    BY <1>9 DEF bl_rx_sm_sta_add_ind, IInv, TypeOK, StaOK
  <2>2. sta_id' = sta_id /\ ref' = ref /\ stale' = stale
    BY <1>9 DEF bl_rx_sm_sta_add_ind, hdrVars, fwVars
  <2> QED
    BY <2>1, <2>2 DEF IInv, LiveOrStale, Referenced
<1>10. CASE bl_rx_sm_disconnect_ind
  <2>1. \A j \in Sta : is_used[j] => is_used'[j] \/ j \in {fixed_sta_idx["STA"]}
    BY <1>10 DEF bl_rx_sm_disconnect_ind, IInv, TypeOK, StaOK
  <2>2. /\ sta_id' = sta_id /\ ref' = ref
        /\ stale' = stale \cup Held({fixed_sta_idx["STA"]})
    BY <1>10 DEF bl_rx_sm_disconnect_ind, hdrVars
  <2>3. \A q \in Pkt : ref[q] = 1 /\ sta_id[q] \in {fixed_sta_idx["STA"]} =>
          q \in Held({fixed_sta_idx["STA"]})
    BY DEF Held
  <2> QED
    BY <2>1, <2>2, <2>3 DEF IInv, LiveOrStale, Referenced
<1>11. ASSUME NEW i \in Sta, NEW m \in Mac, bl_rx_apm_sta_add_ind(i, m)
       PROVE  LiveOrStale'
  <2>1. \A j \in Sta : is_used[j] => is_used'[j]
    BY <1>11 DEF bl_rx_apm_sta_add_ind, IInv, TypeOK, StaOK
  <2>2. sta_id' = sta_id /\ ref' = ref /\ stale' = stale
    BY <1>11 DEF bl_rx_apm_sta_add_ind, hdrVars, fwVars
  <2> QED
    BY <2>1, <2>2 DEF IInv, LiveOrStale, Referenced
<1>12. ASSUME NEW i \in Sta, bl_rx_apm_sta_del_ind(i) PROVE LiveOrStale'
  <2>1. \A j \in Sta : is_used[j] => is_used'[j] \/ j \in GoesDown(i)
    BY <1>12 DEF bl_rx_apm_sta_del_ind, IInv, TypeOK, StaOK
  <2>2. sta_id' = sta_id /\ ref' = ref /\ stale' = stale \cup Held(GoesDown(i))
    BY <1>12 DEF bl_rx_apm_sta_del_ind, hdrVars
  <2>3. \A q \in Pkt : ref[q] = 1 /\ sta_id[q] \in GoesDown(i) =>
          q \in Held(GoesDown(i))
    BY DEF Held
  <2> QED
    BY <2>1, <2>2, <2>3 DEF IInv, LiveOrStale, Referenced
<1>13. CASE UNCHANGED vars
  BY <1>13 DEF vars, IInv, LiveOrStale
<1> QED
  BY <1>1, <1>2, <1>3, <1>4, <1>5, <1>6, <1>7, <1>8, <1>9, <1>10, <1>11, <1>12, <1>13
  DEF Next, WifiTask, Complete, Release, Link

(* The linked peers of an interface are finitely many. *)
LEMMA PeersFinite ==
  ASSUME NEW v
  PROVE  IsFiniteSet(Peers(v))
<1>1. IsFiniteSet(Sta)
  BY ConstantsAssumption, FS_Interval DEF Sta
<1> QED
  BY <1>1, FS_Subset DEF Peers

(* One linked peer more, one less. *)
LEMMA PeersCount ==
  ASSUME NEW S, IsFiniteSet(S), NEW i
  PROVE  /\ Cardinality(S) \in Nat /\ (Cardinality(S) = 0 <=> S = {})
         /\ i \notin S => Cardinality(S \cup {i}) = Cardinality(S) + 1
         /\ i \in S => Cardinality(S \ {i}) = Cardinality(S) - 1
         /\ i \in S /\ Cardinality(S) = 1 => S = {i}
<1>1. Cardinality(S) \in Nat /\ (Cardinality(S) = 0 <=> S = {})
  BY FS_CardinalityType, FS_EmptySet
<1>2. i \notin S => Cardinality(S \cup {i}) = Cardinality(S) + 1
  BY FS_AddElement
<1>3. i \in S => Cardinality(S \ {i}) = Cardinality(S) - 1
  BY FS_RemoveElement
<1>4. i \in S /\ Cardinality(S) = 1 => S = {i}
  BY FS_Singleton
<1> QED
  BY <1>1, <1>2, <1>3, <1>4

(* Each link indication changes links_num by the peer it adds or removes. *)
LEMMA LinksStep == IInv /\ [Next]_vars => LinksMatch'
<1> SUFFICES ASSUME IInv, [Next]_vars PROVE LinksMatch'
  OBVIOUS
<1>1. ASSUME NEW p \in Pkt, NEW d \in Dest, bl_output(p, d) PROVE LinksMatch'
  BY <1>1 DEF bl_output, staVars, vifVars, IInv, LinksMatch, Peers
<1>2. ASSUME NEW p \in Pkt, bl_output_queue(p) PROVE LinksMatch'
  BY <1>2 DEF bl_output_queue, staVars, vifVars, IInv, LinksMatch, Peers
<1>3. CASE bl_main_event_handle
  BY <1>3 DEF bl_main_event_handle, staVars, vifVars, IInv, LinksMatch, Peers
<1>4. CASE bl_tx_cfm
  <2>1. /\ is_used' = is_used /\ vif_idx' = vif_idx
        /\ links_num' = links_num /\ fixed_sta_idx' = fixed_sta_idx
    BY <1>4 DEF bl_tx_cfm
  <2> QED
    BY <2>1 DEF IInv, LinksMatch, Peers
<1>5. CASE sample_trigger
  BY <1>5 DEF sample_trigger, staVars, vifVars, IInv, LinksMatch, Peers
<1>6. CASE flush_sta
  BY <1>6 DEF flush_sta, staVars, vifVars, IInv, LinksMatch, Peers
<1>7. ASSUME NEW k \in 1 .. Len(list_ongoing), NEW value \in TxStatus,
             fw_complete(k, value)
      PROVE  LinksMatch'
  BY <1>7 DEF fw_complete, staVars, vifVars, IInv, LinksMatch, Peers
<1>8. ASSUME NEW v \in Vif, NEW chan \in BOOLEAN, NEW ps \in SUBSET fw_ps,
             fw_release(v, chan, ps)
      PROVE  LinksMatch'
  BY <1>8 DEF fw_release, bl_tx_cntrl_update_fc, IInv, LinksMatch, Peers
<1>9. ASSUME NEW i \in Sta, bl_rx_sm_sta_add_ind(i) PROVE LinksMatch'
  <2>1. i \in Sta \ {BcmcIdx} /\ ~is_used[i] /\ Peers("STA") = {}
    <3>1. Cardinality(Peers("STA")) = 0
      BY <1>9 DEF bl_rx_sm_sta_add_ind, IInv, LinksMatch, Vif
    <3> QED
      BY <1>9, <3>1, PeersFinite, PeersCount DEF bl_rx_sm_sta_add_ind, FwFree
  <2>2. /\ is_used' = [is_used EXCEPT ![i] = TRUE]
        /\ vif_idx' = [vif_idx EXCEPT ![i] = "STA"]
        /\ fixed_sta_idx' = [fixed_sta_idx EXCEPT !["STA"] = i]
        /\ links_num' = [links_num EXCEPT !["STA"] = 1]
    BY <1>9 DEF bl_rx_sm_sta_add_ind
  <2>3. Peers("STA")' = Peers("STA") \cup {i} /\ Peers("AP")' = Peers("AP")
    BY <2>1, <2>2 DEF Peers, IInv, TypeOK, StaOK
  <2>4. Cardinality(Peers("STA")') = 1
    BY <2>1, <2>3, FS_Singleton
  <2>5. is_used'[BcmcIdx] = is_used[BcmcIdx] /\ fixed_sta_idx'["STA"] = i
        /\ links_num'["STA"] = 1 /\ links_num'["AP"] = links_num["AP"]
    BY <2>1, <2>2, ConstantsAssumption DEF IInv, TypeOK, StaOK, Vif
  <2> QED
    BY <2>1, <2>3, <2>4, <2>5 DEF IInv, LinksMatch, Vif
<1>10. CASE bl_rx_sm_disconnect_ind
  <2>1. PICK i \in Sta : i = fixed_sta_idx["STA"]
    BY DEF IInv, TypeOK, StaOK, Vif
  <2>2. Peers("STA") = {i} /\ links_num["STA"] = 1
    <3>1. Cardinality(Peers("STA")) # 0
      BY <1>10 DEF bl_rx_sm_disconnect_ind, IInv, LinksMatch, Vif
    <3>2. Peers("STA") # {}
      BY <3>1, FS_EmptySet
    <3>3. Peers("STA") = {i}
      BY <2>1, <3>2 DEF IInv, LinksMatch
    <3>4. links_num["STA"] = Cardinality({i})
      BY <3>3 DEF IInv, LinksMatch, Vif
    <3> QED
      BY <3>3, <3>4, FS_Singleton
  <2>3. i # BcmcIdx /\ is_used[i] /\ vif_idx[i] = "STA"
    BY <2>2 DEF Peers
  <2>4. /\ is_used' = [is_used EXCEPT ![i] = FALSE] /\ vif_idx' = vif_idx
        /\ fixed_sta_idx' = fixed_sta_idx
        /\ links_num' = [links_num EXCEPT !["STA"] = links_num["STA"] - 1]
    BY <1>10, <2>1 DEF bl_rx_sm_disconnect_ind
  <2>5. Peers("STA")' = {} /\ Peers("AP")' = Peers("AP")
    BY <2>2, <2>3, <2>4 DEF Peers, IInv, TypeOK, StaOK
  <2>6. links_num'["STA"] = 0 /\ links_num'["AP"] = links_num["AP"]
    BY <2>2, <2>4 DEF IInv, TypeOK, StaOK, Vif
  <2>7. is_used'[BcmcIdx] = is_used[BcmcIdx]
    BY <2>3, <2>4, ConstantsAssumption DEF IInv, TypeOK, StaOK
  <2> QED
    BY <2>4, <2>5, <2>6, <2>7, FS_EmptySet DEF IInv, LinksMatch, Vif
<1>11. ASSUME NEW i \in Sta, NEW m \in Mac, bl_rx_apm_sta_add_ind(i, m)
       PROVE  LinksMatch'
  <2> DEFINE G == IF links_num["AP"] = 0 THEN {BcmcIdx} ELSE {}
  <2>1. i \in Sta \ {BcmcIdx} /\ ~is_used[i]
    BY <1>11 DEF bl_rx_apm_sta_add_ind, FwFree
  <2>2. /\ is_used' = [j \in Sta |-> IF j \in {i} \cup G THEN TRUE ELSE is_used[j]]
        /\ vif_idx' = [vif_idx EXCEPT ![i] = "AP"]
        /\ fixed_sta_idx' = fixed_sta_idx
        /\ links_num' = [links_num EXCEPT !["AP"] = links_num["AP"] + 1]
    BY <1>11 DEF bl_rx_apm_sta_add_ind, IInv, GroupFixed
  <2>3. /\ i \notin Peers("AP") /\ Peers("AP")' = Peers("AP") \cup {i}
        /\ Peers("STA")' = Peers("STA")
    BY <2>1, <2>2 DEF Peers, IInv, TypeOK, StaOK
  <2>4. Cardinality(Peers("AP")') = Cardinality(Peers("AP")) + 1
    BY <2>3, PeersFinite, PeersCount
  <2>5. is_used'[BcmcIdx] = TRUE
    <3>1. links_num["AP"] = 0 \/ is_used[BcmcIdx] = TRUE
      <4>1. Cardinality(Peers("AP")) = 0 \/ Peers("AP") # {}
        BY FS_EmptySet
      <4> QED
        BY <4>1 DEF IInv, LinksMatch, Vif
    <3> QED
      BY <2>2, <3>1, ConstantsAssumption
  <2>6. links_num'["STA"] = links_num["STA"] /\ links_num'["AP"] = links_num["AP"] + 1
    BY <2>2 DEF IInv, TypeOK, StaOK, Vif
  <2> HIDE DEF G
  <2> QED
    BY <2>2, <2>3, <2>4, <2>5, <2>6 DEF IInv, LinksMatch, Vif
<1>12. ASSUME NEW i \in Sta, bl_rx_apm_sta_del_ind(i) PROVE LinksMatch'
  <2> DEFINE G == IF links_num["AP"] = 1 THEN {BcmcIdx} ELSE {}
  <2>1. i \in Sta \ {BcmcIdx} /\ is_used[i] /\ vif_idx[i] = "AP" /\ i \in Peers("AP")
    BY <1>12 DEF bl_rx_apm_sta_del_ind, Peers
  <2>2. /\ is_used' = [j \in Sta |-> is_used[j] /\ j \notin {i} \cup G]
        /\ vif_idx' = vif_idx /\ fixed_sta_idx' = fixed_sta_idx
        /\ links_num' = [links_num EXCEPT !["AP"] = links_num["AP"] - 1]
    BY <1>12 DEF bl_rx_apm_sta_del_ind, GoesDown, IInv, GroupFixed
  <2>3. Peers("AP")' = Peers("AP") \ {i} /\ Peers("STA")' = Peers("STA")
    BY <2>1, <2>2 DEF Peers, IInv, TypeOK, StaOK
  <2>4. /\ Cardinality(Peers("AP")') = Cardinality(Peers("AP")) - 1
        /\ links_num["AP"] = Cardinality(Peers("AP"))
    BY <2>1, <2>3, PeersFinite, PeersCount DEF IInv, LinksMatch, Vif
  <2>5. is_used'[BcmcIdx] = (Peers("AP")' # {})
    <3>1. CASE links_num["AP"] = 1
      <4>1. IsFiniteSet(Peers("AP")) /\ Cardinality(Peers("AP")) = 1
        BY <2>4, <3>1, PeersFinite
      <4>2. Peers("AP") = {i}
        BY <2>1, <4>1, PeersCount
      <4> QED
        BY <2>2, <2>3, <3>1, <4>2, ConstantsAssumption
    <3>2. CASE links_num["AP"] # 1
      <4>1. Peers("AP") # {i}
        BY <2>4, <3>2, FS_Singleton
      <4>2. Peers("AP") # {} /\ Peers("AP")' # {}
        BY <2>1, <2>3, <4>1
      <4>3. is_used[BcmcIdx] = TRUE
        BY <4>2 DEF IInv, LinksMatch
      <4>4. is_used'[BcmcIdx] = TRUE
        BY <2>1, <2>2, <3>2, <4>3, ConstantsAssumption
      <4> QED
        BY <4>2, <4>4
    <3> QED
      BY <3>1, <3>2
  <2>6. links_num'["STA"] = links_num["STA"] /\ links_num'["AP"] = links_num["AP"] - 1
    BY <2>2 DEF IInv, TypeOK, StaOK, Vif
  <2> HIDE DEF G
  <2> QED
    BY <2>2, <2>3, <2>4, <2>5, <2>6 DEF IInv, LinksMatch, Vif
<1>13. CASE UNCHANGED vars
  BY <1>13 DEF vars, IInv, LinksMatch, Peers
<1> QED
  BY <1>1, <1>2, <1>3, <1>4, <1>5, <1>6, <1>7, <1>8, <1>9, <1>10, <1>11, <1>12, <1>13
  DEF Next, WifiTask, Complete, Release, Link

(* A completion raises the interrupt, and the bottom half leaves none      *)
(* behind.                                                                 *)
LEMMA CfmRaisedStep == IInv /\ [Next]_vars => CfmRaised'
<1> SUFFICES ASSUME IInv, [Next]_vars PROVE CfmRaised'
  OBVIOUS
<1>1. ASSUME NEW p \in Pkt, NEW d \in Dest, bl_output(p, d) PROVE CfmRaised'
  BY <1>1
  DEF bl_output, staVars, vifVars, descVars, trigVars, taskVars, fwVars, IInv,
      CfmRaised
<1>2. ASSUME NEW p \in Pkt, bl_output_queue(p) PROVE CfmRaised'
  BY <1>2
  DEF bl_output_queue, staVars, vifVars, hdrVars, descVars, taskVars, fwVars, IInv,
      CfmRaised
<1>3. CASE bl_main_event_handle
  BY <1>3
  DEF bl_main_event_handle, staVars, vifVars, hdrVars, descVars, fwVars, IInv,
      CfmRaised
<1>4. CASE bl_tx_cfm
  BY <1>4 DEF bl_tx_cfm, desc_to_free, taskVars, fwVars, IInv, CfmRaised
<1>5. CASE sample_trigger
  BY <1>5
  DEF sample_trigger, staVars, vifVars, hdrVars, descVars, fwVars, IInv, CfmRaised
<1>6. CASE flush_sta
  BY <1>6 DEF flush_sta, staVars, vifVars, hdrVars, fwVars, IInv, CfmRaised
<1>7. ASSUME NEW k \in 1 .. Len(list_ongoing), NEW value \in TxStatus,
             fw_complete(k, value)
      PROVE  CfmRaised'
  BY <1>7 DEF fw_complete, staVars, vifVars, hdrVars, taskVars, IInv, CfmRaised
<1>8. ASSUME NEW v \in Vif, NEW chan \in BOOLEAN, NEW ps \in SUBSET fw_ps,
             fw_release(v, chan, ps)
      PROVE  CfmRaised'
  BY <1>8
  DEF fw_release, bl_tx_cntrl_update_fc, hdrVars, descVars, trigVars, IInv, CfmRaised
<1>9. ASSUME NEW i \in Sta, bl_rx_sm_sta_add_ind(i) PROVE CfmRaised'
  BY <1>9
  DEF bl_rx_sm_sta_add_ind, hdrVars, descVars, trigVars, taskVars, fwVars, IInv,
      CfmRaised
<1>10. CASE bl_rx_sm_disconnect_ind
  BY <1>10
  DEF bl_rx_sm_disconnect_ind, bl_tx_cntrl_link_down, hdrVars, descVars, taskVars,
      IInv, CfmRaised
<1>11. ASSUME NEW i \in Sta, NEW m \in Mac, bl_rx_apm_sta_add_ind(i, m) PROVE CfmRaised'
  BY <1>11
  DEF bl_rx_apm_sta_add_ind, hdrVars, descVars, trigVars, taskVars, fwVars, IInv,
      CfmRaised
<1>12. ASSUME NEW i \in Sta, bl_rx_apm_sta_del_ind(i) PROVE CfmRaised'
  BY <1>12
  DEF bl_rx_apm_sta_del_ind, bl_tx_cntrl_link_down, hdrVars, descVars, taskVars, IInv,
      CfmRaised
<1>13. CASE UNCHANGED vars
  BY <1>13 DEF vars, IInv, CfmRaised
<1> QED
  BY <1>1, <1>2, <1>3, <1>4, <1>5, <1>6, <1>7, <1>8, <1>9, <1>10, <1>11, <1>12, <1>13
  DEF Next, WifiTask, Complete, Release, Link

(* A completed descriptor is of a packet the driver has, for some entry. *)
LEMMA CfmRecords ==
  ASSUME IInv
  PROVE  /\ ToSet(list_cfm) \subseteq Completion
         /\ \A c \in ToSet(list_cfm) :
              c.pkt \in Pkt /\ c.pkt \in Cfm /\ ref[c.pkt] = 1 /\ sta_id[c.pkt] \in Sta
<1>1. list_cfm \in Seq(Completion)
  BY DEF IInv, TypeOK, ListOK, Completion
<1>2. \A k \in DOMAIN list_cfm : list_cfm[k] \in Completion
  BY <1>1, LenProperties
<1>3. ToSet(list_cfm) \subseteq Completion
  BY <1>2 DEF ToSet
<1>4. \A c \in ToSet(list_cfm) : c.pkt \in Cfm
  BY DEF ToSet, Cfm, CfmPkts
<1>5. \A c \in ToSet(list_cfm) : c.pkt \in Pkt
  BY <1>3 DEF Completion
<1> QED
  BY <1>3, <1>4, <1>5 DEF IInv, Referenced

(* The firmware releases only what the host has handled, and gives an      *)
(* entry to a new link only when nothing it works on uses it.              *)
LEMMA OwedStep == IInv /\ [Next]_vars => Owed'
<1> SUFFICES ASSUME IInv, [Next]_vars PROVE Owed'
  OBVIOUS
<1>1. ASSUME NEW p \in Pkt, NEW d \in Dest, bl_output(p, d) PROVE Owed'
  <2>1. sta_id[p] = NSta /\ (\E i \in Sta : sta_id' = [sta_id EXCEPT ![p] = i])
    BY <1>1, OutputEffect DEF bl_output
  <2>2. \A c \in ToSet(list_cfm) : c.pkt # p /\ sta_id'[c.pkt] = sta_id[c.pkt]
    <3>1. \A c \in ToSet(list_cfm) : c.pkt \in Pkt /\ ref[c.pkt] = 1
      BY CfmRecords
    <3>2. ref[p] = 0
      BY <1>1, OutputEffect
    <3> QED
      BY <2>1, <3>1, <3>2 DEF IInv, TypeOK, PktOK
  <2> QED
    BY <1>1, <2>2 DEF bl_output, descVars, staVars, fwVars, IInv, Owed, OwedFor
<1>2. ASSUME NEW p \in Pkt, bl_output_queue(p) PROVE Owed'
  BY <1>2 DEF bl_output_queue, staVars, hdrVars, descVars, fwVars, IInv, Owed, OwedFor
<1>3. CASE bl_main_event_handle
  BY <1>3
  DEF bl_main_event_handle, staVars, hdrVars, descVars, fwVars, IInv, Owed, OwedFor
<1>4. CASE bl_tx_cfm
  <2>1. ToSet(list_cfm') \subseteq ToSet(list_cfm)
    <3>1. list_cfm \in Seq(Completion) /\ list_cfm # <<>> /\ list_cfm' = Tail(list_cfm)
      BY <1>4 DEF bl_tx_cfm, desc_to_free, IInv, TypeOK, ListOK, Completion
    <3> QED
      BY <3>1, TailList
  <2>2. /\ sta_id' = sta_id /\ vif_idx' = vif_idx /\ is_used' = is_used
        /\ fw_chan' = fw_chan /\ fw_ps' = fw_ps
    BY <1>4 DEF bl_tx_cfm, fwVars
  <2> QED
    BY <2>1, <2>2 DEF IInv, Owed, OwedFor
<1>5. CASE sample_trigger
  BY <1>5 DEF sample_trigger, staVars, hdrVars, descVars, fwVars, IInv, Owed, OwedFor
<1>6. CASE flush_sta
  BY <1>6 DEF flush_sta, staVars, hdrVars, fwVars, IInv, Owed, OwedFor
<1>7. ASSUME NEW k \in 1 .. Len(list_ongoing), NEW value \in TxStatus,
             fw_complete(k, value)
      PROVE  Owed'
  <2>1. PICK p \in Pkt :
            /\ p = list_ongoing[k]
            /\ list_cfm' = Append(list_cfm, [pkt |-> p, status |-> value])
    BY <1>7, CompleteEffect
  <2> DEFINE r == [pkt |-> p, status |-> value]
  <2>2. ToSet(list_cfm') = ToSet(list_cfm) \cup {r}
    <3>1. list_cfm \in Seq(Completion) /\ r \in Completion
      BY DEF IInv, TypeOK, ListOK, Completion
    <3> QED
      BY <2>1, <3>1, AppendList
  <2>3. sta_id' = sta_id /\ vif_idx' = vif_idx /\ is_used' = is_used
    BY <1>7 DEF fw_complete, staVars, hdrVars
  <2>4. fw_chan \subseteq fw_chan' /\ fw_ps \subseteq fw_ps'
    BY <1>7 DEF fw_complete
  <2>5. /\ "FRAME_REPUSHABLE_CHAN" \in value => vif_idx[sta_id[p]] \in fw_chan'
        /\ "FRAME_REPUSHABLE_PS" \in value =>
             sta_id[p] \in fw_ps' /\ sta_id[p] # BcmcIdx
    BY <1>7, <2>1 DEF fw_complete
  <2>6. OwedFor(r)'
    BY <2>3, <2>5 DEF OwedFor
  <2>7. \A c \in ToSet(list_cfm) : OwedFor(c)'
    BY <2>3, <2>4 DEF IInv, Owed, OwedFor
  <2> HIDE DEF r
  <2> QED
    BY <2>2, <2>6, <2>7 DEF Owed
<1>8. ASSUME NEW v \in Vif, NEW chan \in BOOLEAN, NEW ps \in SUBSET fw_ps,
             fw_release(v, chan, ps)
      PROVE  Owed'
  <2>1. /\ sta_id' = sta_id /\ vif_idx' = vif_idx /\ is_used' = is_used
        /\ list_cfm' = list_cfm
    BY <1>8 DEF fw_release, bl_tx_cntrl_update_fc, hdrVars, descVars
  <2> SUFFICES ASSUME NEW c \in ToSet(list_cfm) PROVE OwedFor(c)'
    BY <2>1 DEF Owed
  <2>2. OwedFor(c)
    BY DEF IInv, Owed
  <2>3. /\ "FRAME_REPUSHABLE_CHAN" \in c.status =>
             c.pkt \in HandedBack("FRAME_REPUSHABLE_CHAN")
        /\ "FRAME_REPUSHABLE_PS" \in c.status =>
             c.pkt \in HandedBack("FRAME_REPUSHABLE_PS")
    BY DEF HandedBack
  <2>4. "FRAME_REPUSHABLE_CHAN" \in c.status => vif_idx[sta_id[c.pkt]] \in fw_chan'
    BY <1>8, <2>2, <2>3 DEF fw_release, OwedFor
  <2>5. "FRAME_REPUSHABLE_PS" \in c.status =>
          sta_id[c.pkt] \in fw_ps' \/ ~is_used[sta_id[c.pkt]]
    BY <1>8, <2>2, <2>3 DEF fw_release, OwedFor
  <2> QED
    BY <2>1, <2>2, <2>4, <2>5 DEF OwedFor
<1>9. ASSUME NEW i \in Sta, bl_rx_sm_sta_add_ind(i) PROVE Owed'
  <2>1. sta_id' = sta_id /\ list_cfm' = list_cfm /\ fw_ps' = fw_ps /\ fw_chan' = fw_chan
    BY <1>9 DEF bl_rx_sm_sta_add_ind, hdrVars, descVars, fwVars
  <2>2. \A c \in ToSet(list_cfm) : sta_id[c.pkt] # i
    BY <1>9 DEF bl_rx_sm_sta_add_ind, FwFree
  <2>3. \A j \in Sta \ {i} :
          vif_idx'[j] = vif_idx[j] /\ (j # BcmcIdx => is_used'[j] = is_used[j])
    BY <1>9 DEF bl_rx_sm_sta_add_ind, IInv, GroupFixed, TypeOK, StaOK
  <2>4. \A c \in ToSet(list_cfm) : sta_id[c.pkt] \in Sta \ {i}
    BY <2>2, CfmRecords
  <2> QED
    BY <2>1, <2>3, <2>4 DEF IInv, Owed, OwedFor
<1>10. CASE bl_rx_sm_disconnect_ind
  <2>1. /\ sta_id' = sta_id /\ list_cfm' = list_cfm /\ fw_chan' = fw_chan
        /\ vif_idx' = vif_idx
    BY <1>10 DEF bl_rx_sm_disconnect_ind, hdrVars, descVars
  <2>2. \A j \in Sta : j \in fw_ps \/ ~is_used[j] => j \in fw_ps' \/ ~is_used'[j]
    BY <1>10 DEF bl_rx_sm_disconnect_ind, IInv, TypeOK, StaOK
  <2>3. \A c \in ToSet(list_cfm) : sta_id[c.pkt] \in Sta
    BY CfmRecords
  <2> QED
    BY <2>1, <2>2, <2>3 DEF IInv, Owed, OwedFor
<1>11. ASSUME NEW i \in Sta, NEW m \in Mac, bl_rx_apm_sta_add_ind(i, m) PROVE Owed'
  <2>1. sta_id' = sta_id /\ list_cfm' = list_cfm /\ fw_ps' = fw_ps /\ fw_chan' = fw_chan
    BY <1>11 DEF bl_rx_apm_sta_add_ind, hdrVars, descVars, fwVars
  <2>2. \A c \in ToSet(list_cfm) : sta_id[c.pkt] # i
    BY <1>11 DEF bl_rx_apm_sta_add_ind, FwFree
  <2>3. \A j \in Sta \ {i} :
          vif_idx'[j] = vif_idx[j] /\ (j # BcmcIdx => is_used'[j] = is_used[j])
    BY <1>11 DEF bl_rx_apm_sta_add_ind, IInv, GroupFixed, TypeOK, StaOK
  <2>4. \A c \in ToSet(list_cfm) : sta_id[c.pkt] \in Sta \ {i}
    BY <2>2, CfmRecords
  <2> QED
    BY <2>1, <2>3, <2>4 DEF IInv, Owed, OwedFor
<1>12. ASSUME NEW i \in Sta, bl_rx_apm_sta_del_ind(i) PROVE Owed'
  <2>1. /\ sta_id' = sta_id /\ list_cfm' = list_cfm /\ fw_chan' = fw_chan
        /\ vif_idx' = vif_idx
    BY <1>12 DEF bl_rx_apm_sta_del_ind, hdrVars, descVars
  <2>2. \A j \in Sta : j \in fw_ps \/ ~is_used[j] => j \in fw_ps' \/ ~is_used'[j]
    BY <1>12 DEF bl_rx_apm_sta_del_ind, IInv, TypeOK, StaOK
  <2>3. \A c \in ToSet(list_cfm) : sta_id[c.pkt] \in Sta
    BY CfmRecords
  <2> QED
    BY <2>1, <2>2, <2>3 DEF IInv, Owed, OwedFor
<1>13. CASE UNCHANGED vars
  BY <1>13 DEF vars, IInv, Owed, OwedFor
<1> QED
  BY <1>1, <1>2, <1>3, <1>4, <1>5, <1>6, <1>7, <1>8, <1>9, <1>10, <1>11, <1>12, <1>13
  DEF Next, WifiTask, Complete, Release, Link

(* Flow control is set for what the firmware owes and ends no later than   *)
(* the debt.                                                               *)
LEMMA FcStep == IInv /\ [Next]_vars => FcReleasable'
<1> SUFFICES ASSUME IInv, [Next]_vars PROVE FcReleasable'
  OBVIOUS
<1>1. ASSUME NEW p \in Pkt, NEW d \in Dest, bl_output(p, d) PROVE FcReleasable'
  BY <1>1 DEF bl_output, staVars, vifVars, fwVars, IInv, FcReleasable
<1>2. ASSUME NEW p \in Pkt, bl_output_queue(p) PROVE FcReleasable'
  BY <1>2 DEF bl_output_queue, staVars, vifVars, fwVars, IInv, FcReleasable
<1>3. CASE bl_main_event_handle
  BY <1>3 DEF bl_main_event_handle, staVars, vifVars, fwVars, IInv, FcReleasable
<1>4. CASE bl_tx_cfm
  <2>1. PICK p \in Pkt, i \in Sta, value \in TxStatus :
          Head(list_cfm) = [pkt |-> p, status |-> value] /\ i = sta_id[p]
    BY <1>4, CfmEffect
  <2> DEFINE retry == "RETRY_LIMIT_REACHED" \in value
             chan == ~retry /\ "FRAME_REPUSHABLE_CHAN" \in value
             power == ~retry /\ ~chan
  <2>2. OwedFor([pkt |-> p, status |-> value])
    <3>1. list_cfm \in Seq(Completion) /\ list_cfm # <<>>
      BY <1>4 DEF bl_tx_cfm, IInv, TypeOK, ListOK, Completion
    <3>2. Head(list_cfm) \in ToSet(list_cfm)
      BY <3>1, TailList
    <3> QED
      BY <2>1, <3>2 DEF IInv, Owed
  <2>3. is_used' = is_used /\ vif_idx' = vif_idx /\ fw_chan' = fw_chan /\ fw_ps' = fw_ps
    BY <1>4 DEF bl_tx_cfm, fwVars
  <2>4. CASE ~Repushed(p, value)
    <3>1. fc_chan' = fc_chan /\ fc_ps' = fc_ps
      BY <1>4, <2>1, <2>4 DEF bl_tx_cfm
    <3> QED
      BY <2>3, <3>1 DEF IInv, FcReleasable
  <2>5. CASE Repushed(p, value)
    <3>1. /\ fc_chan' = [fc_chan EXCEPT ![vif_idx[i]] = fc_chan[vif_idx[i]] \/ chan]
          /\ fc_ps' = [fc_ps EXCEPT ![i] = fc_ps[i] \/ power]
      BY <1>4, <2>1, <2>5 DEF bl_tx_cfm
    <3>2. chan => vif_idx[i] \in fw_chan
      BY <2>1, <2>2 DEF OwedFor
    <3>3. power => "FRAME_REPUSHABLE_PS" \in value
      BY <2>5 DEF Repushed
    <3>4. power => i \in fw_ps
      BY <2>1, <2>2, <2>5, <3>3 DEF OwedFor, Repushed
    <3> HIDE DEF chan, power
    <3>5. ASSUME NEW v \in Vif, fc_chan'[v] PROVE v \in fw_chan
      <4>1. fc_chan[v] \/ (v = vif_idx[i] /\ chan)
        BY <3>1, <3>5 DEF IInv, TypeOK, StaOK
      <4> QED
        BY <3>2, <4>1 DEF IInv, FcReleasable
    <3>6. ASSUME NEW j \in Sta, is_used[j], vif_idx[j] = "STA", fc_ps'[j]
          PROVE  j \in fw_ps
      <4>1. fc_ps[j] \/ (j = i /\ power)
        BY <3>1, <3>6 DEF IInv, TypeOK, StaOK
      <4> QED
        BY <3>4, <3>6, <4>1 DEF IInv, FcReleasable
    <3> QED
      BY <2>3, <3>5, <3>6 DEF FcReleasable
  <2> QED
    BY <2>4, <2>5
<1>5. CASE sample_trigger
  BY <1>5 DEF sample_trigger, staVars, vifVars, fwVars, IInv, FcReleasable
<1>6. CASE flush_sta
  BY <1>6 DEF flush_sta, staVars, vifVars, fwVars, IInv, FcReleasable
<1>7. ASSUME NEW k \in 1 .. Len(list_ongoing), NEW value \in TxStatus,
             fw_complete(k, value)
      PROVE  FcReleasable'
  <2>1. is_used' = is_used /\ vif_idx' = vif_idx /\ fc_ps' = fc_ps /\ fc_chan' = fc_chan
    BY <1>7 DEF fw_complete, staVars, vifVars
  <2>2. fw_chan \subseteq fw_chan' /\ fw_ps \subseteq fw_ps'
    BY <1>7 DEF fw_complete
  <2> QED
    BY <2>1, <2>2 DEF IInv, FcReleasable
<1>8. ASSUME NEW v \in Vif, NEW chan \in BOOLEAN, NEW ps \in SUBSET fw_ps,
             fw_release(v, chan, ps)
      PROVE  FcReleasable'
  <2>1. is_used' = is_used /\ vif_idx' = vif_idx
    BY <1>8 DEF fw_release, bl_tx_cntrl_update_fc
  <2>2. /\ fc_chan' = [fc_chan EXCEPT ![v] = fc_chan[v] /\ ~chan]
        /\ fw_chan' = fw_chan \ (IF chan THEN {v} ELSE {}) /\ fw_ps' = fw_ps \ ps
        /\ \A i \in ps : vif_idx[i] = v
    BY <1>8 DEF fw_release, bl_tx_cntrl_update_fc
  <2>3. ASSUME NEW w \in Vif, fc_chan'[w] PROVE w \in fw_chan'
    <3>1. fc_chan[w] /\ ~(w = v /\ chan)
      BY <2>2, <2>3 DEF IInv, TypeOK, StaOK
    <3> QED
      BY <2>2, <3>1 DEF IInv, FcReleasable
  <2>4. ASSUME NEW i \in Sta, is_used[i], vif_idx[i] = "STA", fc_ps'[i]
        PROVE  i \in fw_ps'
    <3>1. i = fixed_sta_idx["STA"]
      <4>1. i # BcmcIdx
        BY <2>4 DEF IInv, GroupFixed
      <4> QED
        BY <2>4, <4>1 DEF IInv, LinksMatch, Peers
    <3>2. CASE v = "AP"
      <4>1. fc_ps' = fc_ps /\ i \notin ps
        BY <1>8, <2>2, <2>4, <3>2 DEF fw_release, bl_tx_cntrl_update_fc
      <4> QED
        BY <2>2, <2>4, <4>1 DEF IInv, FcReleasable
    <3>3. CASE v = "STA"
      <4>1. fc_ps' = [fc_ps EXCEPT ![i] = fc_ps[i] /\ ps = {}]
        BY <1>8, <3>1, <3>3 DEF fw_release, bl_tx_cntrl_update_fc
      <4>2. fc_ps[i] /\ ps = {}
        BY <2>4, <4>1 DEF IInv, TypeOK, StaOK
      <4> QED
        BY <2>2, <2>4, <4>2 DEF IInv, FcReleasable
    <3> QED
      BY <3>2, <3>3 DEF Vif
  <2> QED
    BY <2>1, <2>3, <2>4 DEF FcReleasable
<1>9. ASSUME NEW i \in Sta, bl_rx_sm_sta_add_ind(i) PROVE FcReleasable'
  <2>1. fw_ps' = fw_ps /\ fw_chan' = fw_chan
    BY <1>9 DEF bl_rx_sm_sta_add_ind, fwVars
  <2>2. \A w \in Vif : fc_chan'[w] => fc_chan[w]
    BY <1>9 DEF bl_rx_sm_sta_add_ind, IInv, TypeOK, StaOK
  <2>3. /\ ~fc_ps'[i]
        /\ \A j \in Sta \ {i} :
             /\ is_used'[j] = is_used[j] /\ vif_idx'[j] = vif_idx[j]
             /\ fc_ps'[j] = fc_ps[j]
    BY <1>9 DEF bl_rx_sm_sta_add_ind, IInv, TypeOK, StaOK
  <2> QED
    BY <2>1, <2>2, <2>3 DEF IInv, FcReleasable
<1>10. CASE bl_rx_sm_disconnect_ind
  <2>1. fw_chan' = fw_chan /\ vif_idx' = vif_idx /\ fc_ps' = fc_ps
    BY <1>10 DEF bl_rx_sm_disconnect_ind
  <2>2. \A w \in Vif : fc_chan'[w] => fc_chan[w]
    BY <1>10 DEF bl_rx_sm_disconnect_ind, IInv, TypeOK, StaOK
  <2>3. \A j \in Sta : is_used'[j] => is_used[j] /\ (j \in fw_ps => j \in fw_ps')
    BY <1>10 DEF bl_rx_sm_disconnect_ind, IInv, TypeOK, StaOK
  <2> QED
    BY <2>1, <2>2, <2>3 DEF IInv, FcReleasable
<1>11. ASSUME NEW i \in Sta, NEW m \in Mac, bl_rx_apm_sta_add_ind(i, m)
       PROVE  FcReleasable'
  <2>1. fw_ps' = fw_ps /\ fw_chan' = fw_chan
    BY <1>11 DEF bl_rx_apm_sta_add_ind, fwVars
  <2>2. \A w \in Vif : fc_chan'[w] => fc_chan[w]
    BY <1>11 DEF bl_rx_apm_sta_add_ind, IInv, TypeOK, StaOK
  <2>3. \A j \in Sta : fc_ps'[j] => /\ j # i /\ fc_ps[j] /\ vif_idx'[j] = vif_idx[j]
                                   /\ (is_used'[j] = is_used[j] \/ vif_idx[j] = "AP")
    BY <1>11 DEF bl_rx_apm_sta_add_ind, IInv, TypeOK, StaOK, GroupFixed
  <2> QED
    BY <2>1, <2>2, <2>3 DEF IInv, FcReleasable
<1>12. ASSUME NEW i \in Sta, bl_rx_apm_sta_del_ind(i) PROVE FcReleasable'
  <2>1. fw_chan' = fw_chan /\ vif_idx' = vif_idx /\ fc_ps' = fc_ps
    BY <1>12 DEF bl_rx_apm_sta_del_ind
  <2>2. \A w \in Vif : fc_chan'[w] => fc_chan[w]
    BY <1>12 DEF bl_rx_apm_sta_del_ind, IInv, TypeOK, StaOK
  <2>3. \A j \in Sta : is_used'[j] => is_used[j] /\ (j \in fw_ps => j \in fw_ps')
    BY <1>12 DEF bl_rx_apm_sta_del_ind, IInv, TypeOK, StaOK
  <2> QED
    BY <2>1, <2>2, <2>3 DEF IInv, FcReleasable
<1>13. CASE UNCHANGED vars
  BY <1>13 DEF vars, IInv, FcReleasable
<1> QED
  BY <1>1, <1>2, <1>3, <1>4, <1>5, <1>6, <1>7, <1>8, <1>9, <1>10, <1>11, <1>12, <1>13
  DEF Next, WifiTask, Complete, Release, Link

(* A hand-back closes an interface only while it has a link, and the last  *)
(* link takes that with it.                                                *)
LEMMA DownStep == IInv /\ [Next]_vars => DownOpen'
<1> SUFFICES ASSUME IInv, [Next]_vars, NEW v \in Vif, links_num'[v] = 0 PROVE ~fc_chan'[v]
  BY DEF DownOpen
<1>1. /\ links_num \in [Vif -> Nat] /\ fc_chan \in [Vif -> BOOLEAN]
      /\ links_num[v] = 0 => ~fc_chan[v]
  BY DEF IInv, TypeOK, StaOK, DownOpen
<1>2. CASE links_num' = links_num /\ fc_chan' = fc_chan
  BY <1>1, <1>2
<1>3. CASE bl_tx_cfm
  <2>1. PICK p \in Pkt, i \in Sta, value \in TxStatus :
          Head(list_cfm) = [pkt |-> p, status |-> value] /\ i = sta_id[p]
    BY <1>3, CfmEffect
  <2>2. links_num' = links_num
    BY <1>3 DEF bl_tx_cfm
  <2>3. CASE ~Repushed(p, value)
    <3>1. fc_chan' = fc_chan
      BY <1>3, <2>1, <2>3 DEF bl_tx_cfm
    <3> QED
      BY <1>1, <2>2, <3>1
  <2>4. CASE Repushed(p, value)
    <3>1. v # vif_idx[i]
      BY <1>1, <2>1, <2>2, <2>4 DEF Repushed
    <3>2. fc_chan' = [fc_chan EXCEPT ![vif_idx[i]] = fc_chan[vif_idx[i]]
                        \/ ("RETRY_LIMIT_REACHED" \notin value
                            /\ "FRAME_REPUSHABLE_CHAN" \in value)]
      BY <1>3, <2>1, <2>4 DEF bl_tx_cfm
    <3> QED
      BY <1>1, <2>2, <3>1, <3>2
  <2> QED
    BY <2>3, <2>4
<1>4. ASSUME NEW w \in Vif, NEW chan \in BOOLEAN, NEW ps \in SUBSET fw_ps,
             fw_release(w, chan, ps)
      PROVE  ~fc_chan'[v]
  <2>1. /\ links_num' = links_num
        /\ fc_chan' = [fc_chan EXCEPT ![w] = fc_chan[w] /\ ~chan]
    BY <1>4 DEF fw_release, bl_tx_cntrl_update_fc
  <2> QED
    BY <1>1, <2>1
<1>5. ASSUME NEW i \in Sta, bl_rx_sm_sta_add_ind(i) PROVE ~fc_chan'[v]
  BY <1>1, <1>5 DEF bl_rx_sm_sta_add_ind
<1>6. CASE bl_rx_sm_disconnect_ind
  BY <1>1, <1>6 DEF bl_rx_sm_disconnect_ind
<1>7. ASSUME NEW i \in Sta, NEW m \in Mac, bl_rx_apm_sta_add_ind(i, m)
      PROVE  ~fc_chan'[v]
  <2>1. /\ links_num' = [links_num EXCEPT !["AP"] = links_num["AP"] + 1]
        /\ fc_chan' = [fc_chan EXCEPT !["AP"] = fc_chan["AP"] /\ ~(links_num["AP"] = 0)]
    BY <1>7 DEF bl_rx_apm_sta_add_ind
  <2>2. "AP" \in Vif /\ links_num["AP"] \in Nat
    BY <1>1 DEF Vif
  <2>3. v # "AP"
    BY <1>1, <2>1, <2>2
  <2> QED
    BY <1>1, <2>1, <2>3
<1>8. ASSUME NEW i \in Sta, bl_rx_apm_sta_del_ind(i) PROVE ~fc_chan'[v]
  <2>1. /\ links_num["AP"] > 0
        /\ links_num' = [links_num EXCEPT !["AP"] = links_num["AP"] - 1]
        /\ fc_chan' = [fc_chan EXCEPT !["AP"] = fc_chan["AP"] /\ ~(links_num["AP"] = 1)]
    BY <1>8 DEF bl_rx_apm_sta_del_ind
  <2>2. "AP" \in Vif /\ links_num["AP"] \in Nat
    BY <1>1 DEF Vif
  <2>3. v = "AP" => links_num["AP"] = 1
    BY <1>1, <2>1, <2>2
  <2> QED
    BY <1>1, <2>1, <2>2, <2>3
<1>9. CASE \/ \E p \in Pkt, d \in Dest : bl_output(p, d)
           \/ \E p \in Pkt : bl_output_queue(p)
           \/ bl_main_event_handle \/ sample_trigger \/ flush_sta \/ Complete
           \/ UNCHANGED vars
  BY <1>2, <1>9
  DEF bl_output, bl_output_queue, bl_main_event_handle, sample_trigger, flush_sta,
      Complete, fw_complete, vifVars, vars
<1> QED
  BY <1>3, <1>4, <1>5, <1>6, <1>7, <1>8, <1>9 DEF Next, WifiTask, Release, Link

(* The driver holds the packets queued on an entry, for that entry. *)
LEMMA QueuedPackets ==
  ASSUME IInv, NEW i \in Sta, NEW q \in Queued(i)
  PROVE  q \in Pkt /\ ref[q] = 1 /\ sta_id[q] = i
<1>1. pending_list[i] \in Seq(Pkt) /\ waiting_list[i] \in Seq(Pkt)
  BY DEF IInv, TypeOK, ListOK
<1>2. (\A k \in DOMAIN pending_list[i] : pending_list[i][k] \in Pkt)
      /\ (\A k \in DOMAIN waiting_list[i] : waiting_list[i][k] \in Pkt)
  BY <1>1, LenProperties
<1>3. q \in Pkt
  BY <1>2 DEF Queued, ToSet
<1> QED
  BY <1>3 DEF IInv, Apart, Referenced

(* What is still queued on an entry out of use lost its link. *)
LEMMA QueuedStale ==
  ASSUME IInv, NEW i \in Sta, ~is_used[i]
  PROVE  Queued(i) \ stale = {}
  BY QueuedPackets DEF IInv, LiveOrStale

(* A step that leaves an entry with something to send, and allowed to,     *)
(* leaves it announced; one that lets it send again brings the task to it. *)
LEMMA AnnouncedStep == IInv /\ [Next]_vars => Announced'
<1> SUFFICES ASSUME IInv, [Next]_vars PROVE Announced'
  OBVIOUS
<1>1. ASSUME NEW p \in Pkt, NEW d \in Dest, bl_output(p, d) PROVE Announced'
  BY <1>1
  DEF bl_output, staVars, vifVars, descVars, trigVars, taskVars, fwVars, IInv,
      Announced, Needs, ToSend, WillFlush, OnTheWay, Recovers, Queued, bl_tx_cntrl_check_fc
<1>2. ASSUME NEW p \in Pkt, bl_output_queue(p) PROVE Announced'
  <2> SUFFICES ASSUME NEW j \in Sta, Needs(j)' PROVE WillFlush(j)' \/ OnTheWay(j)'
    BY DEF Announced
  <2>1. PICK i \in Sta :
          i = sta_id[p] /\ \A w \in Sta \ {i} : waiting_list'[w] = waiting_list[w]
    BY <1>2, QueueEffect
  <2>2. /\ bl_tx_cntrl_check_fc(j)' = bl_tx_cntrl_check_fc(j)
        /\ Recovers(j)' = Recovers(j)
        /\ pending_list' = pending_list /\ stale' = stale /\ is_used' = is_used
    BY <1>2
    DEF bl_output_queue, staVars, vifVars, fwVars, bl_tx_cntrl_check_fc, Recovers
  <2>3. CASE j = i
    <3>1. bl_tx_cntrl_check_fc(i)
      BY <2>2, <2>3 DEF Needs
    <3>2. i \in sta_trigger' /\ irq'
      BY <1>2, <2>1, <3>1 DEF bl_output_queue
    <3> QED
      BY <2>3, <3>2 DEF WillFlush
  <2>4. CASE j # i
    <3>1. Needs(j)
      BY <2>1, <2>2, <2>4 DEF Needs, ToSend, Queued
    <3>2. WillFlush(j) \/ OnTheWay(j)
      BY <3>1 DEF IInv, Announced
    <3> QED
      BY <1>2, <3>2 DEF bl_output_queue, descVars, taskVars, WillFlush, OnTheWay
  <2> QED
    BY <2>3, <2>4
<1>3. CASE bl_main_event_handle
  <2> SUFFICES ASSUME NEW j \in Sta, Needs(j)' PROVE WillFlush(j)' \/ OnTheWay(j)'
    BY DEF Announced
  <2>1. Needs(j)
    BY <1>3
    DEF bl_main_event_handle, staVars, vifVars, fwVars, Needs, ToSend, Recovers, Queued,
        bl_tx_cntrl_check_fc
  <2>2. WillFlush(j)
    BY <1>3, <2>1 DEF bl_main_event_handle, IInv, Announced, OnTheWay
  <2> QED
    BY <1>3, <2>2 DEF bl_main_event_handle, WillFlush, OnTheWay
<1>4. CASE bl_tx_cfm
  <2> SUFFICES ASSUME NEW j \in Sta, Needs(j)' PROVE WillFlush(j)' \/ OnTheWay(j)'
    BY DEF Announced
  <2>1. PICK p \in Pkt, i \in Sta, value \in TxStatus :
          /\ Head(list_cfm) = [pkt |-> p, status |-> value] /\ i = sta_id[p]
          /\ \A w \in Sta \ {i} : pending_list'[w] = pending_list[w]
    BY <1>4, CfmEffect
  <2> DEFINE retry == "RETRY_LIMIT_REACHED" \in value
             chan == ~retry /\ "FRAME_REPUSHABLE_CHAN" \in value
             power == ~retry /\ ~chan
  <2>2. /\ pc = "bh" /\ pc' = pc /\ trig' = trig /\ sta_trigger' = sta_trigger
        /\ irq' = irq
        /\ list_ongoing' = list_ongoing /\ trigger_pending \subseteq trigger_pending'
        /\ waiting_list' = waiting_list /\ stale' = stale /\ vif_idx' = vif_idx
        /\ fixed_sta_idx' = fixed_sta_idx /\ is_used' = is_used
    BY <1>4 DEF bl_tx_cfm, taskVars, fwVars
  <2>3. /\ \/ ~Repushed(p, value) /\ fc_chan' = fc_chan /\ fc_ps' = fc_ps
        /\ i \in trigger_pending'
        \/ /\ Repushed(p, value)
           /\ fc_chan' = [fc_chan EXCEPT ![vif_idx[i]] = fc_chan[vif_idx[i]] \/ chan]
           /\ fc_ps' = [fc_ps EXCEPT ![i] = fc_ps[i] \/ power]
           /\ retry => i \in trigger_pending'
    BY <1>4, <2>1 DEF bl_tx_cfm
  <2>4. CASE j # i
    <3>1. bl_tx_cntrl_check_fc(j)
      <4>1. ~fc_ps'[j] /\ ~fc_chan'[vif_idx[j]]
        BY <2>2 DEF Needs, bl_tx_cntrl_check_fc
      <4>2. fc_ps'[j] = fc_ps[j]
        BY <2>3, <2>4 DEF IInv, TypeOK, StaOK
      <4>3. fc_chan[vif_idx[j]] => fc_chan'[vif_idx[j]]
        <5>1. vif_idx[j] \in Vif /\ fc_chan \in [Vif -> BOOLEAN]
          BY DEF IInv, TypeOK, StaOK
        <5> QED
          BY <2>3, <5>1
      <4> QED
        BY <4>1, <4>2, <4>3 DEF bl_tx_cntrl_check_fc
    <3>2. Needs(j)
      BY <2>1, <2>2, <2>4, <3>1 DEF Needs, ToSend, Recovers, Queued
    <3>3. WillFlush(j) \/ OnTheWay(j)
      BY <3>2 DEF IInv, Announced
    <3> QED
      BY <2>2, <3>3 DEF WillFlush, OnTheWay
  <2>5. CASE j = i
    <3>1. ~fc_ps'[i] /\ ~fc_chan'[vif_idx[i]]
      BY <2>2, <2>5 DEF Needs, bl_tx_cntrl_check_fc
    <3>2. /\ vif_idx[i] \in Vif /\ fc_chan \in [Vif -> BOOLEAN]
          /\ fc_ps \in [Sta -> BOOLEAN]
      BY DEF IInv, TypeOK, StaOK
    <3>3. i \in trigger_pending'
      BY <2>3, <3>1, <3>2
    <3> QED
      BY <2>2, <2>5, <3>3 DEF OnTheWay
  <2> QED
    BY <2>4, <2>5
<1>5. CASE sample_trigger
  <2> SUFFICES ASSUME NEW j \in Sta, Needs(j)' PROVE WillFlush(j)' \/ OnTheWay(j)'
    BY DEF Announced
  <2>1. Needs(j)
    BY <1>5
    DEF sample_trigger, staVars, vifVars, fwVars, Needs, ToSend, Recovers, Queued,
        bl_tx_cntrl_check_fc
  <2>2. WillFlush(j) \/ OnTheWay(j)
    BY <2>1 DEF IInv, Announced
  <2>3. j \in trig'
    BY <1>5, <2>2 DEF sample_trigger, WillFlush, OnTheWay
  <2>4. pc' = "walk" /\ walk' = 0 /\ 0 <= j
    BY <1>5, ConstantsAssumption DEF sample_trigger, Sta
  <2> QED
    BY <2>3, <2>4 DEF OnTheWay
<1>6. CASE flush_sta
  <2> SUFFICES ASSUME NEW j \in Sta, Needs(j)' PROVE WillFlush(j)' \/ OnTheWay(j)'
    BY DEF Announced
  <2>1. PICK i \in Sta : i = walk
    BY DEF IInv, TypeOK, TaskOK
  <2>2. /\ pc = "walk" /\ list_cfm' = list_cfm /\ irq' = irq
        /\ sta_trigger' = sta_trigger
        /\ bl_tx_cntrl_check_fc(j)' = bl_tx_cntrl_check_fc(j)
        /\ Recovers(j)' = Recovers(j) /\ stale' = stale /\ is_used' = is_used
    BY <1>6 DEF flush_sta, staVars, vifVars, fwVars, bl_tx_cntrl_check_fc, Recovers
  <2>3. /\ trigger_pending \subseteq trigger_pending'
        /\ list_ongoing # <<>> => list_ongoing' # <<>>
        /\ j # i => Queued(j)' = Queued(j)
    <3>1. CASE i \in trig /\ bl_tx_cntrl_check_fc(i)
      <4>1. /\ list_free' \in 0 .. list_free
            /\ Len(list_ongoing') = Len(list_ongoing) + (list_free - list_free')
            /\ trigger_pending \subseteq trigger_pending' /\ list_ongoing' \in Seq(Pkt)
            /\ \A w \in Sta \ {i} :
                 /\ pending_list'[w] = pending_list[w]
                 /\ waiting_list'[w] = waiting_list[w]
        BY <1>6, <2>1, <3>1, FlushEffect
      <4>2. list_ongoing # <<>> => Len(list_ongoing) # 0
        <5>1. list_ongoing \in Seq(Pkt)
          BY DEF IInv, TypeOK, ListOK
        <5> QED
          BY <5>1, EmptySeq
      <4>3. list_ongoing # <<>> => Len(list_ongoing') # 0
        BY <4>1, <4>2, Counts
      <4>4. list_ongoing # <<>> => list_ongoing' # <<>>
        BY <4>1, <4>3, EmptySeq
      <4> QED
        BY <4>1, <4>4 DEF Queued
    <3>2. CASE ~(i \in trig /\ bl_tx_cntrl_check_fc(i))
      BY <1>6, <2>1, <3>2 DEF flush_sta, Queued
    <3> QED
      BY <3>1, <3>2
  <2>4. ASSUME WillFlush(j) PROVE WillFlush(j)'
    BY <2>2, <2>3, <2>4 DEF WillFlush
  <2>5. CASE j # i
    <3>1. WillFlush(j) \/ OnTheWay(j)
      BY <2>2, <2>3, <2>5 DEF Needs, ToSend, IInv, Announced
    <3>2. CASE OnTheWay(j)
      <4>1. j \in trig /\ i <= j
        BY <2>1, <2>2, <3>2 DEF OnTheWay
      <4>2. i # NSta - 1 /\ i + 1 <= j
        BY <2>5, <4>1, ConstantsAssumption DEF Sta
      <4>3. walk' = i + 1 /\ trig' = trig /\ pc' = pc
        BY <1>6, <2>1, <4>2 DEF flush_sta
      <4> QED
        BY <2>2, <4>1, <4>2, <4>3 DEF OnTheWay
    <3> QED
      BY <2>4, <3>1, <3>2
  <2>6. CASE j = i /\ i \in trig /\ bl_tx_cntrl_check_fc(i)
    <3>1. Queued(i)' # {}
      BY <2>6 DEF Needs, ToSend
    <3>2. list_free' = 0 /\ i \in trigger_pending' /\ list_ongoing' \in Seq(Pkt)
      BY <1>6, <2>1, <2>6, <3>1, FlushEffect
    <3>3. CASE list_ongoing' # <<>>
      BY <2>6, <3>2, <3>3 DEF WillFlush
    <3>4. CASE list_ongoing' = <<>>
      <4>1. DescAccounted'
        BY DescStep
      <4>2. Len(list_ongoing') = 0
        BY <3>4
      <4>3. Len(list_cfm) # 0
        BY <2>2, <3>2, <4>1, <4>2, Counts DEF DescAccounted
      <4>4. irq
        BY <2>2, <4>3 DEF IInv, CfmRaised
      <4> QED
        BY <2>2, <2>6, <3>2, <4>4 DEF WillFlush
    <3> QED
      BY <3>3, <3>4
  <2>7. CASE j = i /\ ~(i \in trig /\ bl_tx_cntrl_check_fc(i))
    <3>1. Queued(i)' = Queued(i)
      BY <1>6, <2>1, <2>7 DEF flush_sta, Queued
    <3>2. Needs(j) /\ j \notin trig
      BY <2>2, <2>7, <3>1 DEF Needs, ToSend
    <3>3. WillFlush(j)
      BY <2>2, <3>2 DEF IInv, Announced, OnTheWay
    <3> QED
      BY <2>4, <3>3
  <2> QED
    BY <2>5, <2>6, <2>7
<1>7. ASSUME NEW k \in 1 .. Len(list_ongoing), NEW value \in TxStatus,
             fw_complete(k, value)
      PROVE  Announced'
  <2> SUFFICES ASSUME NEW j \in Sta, Needs(j)' PROVE WillFlush(j)' \/ OnTheWay(j)'
    BY DEF Announced
  <2>1. Needs(j)
    BY <1>7
    DEF fw_complete, staVars, vifVars, Needs, ToSend, Recovers, Queued, bl_tx_cntrl_check_fc
  <2>2. WillFlush(j)
    BY <1>7, <2>1 DEF fw_complete, IInv, Announced, OnTheWay
  <2> QED
    BY <1>7, <2>2 DEF fw_complete, WillFlush
<1>8. ASSUME NEW v \in Vif, NEW chan \in BOOLEAN, NEW ps \in SUBSET fw_ps,
             fw_release(v, chan, ps)
      PROVE  Announced'
  <2> SUFFICES ASSUME NEW j \in Sta, Needs(j)' PROVE WillFlush(j)' \/ OnTheWay(j)'
    BY DEF Announced
  <2>1. /\ pc = "fw" /\ pc' = "flush" /\ vif_idx' = vif_idx
        /\ fixed_sta_idx' = fixed_sta_idx /\ stale' = stale
        /\ pending_list' = pending_list /\ waiting_list' = waiting_list
        /\ sta_trigger' = sta_trigger /\ trigger_pending' = trigger_pending
        /\ is_used' = is_used
    BY <1>8 DEF fw_release, bl_tx_cntrl_update_fc, trigVars
  <2>2. j = fixed_sta_idx[vif_idx[j]] /\ vif_idx[j] \in Vif
    BY <2>1 DEF Needs, Recovers, IInv, TypeOK, StaOK
  <2>3. CASE bl_tx_cntrl_check_fc(j)
    <3>1. WillFlush(j)
      BY <2>1, <2>3 DEF Needs, ToSend, Recovers, Queued, IInv, Announced, OnTheWay
    <3> QED
      BY <2>1, <3>1 DEF WillFlush, OnTheWay
  <2>4. CASE fc_ps[j]
    <3>1. ~fc_ps'[j]
      BY DEF Needs, bl_tx_cntrl_check_fc
    <3>2. /\ v = "STA"
          /\ fc_ps' = [fc_ps EXCEPT ![fixed_sta_idx[v]] = fc_ps[fixed_sta_idx[v]] /\ ps = {}]
          /\ trig' = {fixed_sta_idx[v]}
      BY <1>8, <2>4, <3>1 DEF fw_release, bl_tx_cntrl_update_fc
    <3>3. j = fixed_sta_idx[v]
      BY <2>4, <3>1, <3>2 DEF IInv, TypeOK, StaOK
    <3> QED
      BY <2>1, <3>2, <3>3 DEF OnTheWay
  <2>5. CASE fc_chan[vif_idx[j]]
    <3>1. ~fc_chan'[vif_idx[j]]
      BY <2>1 DEF Needs, bl_tx_cntrl_check_fc
    <3>2. fc_chan' = [fc_chan EXCEPT ![v] = fc_chan[v] /\ ~chan]
      BY <1>8 DEF fw_release, bl_tx_cntrl_update_fc
    <3>3. v = vif_idx[j] /\ chan
      BY <2>2, <2>5, <3>1, <3>2 DEF IInv, TypeOK, StaOK
    <3>4. fixed_sta_idx[v] \in trig'
      BY <1>8, <3>3 DEF fw_release, bl_tx_cntrl_update_fc
    <3> QED
      BY <2>1, <2>2, <3>3, <3>4 DEF OnTheWay
  <2> QED
    BY <2>3, <2>4, <2>5 DEF bl_tx_cntrl_check_fc
<1>9. ASSUME NEW i \in Sta, bl_rx_sm_sta_add_ind(i) PROVE Announced'
  <2> SUFFICES ASSUME NEW j \in Sta, Needs(j)' PROVE WillFlush(j)' \/ OnTheWay(j)'
    BY DEF Announced
  <2>1. /\ pc' = pc /\ stale' = stale /\ pending_list' = pending_list
        /\ waiting_list' = waiting_list
        /\ WillFlush(j)' = WillFlush(j) /\ Queued(j)' = Queued(j)
    BY <1>9
    DEF bl_rx_sm_sta_add_ind, trigVars, descVars, taskVars, fwVars, WillFlush, Queued
  <2>2. j # i
    <3>1. ~is_used[i] /\ is_used'[i]
      BY <1>9 DEF bl_rx_sm_sta_add_ind, FwFree, IInv, TypeOK, StaOK
    <3> QED
      BY <2>1, <3>1, QueuedStale DEF Needs, ToSend
  <2>3. /\ vif_idx'[j] = vif_idx[j] /\ fc_ps'[j] = fc_ps[j] /\ vif_idx[j] \in Vif
        /\ is_used'[j] = is_used[j]
    BY <1>9, <2>2 DEF bl_rx_sm_sta_add_ind, IInv, TypeOK, StaOK
  <2>4. /\ fixed_sta_idx'["STA"] = i
        /\ fixed_sta_idx'["AP"] = fixed_sta_idx["AP"]
        /\ fc_chan'["AP"] = fc_chan["AP"]
    BY <1>9 DEF bl_rx_sm_sta_add_ind, IInv, TypeOK, StaOK, Vif
  <2>5. vif_idx[j] = "AP"
    BY <2>2, <2>3, <2>4 DEF Needs, Recovers, Vif
  <2>6. Needs(j)
    BY <2>1, <2>3, <2>4, <2>5 DEF Needs, ToSend, Recovers, bl_tx_cntrl_check_fc
  <2>7. WillFlush(j)
    BY <1>9, <2>6 DEF bl_rx_sm_sta_add_ind, IInv, Announced, OnTheWay
  <2> QED
    BY <2>1, <2>7
<1>10. CASE bl_rx_sm_disconnect_ind
  <2> SUFFICES ASSUME NEW j \in Sta, Needs(j)' PROVE WillFlush(j)' \/ OnTheWay(j)'
    BY DEF Announced
  <2>1. /\ pc = "fw" /\ vif_idx' = vif_idx /\ fixed_sta_idx' = fixed_sta_idx
        /\ fc_ps' = fc_ps
        /\ Queued(j)' = Queued(j) /\ stale' = stale \cup Held({fixed_sta_idx["STA"]})
        /\ trigger_pending' = trigger_pending
        /\ sta_trigger \subseteq sta_trigger' /\ list_ongoing' = list_ongoing
        /\ irq => irq'
    BY <1>10 DEF bl_rx_sm_disconnect_ind, bl_tx_cntrl_link_down, descVars, Queued
  <2>2. CASE j = fixed_sta_idx["STA"]
    <3>1. Queued(j) # {}
      BY <2>1 DEF Needs, ToSend
    <3>2. j \in sta_trigger' /\ irq'
      BY <1>10, <2>2, <3>1 DEF bl_rx_sm_disconnect_ind, bl_tx_cntrl_link_down, Purged
    <3> QED
      BY <3>2 DEF WillFlush
  <2>3. CASE j # fixed_sta_idx["STA"]
    <3>1. vif_idx[j] \in Vif /\ j = fixed_sta_idx[vif_idx[j]]
      BY <2>1 DEF Needs, Recovers, IInv, TypeOK, StaOK
    <3>2. vif_idx[j] = "AP"
      BY <2>3, <3>1 DEF Vif
    <3>3. fc_chan'[vif_idx[j]] = fc_chan[vif_idx[j]] /\ is_used'[j] = is_used[j]
      BY <1>10, <2>3, <3>2 DEF bl_rx_sm_disconnect_ind, IInv, TypeOK, StaOK, Vif
    <3>4. Needs(j)
      BY <2>1, <3>3 DEF Needs, ToSend, Recovers, bl_tx_cntrl_check_fc
    <3>5. WillFlush(j)
      BY <2>1, <3>4 DEF IInv, Announced, OnTheWay
    <3> QED
      BY <2>1, <3>5 DEF WillFlush
  <2> QED
    BY <2>2, <2>3
<1>11. ASSUME NEW i \in Sta, NEW m \in Mac, bl_rx_apm_sta_add_ind(i, m) PROVE Announced'
  <2> SUFFICES ASSUME NEW j \in Sta, Needs(j)' PROVE WillFlush(j)' \/ OnTheWay(j)'
    BY DEF Announced
  <2>1. /\ stale' = stale /\ fixed_sta_idx' = fixed_sta_idx
        /\ WillFlush(j)' = WillFlush(j) /\ Queued(j)' = Queued(j)
    BY <1>11 DEF bl_rx_apm_sta_add_ind, trigVars, descVars, fwVars, WillFlush, Queued
  <2>2. j # i
    <3>1. ~is_used[i] /\ is_used'[i]
      BY <1>11 DEF bl_rx_apm_sta_add_ind, FwFree
    <3> QED
      BY <2>1, <3>1, QueuedStale DEF Needs, ToSend
  <2>3. vif_idx'[j] = vif_idx[j] /\ vif_idx[j] \in Vif /\ j = fixed_sta_idx[vif_idx[j]]
    BY <1>11, <2>1, <2>2 DEF bl_rx_apm_sta_add_ind, IInv, TypeOK, StaOK, Needs, Recovers
  <2>4. links_num["AP"] # 0 \/ vif_idx[j] = "STA"
    <3> SUFFICES ASSUME links_num["AP"] = 0, vif_idx[j] # "STA" PROVE FALSE
      OBVIOUS
    <3>1. Cardinality(Peers("AP")) = 0
      BY DEF IInv, LinksMatch, Vif
    <3>2. Peers("AP") = {}
      BY <3>1, PeersFinite, PeersCount
    <3>3. ~is_used[BcmcIdx]
      BY <3>2 DEF IInv, LinksMatch
    <3>4. j = BcmcIdx /\ j = fixed_sta_idx["AP"]
      BY <2>3 DEF IInv, GroupFixed, Vif
    <3>5. is_used'[j]
      BY <1>11, <3>4 DEF bl_rx_apm_sta_add_ind
    <3> QED
      BY <2>1, <3>3, <3>4, <3>5, QueuedStale DEF Needs, ToSend
  <2>5. fc_ps'[j] = fc_ps[j] /\ fc_chan'[vif_idx[j]] = fc_chan[vif_idx[j]]
    <3>1. links_num["AP"] = 0 => j # fixed_sta_idx["AP"]
      BY <2>3, <2>4 DEF IInv, GroupFixed
    <3>2. fc_ps'[j] = fc_ps[j]
      BY <1>11, <2>2, <3>1 DEF bl_rx_apm_sta_add_ind
    <3>3. fc_chan'[vif_idx[j]] = fc_chan[vif_idx[j]]
      <4>1. /\ fc_chan \in [Vif -> BOOLEAN]
            /\ fc_chan' = [fc_chan EXCEPT !["AP"] = fc_chan["AP"] /\ ~(links_num["AP"] = 0)]
        BY <1>11 DEF bl_rx_apm_sta_add_ind, IInv, TypeOK, StaOK
      <4>2. CASE vif_idx[j] = "STA"
        BY <4>1, <4>2 DEF Vif
      <4>3. CASE links_num["AP"] # 0
        <5>1. fc_chan["AP"] \in BOOLEAN
          BY <4>1 DEF Vif
        <5>2. (fc_chan["AP"] /\ ~(links_num["AP"] = 0)) = fc_chan["AP"]
          BY <4>3, <5>1
        <5> QED
          BY <2>3, <4>1, <5>2
      <4> QED
        BY <2>4, <4>2, <4>3
    <3> QED
      BY <3>2, <3>3
  <2>6. Needs(j)
    <3>1. links_num["AP"] = 0 => j # fixed_sta_idx["AP"]
      BY <2>3, <2>4 DEF IInv, GroupFixed
    <3>2. is_used'[j] = is_used[j]
      BY <1>11, <2>2, <3>1 DEF bl_rx_apm_sta_add_ind
    <3> QED
      BY <2>1, <2>3, <2>5, <3>2 DEF Needs, ToSend, Recovers, bl_tx_cntrl_check_fc
  <2>7. WillFlush(j)
    BY <1>11, <2>6 DEF bl_rx_apm_sta_add_ind, IInv, Announced, OnTheWay
  <2> QED
    BY <2>1, <2>7
<1>12. ASSUME NEW i \in Sta, bl_rx_apm_sta_del_ind(i) PROVE Announced'
  <2> SUFFICES ASSUME NEW j \in Sta, Needs(j)' PROVE WillFlush(j)' \/ OnTheWay(j)'
    BY DEF Announced
  <2>1. /\ pc = "fw" /\ vif_idx' = vif_idx /\ fixed_sta_idx' = fixed_sta_idx
        /\ fc_ps' = fc_ps
        /\ Queued(j)' = Queued(j) /\ stale' = stale \cup Held(GoesDown(i))
        /\ trigger_pending' = trigger_pending
        /\ sta_trigger \subseteq sta_trigger' /\ list_ongoing' = list_ongoing
        /\ irq => irq'
    BY <1>12 DEF bl_rx_apm_sta_del_ind, bl_tx_cntrl_link_down, descVars, Queued
  <2>2. CASE j \in GoesDown(i)
    <3>1. Queued(j) # {}
      BY <2>1 DEF Needs, ToSend
    <3>2. j \in sta_trigger' /\ irq'
      BY <1>12, <2>2, <3>1 DEF bl_rx_apm_sta_del_ind, bl_tx_cntrl_link_down, Purged
    <3> QED
      BY <3>2 DEF WillFlush
  <2>3. CASE j \notin GoesDown(i)
    <3>1. vif_idx[j] \in Vif /\ j = fixed_sta_idx[vif_idx[j]]
      BY <2>1 DEF Needs, Recovers, IInv, TypeOK, StaOK
    <3>2. links_num["AP"] # 1 \/ vif_idx[j] = "STA"
      BY <2>3, <3>1 DEF GoesDown, Vif
    <3>3. fc_chan'[vif_idx[j]] = fc_chan[vif_idx[j]]
      <4>1. /\ fc_chan \in [Vif -> BOOLEAN]
            /\ fc_chan' = [fc_chan EXCEPT !["AP"] = fc_chan["AP"] /\ ~(links_num["AP"] = 1)]
        BY <1>12 DEF bl_rx_apm_sta_del_ind, IInv, TypeOK, StaOK
      <4>2. CASE vif_idx[j] = "STA"
        BY <4>1, <4>2 DEF Vif
      <4>3. CASE links_num["AP"] # 1
        <5>1. fc_chan["AP"] \in BOOLEAN
          BY <4>1 DEF Vif
        <5>2. (fc_chan["AP"] /\ ~(links_num["AP"] = 1)) = fc_chan["AP"]
          BY <4>3, <5>1
        <5> QED
          BY <3>1, <4>1, <5>2
      <4> QED
        BY <3>2, <4>2, <4>3
    <3>4. Needs(j)
      <4>1. is_used'[j] = is_used[j]
        BY <1>12, <2>3 DEF bl_rx_apm_sta_del_ind, IInv, TypeOK, StaOK
      <4> QED
        BY <2>1, <3>3, <4>1 DEF Needs, ToSend, Recovers, bl_tx_cntrl_check_fc
    <3>5. WillFlush(j)
      BY <2>1, <3>4 DEF IInv, Announced, OnTheWay
    <3> QED
      BY <2>1, <3>5 DEF WillFlush
  <2> QED
    BY <2>2, <2>3
<1>13. CASE UNCHANGED vars
  BY <1>13
  DEF vars, IInv, Announced, Needs, ToSend, WillFlush, OnTheWay, Recovers, Queued,
      bl_tx_cntrl_check_fc
<1> QED
  BY <1>1, <1>2, <1>3, <1>4, <1>5, <1>6, <1>7, <1>8, <1>9, <1>10, <1>11, <1>12, <1>13
  DEF Next, WifiTask, Complete, Release, Link

(* The driver starts with nothing queued, no link and every descriptor free. *)
LEMMA InitIInv == Init => IInv
<1> SUFFICES ASSUME Init PROVE IInv
  OBVIOUS
<1>1. StaOK
  <2>1. 0 \in Sta /\ BcmcIdx \in Sta
    BY ConstantsAssumption DEF Sta
  <2> QED
    BY <2>1 DEF Init, StaOK, Vif
<1>2. ListOK
  BY ConstantsAssumption DEF Init, ListOK
<1>3. PktOK
  BY ConstantsAssumption DEF Init, PktOK, Dest
<1>4. TaskOK
  <2>1. 0 \in Sta
    BY ConstantsAssumption DEF Sta
  <2> QED
    BY <2>1 DEF Init, TaskOK
<1>5. DescAccounted
  BY ConstantsAssumption DEF Init, DescAccounted
<1>6. /\ \A i \in Sta :
           /\ pending_list[i] = <<>> /\ waiting_list[i] = <<>> /\ Pend(i) = {}
           /\ Wait(i) = {} /\ Queued(i) = {}
      /\ list_ongoing = <<>> /\ Ongoing = {} /\ DOMAIN CfmPkts = {} /\ Cfm = {}
      /\ out = {}
  BY EmptyList DEF Init, Pend, Wait, Queued, Ongoing, CfmPkts, Cfm, ToSet
<1>7. Apart
  <2>1. Distinct(CfmPkts)
    BY <1>6 DEF Distinct
  <2> QED
    BY <1>6, <2>1, EmptyList DEF Apart
<1>8. Referenced /\ LiveOrStale
  BY <1>6 DEF Init, Referenced, LiveOrStale
<1>9. GroupFixed
  BY ConstantsAssumption DEF Init, GroupFixed, Vif
<1>10. LinksMatch
  <2>1. \A v \in Vif : Peers(v) = {} /\ links_num[v] = 0
    BY DEF Init, Peers
  <2>2. is_used[BcmcIdx] = FALSE
    BY ConstantsAssumption DEF Init
  <2> QED
    BY <2>1, <2>2, FS_EmptySet DEF LinksMatch, Vif
<1>11. CfmRaised /\ Owed
  BY EmptyList DEF Init, CfmRaised, Owed
<1>12. FcReleasable
  BY DEF Init, FcReleasable
<1>13. Announced
  BY <1>6 DEF Announced, Needs, ToSend
<1>14. DownOpen
  BY DEF Init, DownOpen
<1> QED
  BY <1>1, <1>2, <1>3, <1>4, <1>5, <1>7, <1>8, <1>9, <1>10, <1>11, <1>12, <1>13, <1>14
  DEF IInv, TypeOK

(* Every step of the two tasks and of the firmware keeps the invariant. *)
LEMMA StepIInv == IInv /\ [Next]_vars => IInv'
<1> SUFFICES ASSUME IInv, [Next]_vars PROVE IInv'
  OBVIOUS
<1>1. TypeOK'
  BY StaTypes, ListTypes, PktTypes, TaskTypes DEF TypeOK
<1> QED
  BY <1>1, DescStep, ApartStep, ReferencedStep, GroupStep, LinksStep, LiveStep,
     CfmRaisedStep,
     OwedStep, FcStep, DownStep, AnnouncedStep
  DEF IInv

(* A packet is at one position of a list without repetitions, or at none. *)
LEMMA AtList ==
  ASSUME NEW s, NEW p
  PROVE  /\ p \notin ToSet(s) => At(s, p) = {}
         /\ Distinct(s) /\ p \in ToSet(s) => \E k \in DOMAIN s : At(s, p) = {k}
<1>1. p \notin ToSet(s) => At(s, p) = {}
  BY DEF At, ToSet
<1>2. ASSUME Distinct(s), p \in ToSet(s) PROVE \E k \in DOMAIN s : At(s, p) = {k}
  <2>1. PICK k \in DOMAIN s : s[k] = p
    BY <1>2 DEF ToSet
  <2>2. At(s, p) = {k}
    BY <1>2, <2>1 DEF At, Distinct
  <2> QED
    BY <2>2
<1> QED
  BY <1>1, <1>2

(* The positions of a packet are those in the list that has it. *)
LEMMA OnePosition ==
  ASSUME IInv, NEW p \in Pkt
  PROVE  Cardinality(Places(p)) = ref[p]
<1> DEFINE O == {<<"out", 0, 0>> : q \in out \cap {p}}
           P == UNION {{<<"pending", i, k>> : k \in At(pending_list[i], p)} : i \in Sta}
           W == UNION {{<<"waiting", i, k>> : k \in At(waiting_list[i], p)} : i \in Sta}
           G == {<<"ongoing", 0, k>> : k \in At(list_ongoing, p)}
           C == {<<"cfm", 0, k>> : k \in At(CfmPkts, p)}
<1>1. Places(p) = O \cup P \cup W \cup G \cup C
  BY DEF Places
<1>2. p \notin out => O = {}
  OBVIOUS
<1>3. p \notin Ongoing => G = {}
  BY AtList DEF Ongoing
<1>4. p \notin Cfm => C = {}
  BY AtList DEF Cfm
<1>5. (\A i \in Sta : p \notin Pend(i)) => P = {}
  BY AtList DEF Pend
<1>6. (\A i \in Sta : p \notin Wait(i)) => W = {}
  BY AtList DEF Wait
<1>7. \A i \in Sta : Queued(i) = Pend(i) \cup Wait(i)
  BY DEF Queued, Pend, Wait
<1>8. /\ \A i \in Sta :
           /\ Distinct(pending_list[i]) /\ Distinct(waiting_list[i])
           /\ Pend(i) \cap Wait(i) = {}
      /\ Distinct(list_ongoing) /\ Distinct(CfmPkts) /\ Ongoing \cap Cfm = {}
      /\ out \cap (Ongoing \cup Cfm) = {}
      /\ \A i \in Sta : Queued(i) \cap (out \cup Ongoing \cup Cfm) = {}
      /\ \A i, j \in Sta : p \in Queued(i) /\ p \in Queued(j) => i = j
  BY DEF IInv, Apart
<1>9. /\ ref[p] = 1 <=>
           p \in out \cup Ongoing \cup Cfm \/ \E i \in Sta : p \in Queued(i)
      /\ ref[p] \in {0, 1}
  BY DEF IInv, Referenced, TypeOK, PktOK
<1>10. CASE ref[p] = 0
  <2>1. O \cup P \cup W \cup G \cup C = {}
    <3>1. /\ p \notin out \cup Ongoing \cup Cfm
          /\ \A i \in Sta : p \notin Pend(i) /\ p \notin Wait(i)
      BY <1>7, <1>9, <1>10
    <3> HIDE DEF O, P, W, G, C
    <3> QED
      BY <3>1, <1>2, <1>3, <1>4, <1>5, <1>6
  <2> QED
    BY <1>1, <1>10, <2>1, FS_EmptySet
<1>11. ASSUME NEW x, Places(p) = {x}, ref[p] = 1 PROVE Cardinality(Places(p)) = ref[p]
  BY <1>11, FS_Singleton
<1>12. CASE p \in out
  <2>1. O = {<<"out", 0, 0>>}
    BY <1>12
  <2> HIDE DEF O, P, W, G, C
  <2>2. P = {} /\ W = {} /\ G = {} /\ C = {} /\ ref[p] = 1
    BY <1>3, <1>4, <1>5, <1>6, <1>7, <1>8, <1>9, <1>12
  <2>3. Places(p) = {<<"out", 0, 0>>}
    BY <1>1, <2>1, <2>2
  <2> QED
    BY <1>11, <2>2, <2>3
<1>13. CASE p \in Ongoing
  <2>1. PICK k : At(list_ongoing, p) = {k}
    BY <1>8, <1>13, AtList DEF Ongoing
  <2>2. G = {<<"ongoing", 0, k>>}
    BY <2>1
  <2> HIDE DEF O, P, W, G, C
  <2>3. O = {} /\ P = {} /\ W = {} /\ C = {} /\ ref[p] = 1
    BY <1>2, <1>4, <1>5, <1>6, <1>7, <1>8, <1>9, <1>13
  <2>4. Places(p) = {<<"ongoing", 0, k>>}
    BY <1>1, <2>2, <2>3
  <2> QED
    BY <1>11, <2>3, <2>4
<1>14. CASE p \in Cfm
  <2>1. PICK k : At(CfmPkts, p) = {k}
    BY <1>8, <1>14, AtList DEF Cfm
  <2>2. C = {<<"cfm", 0, k>>}
    BY <2>1
  <2> HIDE DEF O, P, W, G, C
  <2>3. O = {} /\ P = {} /\ W = {} /\ G = {} /\ ref[p] = 1
    BY <1>2, <1>3, <1>5, <1>6, <1>7, <1>8, <1>9, <1>14
  <2>4. Places(p) = {<<"cfm", 0, k>>}
    BY <1>1, <2>2, <2>3
  <2> QED
    BY <1>11, <2>3, <2>4
<1>15. ASSUME NEW i \in Sta, p \in Pend(i) PROVE Cardinality(Places(p)) = ref[p]
  <2>1. PICK k : At(pending_list[i], p) = {k}
    BY <1>8, <1>15, AtList DEF Pend
  <2>2. \A j \in Sta : j # i => At(pending_list[j], p) = {}
    BY <1>7, <1>8, <1>15, AtList DEF Pend
  <2>3. P = {<<"pending", i, k>>}
    BY <2>1, <2>2
  <2> HIDE DEF O, P, W, G, C
  <2>4. O = {} /\ W = {} /\ G = {} /\ C = {} /\ ref[p] = 1
    BY <1>2, <1>3, <1>4, <1>6, <1>7, <1>8, <1>9, <1>15
  <2>5. Places(p) = {<<"pending", i, k>>}
    BY <1>1, <2>3, <2>4
  <2> QED
    BY <1>11, <2>4, <2>5
<1>16. ASSUME NEW i \in Sta, p \in Wait(i) PROVE Cardinality(Places(p)) = ref[p]
  <2>1. PICK k : At(waiting_list[i], p) = {k}
    BY <1>8, <1>16, AtList DEF Wait
  <2>2. \A j \in Sta : j # i => At(waiting_list[j], p) = {}
    BY <1>7, <1>8, <1>16, AtList DEF Wait
  <2>3. W = {<<"waiting", i, k>>}
    BY <2>1, <2>2
  <2> HIDE DEF O, P, W, G, C
  <2>4. O = {} /\ P = {} /\ G = {} /\ C = {} /\ ref[p] = 1
    BY <1>2, <1>3, <1>4, <1>5, <1>7, <1>8, <1>9, <1>16
  <2>5. Places(p) = {<<"waiting", i, k>>}
    BY <1>1, <2>3, <2>4
  <2> QED
    BY <1>11, <2>4, <2>5
<1> QED
  BY <1>7, <1>9, <1>10, <1>12, <1>13, <1>14, <1>15, <1>16

-----------------------------------------------------------------------------
(* Theorems. *)

(* The inductive invariant holds in every state the tasks, the firmware    *)
(* and the link indications reach, for any number of stations, packets,    *)
(* descriptors and hand-backs.                                             *)
THEOREM Inductive == Spec => []IInv
  BY InitIInv, StepIInv, PTL DEF Spec

(* Every variable keeps its type; the free descriptors never go below zero *)
(* nor above NX_TXDESC_CNT0, and a pbuf is never referenced twice nor      *)
(* released twice.                                                         *)
THEOREM Types == Spec => []TypeOK
<1>1. IInv => TypeOK
  BY DEF IInv
<1> QED
  BY <1>1, Inductive, PTL

(* A packet bl_output accepted is in exactly one list while the driver     *)
(* holds its reference and in none afterwards, in the lists of no station  *)
(* but its own, and the descriptors add up.                                *)
THEOREM OneList == Spec => []OnePlace
<1>1. IInv => OnePlace
  BY OnePosition DEF IInv, Apart, OnePlace
<1> QED
  BY <1>1, Inductive, PTL

(* No trigger of a station that flow control can release is lost between   *)
(* two events of the Wi-Fi task, and a flow control the host still applies *)
(* is one the firmware will release.                                       *)
THEOREM NoLostTrigger == Spec => []TriggerNotLost
<1>1. IInv => TriggerNotLost
  BY DEF IInv, Announced, Needs, ToSend, OnTheWay, TriggerNotLost
<1> QED
  BY <1>1, Inductive, PTL

(* PurgeNotLost: whatever is still queued on an entry whose link went down *)
(* is handed over by a flush that is bound to come.  A closed interface    *)
(* cannot prevent it (DownOpen): it has no link left.                      *)
THEOREM Purges == Spec => []PurgeNotLost
<1>1. IInv => PurgeNotLost
  <2> SUFFICES ASSUME IInv, pc = "fw", NEW i \in Sta,
                      Recovers(i), ~is_used[i], ~fc_ps[i], Queued(i) # {}
               PROVE  WillFlush(i)
    BY DEF PurgeNotLost
  <2>1. vif_idx[i] \in Vif
    BY DEF IInv, TypeOK, StaOK
  <2>2. Peers(vif_idx[i]) = {}
    <3>1. CASE vif_idx[i] = "STA"
      BY <3>1 DEF IInv, LinksMatch, Recovers, Peers
    <3>2. CASE vif_idx[i] = "AP"
      BY <3>2 DEF IInv, LinksMatch, GroupFixed, Recovers
    <3> QED
      BY <2>1, <3>1, <3>2 DEF Vif
  <2>3. links_num[vif_idx[i]] = 0
    BY <2>1, <2>2, FS_EmptySet DEF IInv, LinksMatch
  <2>4. ~fc_chan[vif_idx[i]]
    BY <2>1, <2>3 DEF IInv, DownOpen
  <2>5. Needs(i)
    BY <2>4 DEF Needs, ToSend, bl_tx_cntrl_check_fc
  <2> QED
    BY <2>5 DEF IInv, Announced, OnTheWay
<1> QED
  BY Inductive, <1>1, PTL

(* links_num counts the linked peers, and the group station is in use      *)
(* exactly while the AP has one.                                           *)
THEOREM LinksCounted == Spec => []LinksMatch
<1>1. IInv => LinksMatch
  BY DEF IInv
<1> QED
  BY <1>1, Inductive, PTL

=============================================================================
