--------------------------- MODULE WifiMgmrProofs ---------------------------
(***************************************************************************)
(* Proofs about WifiMgmr, for every set of profiles, static addresses and  *)
(* operations, every length of the queue and any number of calls.          *)
(*                                                                         *)
(* The heart of the argument is Lag: the manager's state and the           *)
(* firmware's station are at most two indications apart, and those are in  *)
(* the queue or were dropped.  RetryFirst orders the queue: a reconnect    *)
(* posted by the timer is never behind the end of a connection, so a       *)
(* station that has just been disconnected finds no old reconnect.         *)
(***************************************************************************)
EXTENDS WifiMgmr, TLAPS, SequenceTheorems

(* The indications of the firmware's station, and where they are in a      *)
(* queue: nowhere, in one place, or a connection followed by its end.      *)
Ind == {"IND_CONNECTED", "IND_DISCONNECT"}
IsInd(m) == m.ev \in Ind
In(q, ev) == \E i \in DOMAIN q : q[i].ev = ev
NoInd(q) == \A i \in DOMAIN q : ~IsInd(q[i])
OneInd(q, ev) ==
  \E i \in DOMAIN q : q[i].ev = ev /\ \A j \in DOMAIN q : IsInd(q[j]) => j = i
BothInd(q) ==
  \E i, k \in DOMAIN q :
    /\ i < k /\ q[i].ev = "IND_CONNECTED" /\ q[k].ev = "IND_DISCONNECT"
    /\ \A j \in DOMAIN q : IsInd(q[j]) => j \in {i, k}

(* A reconnect in a queue comes before any end of a connection. *)
RetryFirst(q) ==
  \A i, j \in DOMAIN q : q[i].ev = "IND_DISCONNECT" /\ q[j].ev = "RECONNECT" => j < i

Linked == {"IPNo", "IPYes"}
Busy == Linked \cup {"Connecting"}

(* How far the manager's state lags behind the firmware's station: by the  *)
(* indications in the queue, or by one that was dropped.                   *)
Lag ==
  /\ state \notin Busy => fw \in {"gone", "off"} /\ NoInd(mq)
  /\ state = "Connecting" =>
       \/ fw = "joining" /\ NoInd(mq)
       \/ fw = "up" /\ (OneInd(mq, "IND_CONNECTED") \/ (lost /\ NoInd(mq)))
       \/ fw = "leaving" /\ (OneInd(mq, "IND_CONNECTED") \/ NoInd(mq))
       \/ fw \in {"gone", "off"} /\ (OneInd(mq, "IND_DISCONNECT") \/ BothInd(mq))
       \/ fw \in {"gone", "off"} /\ lost /\ (OneInd(mq, "IND_CONNECTED") \/ NoInd(mq))
  /\ state \in Linked =>
       \/ fw \in {"up", "leaving"} /\ NoInd(mq)
       \/ /\ fw \in {"gone", "off"}
          /\ OneInd(mq, "IND_DISCONNECT") \/ (lost /\ NoInd(mq))

(* There is a profile wherever one will be needed. *)
ProfilesSet ==
  /\ state \in Busy \cup {"Disconnect"} => profiles[0] # NoProfile
  /\ "CONNECT" \in pending => profiles[1] # NoProfile

(* The station's interface is the only one. *)
OneSta ==
  \A i \in 0..1 : fwVif[i] = "STA" => state \in Busy \cup {"Disconnect"} /\ i = staIdx

(* The interfaces, as long as the access point is stopped only while it runs. *)
VifSound == stray \/ (VifIntact /\ OneSta)

(* A report of an address is about the present one, or about one that was  *)
(* reset when the link ended, or is dropped before the next message is     *)
(* taken.                                                                  *)
GotIsFresh ==
  "IP_GOT" \in pending =>
    \/ addr # "none"
    \/ state \in Linked /\ fw = "off"
    \/ mpc = "pending" /\ state \notin Linked

(* With an address, or about to learn that there is none.                  *)
YesIsTold ==
  state = "IPYes" /\ "CONNECT" \notin pending =>
    addr # "none" \/ "IP_UPDATE" \in pending \/ fw = "off"

AddrSound == GotIsFresh /\ YesIsTold

IInv ==
  /\ TypeOK /\ Lag /\ TimersMatchState /\ ProfilesSet
  /\ NeverStranded /\ RetryUsesDefault /\ RetryFirst(mq)
  /\ EndsWithLink /\ WakeupNotLost
  /\ VifSound
-----------------------------------------------------------------------------
(* What the queue predicates say after a message was taken or posted. *)

(* Taking the first message: what is left, and what was there before. *)
LEMMA TailQueue ==
  ASSUME NEW q \in Seq(Message), q # <<>>
  PROVE  /\ Head(q) \in Message
         /\ Tail(q) \in Seq(Message) /\ Len(Tail(q)) = Len(q) - 1
         /\ \A ev : In(q, ev) <=> Head(q).ev = ev \/ In(Tail(q), ev)
         /\ NoInd(q) <=> ~IsInd(Head(q)) /\ NoInd(Tail(q))
         /\ RetryFirst(q) => RetryFirst(Tail(q))
         /\ RetryFirst(q) /\ Head(q).ev = "IND_DISCONNECT" => ~In(Tail(q), "RECONNECT")
<1> DEFINE t == Tail(q)
<1>1. Head(q) \in Message /\ t \in Seq(Message) /\ Len(t) = Len(q) - 1
  BY HeadTailProperties
<1>2. Len(q) \in Nat \ {0} /\ DOMAIN q = 1 .. Len(q) /\ DOMAIN t = 1 .. Len(q) - 1
  BY <1>1, EmptySeq, LenProperties
<1>3. Head(q) = q[1] /\ \A i \in DOMAIN t : i + 1 \in DOMAIN q /\ t[i] = q[i + 1]
  BY <1>2, HeadTailProperties
<1>4. \A i \in DOMAIN q : i = 1 \/ (i - 1 \in DOMAIN t /\ t[i - 1] = q[i])
  BY <1>2, <1>3
<1> HIDE DEF t
<1>5. \A ev : In(q, ev) <=> Head(q).ev = ev \/ In(t, ev)
  BY <1>2, <1>3, <1>4 DEF In
<1>6. NoInd(q) <=> ~IsInd(Head(q)) /\ NoInd(t)
  BY <1>2, <1>3, <1>4 DEF NoInd
<1>7. RetryFirst(q) => RetryFirst(t)
  BY <1>2, <1>3 DEF RetryFirst
<1>8. RetryFirst(q) /\ Head(q).ev = "IND_DISCONNECT" => ~In(t, "RECONNECT")
  BY <1>2, <1>3 DEF RetryFirst, In
<1> QED
  BY <1>1, <1>5, <1>6, <1>7, <1>8 DEF t

(* Taking the first message: where the indications are afterwards. *)
LEMMA TailIndications ==
  ASSUME NEW q \in Seq(Message), q # <<>>
  PROVE  /\ ~IsInd(Head(q)) => /\ \A ev \in Ind : OneInd(q, ev) => OneInd(Tail(q), ev)
                               /\ BothInd(q) => BothInd(Tail(q))
         /\ IsInd(Head(q)) =>
              /\ \A ev \in Ind : OneInd(q, ev) => Head(q).ev = ev /\ NoInd(Tail(q))
              /\ BothInd(q) => /\ Head(q).ev = "IND_CONNECTED"
                               /\ OneInd(Tail(q), "IND_DISCONNECT")
<1> DEFINE t == Tail(q)
<1>1. t \in Seq(Message) /\ Len(t) = Len(q) - 1
  BY HeadTailProperties
<1>2. Len(q) \in Nat \ {0} /\ DOMAIN q = 1 .. Len(q) /\ DOMAIN t = 1 .. Len(q) - 1
  BY <1>1, EmptySeq, LenProperties
<1>3. Head(q) = q[1] /\ \A i \in DOMAIN t : i + 1 \in DOMAIN q /\ t[i] = q[i + 1]
  BY <1>2, HeadTailProperties
<1>4. \A i \in DOMAIN q : i = 1 \/ (i - 1 \in DOMAIN t /\ t[i - 1] = q[i])
  BY <1>2, <1>3
<1> HIDE DEF t
<1>5. ASSUME ~IsInd(Head(q)), NEW ev \in Ind, OneInd(q, ev) PROVE OneInd(t, ev)
  <2>1. PICK i \in DOMAIN q : q[i].ev = ev /\ \A j \in DOMAIN q : IsInd(q[j]) => j = i
    BY <1>5 DEF OneInd
  <2>2. i # 1
    BY <1>5, <2>1, <1>3 DEF IsInd
  <2>3. i - 1 \in DOMAIN t /\ t[i - 1].ev = ev
    BY <1>4, <2>1, <2>2
  <2>4. \A j \in DOMAIN t : IsInd(t[j]) => j = i - 1
    BY <1>2, <1>3, <2>1
  <2> QED
    BY <2>3, <2>4 DEF OneInd
<1>6. ASSUME ~IsInd(Head(q)), BothInd(q) PROVE BothInd(t)
  <2>1. PICK i \in DOMAIN q, k \in DOMAIN q :
          /\ i < k /\ q[i].ev = "IND_CONNECTED" /\ q[k].ev = "IND_DISCONNECT"
          /\ \A j \in DOMAIN q : IsInd(q[j]) => j \in {i, k}
    BY <1>6 DEF BothInd
  <2>2. i # 1 /\ k # 1
    BY <1>6, <2>1, <1>3 DEF IsInd, Ind
  <2>3. /\ i - 1 \in DOMAIN t /\ t[i - 1].ev = "IND_CONNECTED"
        /\ k - 1 \in DOMAIN t /\ t[k - 1].ev = "IND_DISCONNECT"
        /\ i - 1 < k - 1
    BY <1>2, <1>4, <2>1, <2>2
  <2>4. \A j \in DOMAIN t : IsInd(t[j]) => j \in {i - 1, k - 1}
    BY <1>2, <1>3, <2>1
  <2> QED
    BY <2>3, <2>4 DEF BothInd
<1>7. ASSUME IsInd(Head(q)), NEW ev \in Ind, OneInd(q, ev)
      PROVE  Head(q).ev = ev /\ NoInd(t)
  <2>1. PICK i \in DOMAIN q : q[i].ev = ev /\ \A j \in DOMAIN q : IsInd(q[j]) => j = i
    BY <1>7 DEF OneInd
  <2>2. i = 1
    BY <1>2, <1>3, <1>7, <2>1
  <2> QED
    BY <1>2, <1>3, <2>1, <2>2 DEF NoInd
<1>8. ASSUME IsInd(Head(q)), BothInd(q)
      PROVE  Head(q).ev = "IND_CONNECTED" /\ OneInd(t, "IND_DISCONNECT")
  <2>1. PICK i \in DOMAIN q, k \in DOMAIN q :
          /\ i < k /\ q[i].ev = "IND_CONNECTED" /\ q[k].ev = "IND_DISCONNECT"
          /\ \A j \in DOMAIN q : IsInd(q[j]) => j \in {i, k}
    BY <1>8 DEF BothInd
  <2>2. i = 1 /\ k # 1
    BY <1>2, <1>3, <1>8, <2>1
  <2>3. k - 1 \in DOMAIN t /\ t[k - 1].ev = "IND_DISCONNECT"
    BY <1>4, <2>1, <2>2
  <2>4. \A j \in DOMAIN t : IsInd(t[j]) => j = k - 1
    BY <1>2, <1>3, <2>1, <2>2
  <2> QED
    BY <1>3, <2>1, <2>2, <2>3, <2>4 DEF OneInd
<1> QED
  BY <1>5, <1>6, <1>7, <1>8 DEF t

(* Posting a message: types, the messages found afterwards, the            *)
(* indications, and the order of reconnects and ends of connections.       *)
LEMMA PostQueue ==
  ASSUME NEW q \in Seq(Message), Len(q) <= MqCount, NEW m \in Message
  PROVE  /\ Post(q, m) \in Seq(Message) /\ Len(Post(q, m)) <= MqCount
         /\ Post(q, m) # <<>>
         /\ \A ev : In(q, ev) => In(Post(q, m), ev)
         /\ \A ev : In(Post(q, m), ev) => In(q, ev) \/ m.ev = ev
         /\ ~Full(q) => In(Post(q, m), m.ev)
         /\ ~IsInd(m) => /\ NoInd(q) => NoInd(Post(q, m))
                         /\ \A ev \in Ind : OneInd(q, ev) => OneInd(Post(q, m), ev)
                         /\ BothInd(q) => BothInd(Post(q, m))
         /\ ~Full(q) /\ IsInd(m) /\ NoInd(q) => OneInd(Post(q, m), m.ev)
         /\ ~Full(q) /\ m.ev = "IND_DISCONNECT" /\ OneInd(q, "IND_CONNECTED")
              => BothInd(Post(q, m))
         /\ Full(q) => Post(q, m) = q
         /\ RetryFirst(q) /\ (m.ev # "RECONNECT" \/ NoInd(q)) => RetryFirst(Post(q, m))
<1> DEFINE p == Append(q, m)
<1>1. Len(q) \in Nat /\ DOMAIN q = 1 .. Len(q)
  BY LenProperties
<1>2. p \in Seq(Message) /\ Len(p) = Len(q) + 1 /\ DOMAIN p = 1 .. Len(q) + 1
  BY AppendProperties, LenProperties
<1>3. p[Len(q) + 1] = m /\ \A i \in DOMAIN q : i \in DOMAIN p /\ p[i] = q[i]
  BY <1>1, <1>2, AppendProperties
<1>4. \A i \in DOMAIN p : i \in DOMAIN q \/ i = Len(q) + 1
  BY <1>1, <1>2
<1> HIDE DEF p
<1>5. CASE Full(q)
  <2>1. Post(q, m) = q /\ q # <<>>
    BY <1>5, <1>1, MgmrAssumption, EmptySeq DEF Post, Full
  <2> QED
    BY <1>5, <2>1
<1>6. CASE ~Full(q)
  <2>1. Post(q, m) = p
    BY <1>6 DEF Post, p
  <2>2. Len(p) <= MqCount /\ p # <<>>
    BY <1>1, <1>2, <1>6, MgmrAssumption, EmptySeq DEF Full
  <2>3. \A ev : In(p, ev) <=> In(q, ev) \/ m.ev = ev
    BY <1>1, <1>2, <1>3, <1>4 DEF In
  <2>4. ASSUME ~IsInd(m), NoInd(q) PROVE NoInd(p)
    BY <2>4, <1>3, <1>4 DEF NoInd
  <2>5. ASSUME ~IsInd(m), NEW ev \in Ind, OneInd(q, ev) PROVE OneInd(p, ev)
    <3>1. PICK i \in DOMAIN q : q[i].ev = ev /\ \A j \in DOMAIN q : IsInd(q[j]) => j = i
      BY <2>5 DEF OneInd
    <3>2. \A j \in DOMAIN p : IsInd(p[j]) => j = i
      BY <1>3, <1>4, <2>5, <3>1
    <3> QED
      BY <1>3, <3>1, <3>2 DEF OneInd
  <2>6. ASSUME ~IsInd(m), BothInd(q) PROVE BothInd(p)
    <3>1. PICK i \in DOMAIN q, k \in DOMAIN q :
            /\ i < k /\ q[i].ev = "IND_CONNECTED" /\ q[k].ev = "IND_DISCONNECT"
            /\ \A j \in DOMAIN q : IsInd(q[j]) => j \in {i, k}
      BY <2>6 DEF BothInd
    <3>2. \A j \in DOMAIN p : IsInd(p[j]) => j \in {i, k}
      BY <1>3, <1>4, <2>6, <3>1
    <3> QED
      BY <1>3, <3>1, <3>2 DEF BothInd
  <2>7. ASSUME IsInd(m), NoInd(q) PROVE OneInd(p, m.ev)
    BY <2>7, <1>1, <1>2, <1>3, <1>4 DEF NoInd, OneInd
  <2>8. ASSUME m.ev = "IND_DISCONNECT", OneInd(q, "IND_CONNECTED") PROVE BothInd(p)
    <3>1. PICK i \in DOMAIN q :
            q[i].ev = "IND_CONNECTED" /\ \A j \in DOMAIN q : IsInd(q[j]) => j = i
      BY <2>8 DEF OneInd
    <3>2. \A j \in DOMAIN p : IsInd(p[j]) => j \in {i, Len(q) + 1}
      BY <1>3, <1>4, <3>1
    <3>3. i < Len(q) + 1 /\ Len(q) + 1 \in DOMAIN p
      BY <1>1, <1>2
    <3> QED
      BY <1>3, <2>8, <3>1, <3>2, <3>3 DEF BothInd
  <2>9. ASSUME RetryFirst(q), m.ev # "RECONNECT" \/ NoInd(q) PROVE RetryFirst(p)
    <3>1. SUFFICES ASSUME NEW i \in DOMAIN p, NEW j \in DOMAIN p,
                          p[i].ev = "IND_DISCONNECT", p[j].ev = "RECONNECT"
                   PROVE  j < i
      BY DEF RetryFirst
    <3>2. CASE i \in DOMAIN q
      <4>1. m.ev # "RECONNECT"
        BY <1>3, <2>9, <3>1, <3>2 DEF NoInd, IsInd, Ind
      <4>2. j \in DOMAIN q
        BY <1>3, <1>4, <3>1, <4>1
      <4> QED
        BY <1>3, <2>9, <3>1, <3>2, <4>2 DEF RetryFirst
    <3>3. CASE i = Len(q) + 1
      BY <1>1, <1>3, <1>4, <3>1, <3>3
    <3> QED
      BY <1>4, <3>2, <3>3
  <2> QED
    BY <1>2, <1>6, <2>1, <2>2, <2>3, <2>4, <2>5, <2>6, <2>7, <2>8, <2>9
<1> QED
  BY <1>5, <1>6

(* The messages posted are messages. *)
LEMMA Messages ==
  /\ \A ev \in Internal \cup {"DISCONNECT", "IDLE", "WAKEUP", "TRIGGER"} :
       Msg(ev) \in Message /\ Msg(ev).ev = ev
  BY DEF Msg, Message, Op

(* r is q with messages added that are neither indications nor reconnects. *)
Quiet(q, r) ==
  /\ r \in Seq(Message) /\ Len(r) <= MqCount
  /\ q # <<>> => r # <<>>
  /\ \A ev : In(q, ev) => In(r, ev)
  /\ In(r, "RECONNECT") => In(q, "RECONNECT")
  /\ NoInd(q) => NoInd(r)
  /\ \A ev \in Ind : OneInd(q, ev) => OneInd(r, ev)
  /\ BothInd(q) => BothInd(r)
  /\ RetryFirst(q) => RetryFirst(r)

(* Posting a message that is neither an indication nor a reconnect. *)
LEMMA QuietPost ==
  ASSUME NEW q \in Seq(Message), Len(q) <= MqCount, NEW m \in Message,
         m.ev \notin Ind \cup {"RECONNECT"}
  PROVE  Quiet(q, Post(q, m)) /\ Post(q, m) # <<>>
  BY PostQueue DEF Quiet, IsInd

(* Posting nothing. *)
LEMMA QuietSame ==
  ASSUME NEW q \in Seq(Message), Len(q) <= MqCount
  PROVE  Quiet(q, q)
  BY DEF Quiet

(* Posting more than once. *)
LEMMA QuietTwice ==
  ASSUME NEW q, NEW r, NEW s, Quiet(q, r), Quiet(r, s)
  PROVE  Quiet(q, s)
  BY DEF Quiet

(* Posting wake-ups. *)
LEMMA QuietWakeups ==
  ASSUME NEW q \in Seq(Message), Len(q) <= MqCount, NEW n \in 0..2
  PROVE  Quiet(q, Wakeups(q, n)) /\ (n # 0 => Wakeups(q, n) # <<>>)
<1> DEFINE m == Msg("WAKEUP")
<1>1. m \in Message /\ m.ev \notin Ind \cup {"RECONNECT"}
  BY Messages DEF Ind
<1> HIDE DEF m
<1>2. n = 0 \/ n = 1 \/ n = 2
  OBVIOUS
<1>3. CASE n = 0
  BY <1>3, QuietSame DEF Wakeups
<1>4. CASE n = 1
  BY <1>1, <1>4, QuietPost DEF Wakeups, m
<1>5. CASE n = 2
  <2>1. Quiet(q, Post(q, m))
    BY <1>1, QuietPost
  <2>2. Quiet(Post(q, m), Post(Post(q, m), m)) /\ Post(Post(q, m), m) # <<>>
    BY <1>1, <2>1, QuietPost DEF Quiet
  <2> QED
    BY <1>5, <2>1, <2>2, QuietTwice DEF Wakeups, m
<1> QED
  BY <1>2, <1>3, <1>4, <1>5

(* The messages handlers, timers, callbacks and applications post. *)
LEMMA QuietSteps ==
  ASSUME QueueOK
  PROVE  /\ connect_pending \/ ind_connected \/ ind_join_failed \/ ind_link_lost
              => Quiet(Tail(mq), mq')
         /\ ip_obtaining_timeout \/ trigger_auto_denoise => Quiet(mq, mq')
         /\ pending_ip_update \/ dhcp_bound \/ dhcp_lease_lost \/ rx_sm_disconnect_ind
              => Quiet(mq, mq')
         /\ \A op \in AppOp : App(op) => Quiet(mq, mq')
<1> DEFINE t == Tail(mq)
<1>1. mq \in Seq(Message) /\ Len(mq) <= MqCount
  BY DEF QueueOK
<1>2. mq # <<>> => t \in Seq(Message) /\ Len(t) <= MqCount
  <2>1. Len(mq) \in Nat /\ MqCount \in Nat
    BY <1>1, LenProperties, MgmrAssumption
  <2> QED
    BY <1>1, <2>1, TailQueue
<1>3. Quiet(mq, mq)
  BY <1>1, QuietSame
<1>4. ASSUME
             NEW ev \in (Op \ {"CONNECT", "IP_SET", "IP_UNSET"}) \cup {"FW_DISCONNECT", "TRIGGER"}
      PROVE  Msg(ev) \in Message /\ Msg(ev).ev \notin Ind \cup {"RECONNECT"}
  BY DEF Msg, Message, Op, Internal, Ind
<1>5. ASSUME mq # <<>>
      PROVE  /\ Quiet(t, t)
             /\ Quiet(t, Post(t, Msg("DISCONNECT"))) /\ Quiet(t, Post(t, Msg("IDLE")))
             /\ \A n \in 0..2 : Quiet(t, Wakeups(t, n))
  BY <1>2, <1>4, <1>5, QuietSame, QuietPost, QuietWakeups DEF Op
<1>6. ASSUME mq # <<>>
      PROVE  \A n \in 0..2 : Quiet(t, Post(Wakeups(t, n), Msg("IDLE")))
  <2> SUFFICES ASSUME NEW n \in 0..2 PROVE Quiet(t, Post(Wakeups(t, n), Msg("IDLE")))
    OBVIOUS
  <2>1. Quiet(t, Wakeups(t, n))
    BY <1>5, <1>6
  <2>2. Quiet(Wakeups(t, n), Post(Wakeups(t, n), Msg("IDLE")))
    BY <1>4, <2>1, QuietPost DEF Quiet, Op
  <2> QED
    BY <2>1, <2>2, QuietTwice
<1>7. /\ Quiet(mq, Post(mq, Msg("DISCONNECT")))
      /\ \A n \in 0..2 : Quiet(mq, Wakeups(mq, n))
  BY <1>1, <1>4, QuietPost, QuietWakeups DEF Op
<1>8. (IF "IP_UPDATE" \in SetupBits THEN 1 ELSE 0) + (IF "IP_GOT" \in SetupBits THEN 1 ELSE 0)
        \in 0..2
  OBVIOUS
<1> HIDE DEF t
<1>9. ASSUME connect_pending PROVE Quiet(t, mq')
  BY <1>5, <1>9 DEF connect_pending, Recv, wifi_mgmr_event_notify, t
<1>10. ASSUME ind_connected PROVE Quiet(t, mq')
  BY <1>5, <1>8, <1>10
  DEF ind_connected, Recv, stateConnectedIPNoEnter, wifi_mgmr_event_notify, t
<1>11. ASSUME ind_join_failed PROVE Quiet(t, mq')
  BY <1>5, <1>11
  DEF ind_join_failed, Recv, stateDisconnect_enter, wifi_mgmr_event_notify, t
<1>12. ASSUME ind_link_lost PROVE Quiet(t, mq')
  <2>1. (IF ClearBits = {} THEN 0 ELSE 1) \in 0..2
    OBVIOUS
  <2> QED
    BY <1>5, <1>6, <1>12, <2>1
    DEF ind_link_lost, Recv, stateDisconnect_enter, wifi_mgmr_event_notify, t
<1>13. ASSUME ip_obtaining_timeout PROVE Quiet(mq, mq')
  BY <1>1, <1>4, <1>13, QuietPost DEF ip_obtaining_timeout, wifi_mgmr_event_notify
<1>14. ASSUME trigger_auto_denoise PROVE Quiet(mq, mq')
  BY <1>1, <1>3, <1>4, <1>14, QuietPost DEF trigger_auto_denoise
<1>15. ASSUME pending_ip_update PROVE Quiet(mq, mq')
  BY <1>3, <1>7, <1>8, <1>15
  DEF pending_ip_update, stateConnectedIPNoEnter, wifi_mgmr_event_notify
<1>16. ASSUME dhcp_bound \/ dhcp_lease_lost \/ rx_sm_disconnect_ind
       PROVE  Quiet(mq, mq')
  BY <1>3, <1>7, <1>16
  DEF dhcp_bound, dhcp_lease_lost, rx_sm_disconnect_ind, netif_status_callback
<1>17. ASSUME NEW op \in AppOp, App(op) PROVE Quiet(mq, mq')
  <2>1. CASE op \in {"IP_SET", "IP_UNSET"}
    BY <1>7, <1>17, <2>1 DEF App, sta_ip_set
  <2>2. CASE op = "CONNECT"
    <3>1. PICK p \in Profile : mq' = Post(mq, [ev |-> "CONNECT", prof |-> p])
      BY <1>17, <2>2 DEF App, sta_connect
    <3>2. /\ [ev |-> "CONNECT", prof |-> p] \in Message
          /\ [ev |-> "CONNECT", prof |-> p].ev \notin Ind \cup {"RECONNECT"}
      BY DEF Message, Ind
    <3> QED
      BY <1>1, <3>1, <3>2, QuietPost
  <2>3. CASE op \notin {"IP_SET", "IP_UNSET", "CONNECT"}
    <3>1. mq' = Post(mq, Msg(op))
      BY <1>17, <2>3 DEF App, api_common
    <3>2. op \in Op
      BY MgmrAssumption
    <3> QED
      BY <1>1, <1>4, <2>3, <3>1, <3>2, QuietPost
  <2> QED
    BY <2>1, <2>2, <2>3
<1> QED
  BY <1>9, <1>10, <1>11, <1>12, <1>13, <1>14, <1>15, <1>16, <1>17 DEF t

(* What is left of the queue once a message was taken. *)
LEMMA Taken ==
  ASSUME QueueOK, mq # <<>>
  PROVE  /\ Tail(mq) \in Seq(Message) /\ Len(Tail(mq)) <= MqCount
         /\ Head(mq) \in Message
         /\ Quiet(Tail(mq), Tail(mq))
<1>1. Len(mq) \in Nat /\ MqCount \in Nat
  BY LenProperties, MgmrAssumption DEF QueueOK
<1>2. Tail(mq) \in Seq(Message) /\ Len(Tail(mq)) <= MqCount /\ Head(mq) \in Message
  BY <1>1, TailQueue DEF QueueOK
<1> QED
  BY <1>2, QuietSame

(* A request to connect carries a profile. *)
LEMMA RequestedProfile ==
  ASSUME NEW m \in Message, m.ev = "CONNECT"
  PROVE  m.prof \in Profile
  BY DEF Message, Op, Internal

(* use_dhcp is a flag. *)
LEMMA UseDhcpBool == DataOK => UseDhcp \in BOOLEAN
  BY MgmrAssumption DEF DataOK, UseDhcp

(* When the manager reconnects, the profile the timer chose is the default. *)
LEMMA RetryReady ==
  ASSUME IInv, mq # <<>>, Head(mq).ev = "RECONNECT", state = "Disconnect"
  PROVE  /\ retryMsg = profiles[0] /\ retryMsg \in Profile
         /\ retryMsg.ttl \in Int /\ retryMsg.ttl >= -1
<1>1. In(mq, "RECONNECT")
  BY TailQueue DEF IInv, TypeOK, QueueOK
<1>2. retryMsg = profiles[0]
  BY <1>1 DEF IInv, RetryUsesDefault, Queued, In
<1>3. retryMsg \in Profile
  BY <1>2 DEF IInv, ProfilesSet, TypeOK, DataOK
<1> QED
  BY <1>2, <1>3, MgmrAssumption

(* The messages other than the indications, and how their handlers leave   *)
(* the queue: without the message, with what they post.                    *)
Request ==
  \/ connect_pending \/ connect_start \/ connect_refused \/ reconnect \/ disconnect_joining
  \/ disconnect_linked \/ fw_disconnect \/ idle \/ disable_autoreconnect
  \/ enable_autoreconnect \/ fw_scan \/ sniffer \/ phy_up \/ ap_start \/ ap_stop \/ denoise
  \/ forward \/ ignore

(* r follows q in a step that neither reports nor handles an indication. *)
Kept(q, r) ==
  /\ NoInd(q) => NoInd(r)
  /\ \A ev \in Ind : OneInd(q, ev) => OneInd(r, ev)
  /\ BothInd(q) => BothInd(r)
  /\ In(r, "RECONNECT") => In(q, "RECONNECT")
  /\ RetryFirst(q) => RetryFirst(r)

(* Such a handler takes the first message and posts quietly. *)
LEMMA RequestTaken ==
  ASSUME QueueOK, Request
  PROVE  mq # <<>> /\ Quiet(Tail(mq), mq')
<1>1. CASE connect_pending
  BY <1>1, QuietSteps DEF connect_pending, Recv
<1>2. CASE connect_start
  BY <1>2, Taken DEF connect_start, RecvOnly, Recv
<1>3. CASE connect_refused
  BY <1>3, Taken DEF connect_refused, RecvOnly, Recv
<1>4. CASE reconnect
  BY <1>4, Taken DEF reconnect, RecvOnly, Recv
<1>5. CASE disconnect_joining
  BY <1>5, Taken DEF disconnect_joining, RecvOnly, Recv
<1>6. CASE disconnect_linked
  BY <1>6, Taken DEF disconnect_linked, RecvOnly, Recv
<1>7. CASE fw_disconnect
  BY <1>7, Taken DEF fw_disconnect, RecvOnly, Recv
<1>8. CASE idle
  BY <1>8, Taken DEF idle, RecvOnly, Recv
<1>9. CASE disable_autoreconnect
  BY <1>9, Taken DEF disable_autoreconnect, RecvOnly, Recv
<1>10. CASE enable_autoreconnect
  BY <1>10, Taken DEF enable_autoreconnect, RecvOnly, Recv
<1>11. CASE fw_scan
  BY <1>11, Taken DEF fw_scan, RecvOnly, Recv
<1>12. CASE sniffer \/ phy_up
  BY <1>12, Taken DEF sniffer, phy_up, RecvOnly, Recv
<1>13. CASE ap_start \/ ap_stop
  BY <1>13, Taken DEF ap_start, ap_stop, RecvOnly, Recv
<1>14. CASE denoise \/ forward
  BY <1>14, Taken DEF denoise, forward, RecvOnly, Recv
<1>15. CASE ignore
  BY <1>15, Taken DEF ignore
<1> QED
  BY <1>1, <1>2, <1>3, <1>4, <1>5, <1>6, <1>7, <1>8, <1>9, <1>10, <1>11, <1>12, <1>13,
     <1>14, <1>15
  DEF Request

(* None of these messages is an indication: one that is ignored would have *)
(* to be one the state does not lag behind by.                             *)
LEMMA RequestIsNoInd ==
  ASSUME IInv, Request
  PROVE  ~IsInd(Head(mq))
<1>1. CASE ~ignore
  BY <1>1
  DEF Request, connect_pending, connect_start, connect_refused, reconnect,
      disconnect_joining, disconnect_linked, fw_disconnect, idle,
      disable_autoreconnect, enable_autoreconnect, fw_scan, sniffer, phy_up, ap_start,
      ap_stop, denoise, forward, RecvOnly, Recv, IsInd, Ind
<1>2. CASE ignore
  <2>1. mq \in Seq(Message) /\ mq # <<>> /\ Ignored(Head(mq))
    BY <1>2 DEF ignore, IInv, TypeOK, QueueOK
  <2>2. ASSUME IsInd(Head(mq)) PROVE FALSE
    <3>1. ~NoInd(mq)
      BY <2>1, <2>2, TailQueue
    <3>2. OneInd(mq, "IND_DISCONNECT") => Head(mq).ev = "IND_DISCONNECT"
      BY <2>1, <2>2, TailIndications DEF Ind
    <3>3. Head(mq).ev \in Ind
      BY <2>2 DEF IsInd
    <3> QED
      BY <2>1, <3>1, <3>2, <3>3
      DEF Ignored, LinkedStates, Ind, IInv, Lag, Busy, Linked, TypeOK, DataOK, State
  <2> QED
    BY <2>2
<1> QED
  BY <1>1, <1>2

(* So it leaves the indications where they are. *)
LEMMA RequestKeeps ==
  ASSUME IInv, Request
  PROVE  /\ Kept(mq, mq')
         /\ \A ev : In(mq, ev) => In(mq', ev) \/ Head(mq).ev = ev
<1>1. mq \in Seq(Message) /\ mq # <<>> /\ Quiet(Tail(mq), mq') /\ ~IsInd(Head(mq))
  BY RequestTaken, RequestIsNoInd DEF IInv, TypeOK, QueueOK
<1> QED
  BY <1>1, TailQueue, TailIndications DEF Quiet, Kept

(* The steps of others that report no indication. *)
LEMMA OthersKeep ==
  ASSUME IInv, \/ handle_pending_task \/ ip_obtaining_timeout \/ trigger_auto_denoise
               \/ rx_sm_disconnect_ind \/ dhcp_bound \/ dhcp_lease_lost
               \/ \E op \in AppOp : App(op)
  PROVE  /\ Kept(mq, mq')
         /\ \A ev : In(mq, ev) => In(mq', ev)
<1>1. CASE ~handle_pending_task
  BY <1>1, QuietSteps DEF Quiet, Kept, IInv, TypeOK
<1>2. CASE handle_pending_task
  <2>1. CASE pending_ip_update
    BY <2>1, QuietSteps DEF Quiet, Kept, IInv, TypeOK
  <2>2. CASE ~pending_ip_update
    <3>1. mq' = mq
      BY <1>2, <2>2
      DEF handle_pending_task, pending_connect, pending_ip_got, pending_none
    <3> QED
      BY <3>1 DEF Kept
  <2> QED
    BY <2>1, <2>2
<1> QED
  BY <1>1, <1>2

(* What the handler of an indication finds and leaves. *)
LEMMA IndicationTaken ==
  ASSUME IInv, ind_connected \/ ind_join_failed \/ ind_link_lost
  PROVE  /\ ind_connected => Head(mq).ev = "IND_CONNECTED"
         /\ ind_join_failed \/ ind_link_lost => Head(mq).ev = "IND_DISCONNECT"
         /\ ~NoInd(mq)
         /\ \A ev \in Ind : OneInd(mq, ev) => Head(mq).ev = ev /\ NoInd(mq')
         /\ BothInd(mq) =>
              Head(mq).ev = "IND_CONNECTED" /\ OneInd(mq', "IND_DISCONNECT")
         /\ In(mq', "RECONNECT") =>
              In(mq, "RECONNECT") /\ Head(mq).ev # "IND_DISCONNECT"
         /\ RetryFirst(mq')
<1>1. mq \in Seq(Message) /\ mq # <<>> /\ Quiet(Tail(mq), mq') /\ RetryFirst(mq)
  BY QuietSteps
  DEF ind_connected, ind_join_failed, ind_link_lost, Recv, IInv, TypeOK, QueueOK
<1>2. /\ ind_connected => Head(mq).ev = "IND_CONNECTED"
      /\ ind_join_failed \/ ind_link_lost => Head(mq).ev = "IND_DISCONNECT"
  BY DEF ind_connected, ind_join_failed, ind_link_lost, Recv
<1>3. IsInd(Head(mq))
  BY <1>2 DEF IsInd, Ind
<1>4. ~NoInd(mq)
  BY <1>1, <1>3, TailQueue
<1>5. /\ \A ev \in Ind : OneInd(mq, ev) => Head(mq).ev = ev /\ NoInd(Tail(mq))
      /\ BothInd(mq) =>
           Head(mq).ev = "IND_CONNECTED" /\ OneInd(Tail(mq), "IND_DISCONNECT")
  BY <1>1, <1>3, TailIndications
<1>6. /\ In(Tail(mq), "RECONNECT") =>
           In(mq, "RECONNECT") /\ Head(mq).ev # "IND_DISCONNECT"
      /\ RetryFirst(Tail(mq))
  BY <1>1, TailQueue
<1>7. "IND_DISCONNECT" \in Ind
  BY DEF Ind
<1> QED
  BY <1>1, <1>2, <1>4, <1>5, <1>6, <1>7 DEF Quiet

(* A message posted to a queue that is not full is in it. *)
LEMMA PostedIn ==
  ASSUME NEW q \in Seq(Message), Len(q) <= MqCount, ~Full(q),
         NEW ev \in Internal \cup {"DISCONNECT", "IDLE", "WAKEUP", "TRIGGER"}
  PROVE  In(Post(q, Msg(ev)), ev)
<1>1. Msg(ev) \in Message /\ Msg(ev).ev = ev
  BY Messages
<1>2. In(Post(q, Msg(ev)), Msg(ev).ev)
  BY <1>1, PostQueue
<1> QED
  BY <1>1, <1>2

-----------------------------------------------------------------------------
(* One lemma per part of the invariant, one step per action. *)

(* The flags stay flags. *)
LEMMA FlagsStep == IInv /\ [Next]_vars => FlagsOK'
<1> SUFFICES ASSUME IInv, [Next]_vars PROVE FlagsOK'
  OBVIOUS
<1>1. CASE connect_pending
  BY <1>1
  DEF connect_pending, Recv, wifi_mgmr_event_notify, vifVars, ipVars, denoiseVars,
      IInv, TypeOK, FlagsOK
<1>2. CASE connect_start
  BY <1>2
  DEF connect_start, RecvOnly, Recv, CancelRetry, vifVars, ipVars, denoiseVars, IInv,
      TypeOK, FlagsOK
<1>3. CASE connect_refused
  BY <1>3
  DEF connect_refused, RecvOnly, Recv, vifVars, ipVars, denoiseVars, IInv, TypeOK,
      FlagsOK
<1>4. CASE ind_connected
  BY <1>4, UseDhcpBool
  DEF ind_connected, Recv, stateConnectedIPNoEnter, wifi_mgmr_event_notify,
      sta_setup_ip, SetupBits, AddrAfterStop, vifVars, ipVars, denoiseVars, IInv,
      TypeOK, FlagsOK
<1>5. CASE ind_join_failed
  BY <1>5
  DEF ind_join_failed, Recv, wifi_mgmr_event_notify, stateDisconnect_enter, vifVars,
      ipVars, denoiseVars, IInv, TypeOK, FlagsOK
<1>6. CASE ind_link_lost
  BY <1>6
  DEF ind_link_lost, Recv, wifi_mgmr_event_notify, LinkedStates,
      stateConnectedIPYes_exit, ClearAddress, ClearBits, stateDisconnect_enter,
      vifVars, IInv, TypeOK, FlagsOK
<1>7. CASE reconnect
  BY <1>7
  DEF reconnect, RecvOnly, Recv, CancelRetry, vifVars, ipVars, denoiseVars, IInv,
      TypeOK, FlagsOK
<1>8. CASE disconnect_joining
  BY <1>8
  DEF disconnect_joining, RecvOnly, Recv, vifVars, ipVars, denoiseVars, IInv, TypeOK,
      FlagsOK
<1>9. CASE disconnect_linked
  BY <1>9
  DEF disconnect_linked, RecvOnly, Recv, vifVars, ipVars, denoiseVars, IInv, TypeOK,
      FlagsOK
<1>10. CASE fw_disconnect
  BY <1>10
  DEF fw_disconnect, RecvOnly, Recv, vifVars, ipVars, denoiseVars, IInv, TypeOK,
      FlagsOK
<1>11. CASE idle
  BY <1>11
  DEF idle, RecvOnly, Recv, CancelRetry, bl_main_if_remove_sta, vifVars, ipVars,
      denoiseVars, IInv, TypeOK, FlagsOK
<1>12. CASE disable_autoreconnect
  BY <1>12
  DEF disable_autoreconnect, RecvOnly, Recv, CancelRetry, bl_main_if_remove_sta,
      vifVars, ipVars, denoiseVars, IInv, TypeOK, FlagsOK
<1>13. CASE enable_autoreconnect
  BY <1>13
  DEF enable_autoreconnect, RecvOnly, Recv, vifVars, ipVars, denoiseVars, IInv,
      TypeOK, FlagsOK
<1>14. CASE fw_scan
  BY <1>14
  DEF fw_scan, RecvOnly, Recv, vifVars, ipVars, denoiseVars, IInv, TypeOK, FlagsOK
<1>15. CASE sniffer
  BY <1>15
  DEF sniffer, RecvOnly, Recv, vifVars, ipVars, denoiseVars, IInv, TypeOK, FlagsOK
<1>16. CASE phy_up
  BY <1>16
  DEF phy_up, RecvOnly, Recv, vifVars, ipVars, denoiseVars, IInv, TypeOK, FlagsOK
<1>17. CASE ap_start
  BY <1>17 DEF ap_start, RecvOnly, Recv, ipVars, denoiseVars, IInv, TypeOK, FlagsOK
<1>18. CASE ap_stop
  BY <1>18 DEF ap_stop, RecvOnly, Recv, ipVars, denoiseVars, IInv, TypeOK, FlagsOK
<1>19. CASE denoise
  BY <1>19 DEF denoise, RecvOnly, Recv, vifVars, ipVars, IInv, TypeOK, FlagsOK
<1>20. CASE forward
  BY <1>20
  DEF forward, RecvOnly, Recv, vifVars, ipVars, denoiseVars, IInv, TypeOK, FlagsOK
<1>21. CASE ignore
  BY <1>21
  DEF ignore, Ignored, LinkedStates, vifVars, ipVars, denoiseVars, IInv, TypeOK,
      FlagsOK
<1>22. CASE handle_pending_task
  <2>1. CASE pending_connect
    BY <1>22, <2>1
    DEF handle_pending_task, pending_connect, vifVars, ipVars, IInv, TypeOK, FlagsOK
  <2>2. CASE pending_ip_update
    BY <1>22, <2>2, UseDhcpBool
    DEF handle_pending_task, pending_ip_update, stateConnectedIPYes_exit,
        stateConnectedIPNoEnter, wifi_mgmr_event_notify, sta_setup_ip, SetupBits,
        AddrAfterStop, vifVars, ipVars, IInv, TypeOK, FlagsOK
  <2>3. CASE pending_ip_got
    BY <1>22, <2>3
    DEF handle_pending_task, pending_ip_got, vifVars, ipVars, IInv, TypeOK, FlagsOK
  <2>4. CASE pending_none
    BY <1>22, <2>4
    DEF handle_pending_task, pending_none, vifVars, ipVars, IInv, TypeOK, FlagsOK
  <2> QED
    BY <1>22, <2>1, <2>2, <2>3, <2>4 DEF handle_pending_task
<1>23. CASE ip_obtaining_timeout
  BY <1>23
  DEF ip_obtaining_timeout, wifi_mgmr_event_notify, vifVars, ipVars, denoiseVars,
      IInv, TypeOK, FlagsOK
<1>24. CASE disconnect_retry
  BY <1>24
  DEF disconnect_retry, wifi_mgmr_event_notify, RetryIndex, profile_add, vifVars,
      ipVars, denoiseVars, IInv, TypeOK, FlagsOK
<1>25. CASE trigger_auto_denoise
  BY <1>25 DEF trigger_auto_denoise, vifVars, ipVars, IInv, TypeOK, FlagsOK
<1>26. CASE cb_connect_ind
  BY <1>26
  DEF cb_connect_ind, wifi_mgmr_event_notify, vifVars, ipVars, denoiseVars, IInv,
      TypeOK, FlagsOK
<1>27. CASE cb_disconnect_ind
  BY <1>27
  DEF cb_disconnect_ind, wifi_mgmr_event_notify, vifVars, ipVars, denoiseVars, IInv,
      TypeOK, FlagsOK
<1>28. CASE dhcp_bound
  BY <1>28 DEF dhcp_bound, vifVars, denoiseVars, IInv, TypeOK, FlagsOK
<1>29. CASE dhcp_lease_lost
  BY <1>29 DEF dhcp_lease_lost, vifVars, denoiseVars, IInv, TypeOK, FlagsOK
<1>30. ASSUME NEW op \in AppOp, App(op) PROVE FlagsOK'
  BY <1>30 DEF App, vifVars, ipVars, denoiseVars, IInv, TypeOK, FlagsOK
<1>31. CASE rx_sm_disconnect_ind
  BY <1>31 DEF rx_sm_disconnect_ind, vifVars, denoiseVars, IInv, TypeOK, FlagsOK
<1>32. CASE UNCHANGED vars
  BY <1>32 DEF vars, IInv, TypeOK, FlagsOK
<1> QED
  BY <1>1, <1>2, <1>3, <1>4, <1>5, <1>6, <1>7, <1>8, <1>9, <1>10, <1>11, <1>12, <1>13,
     <1>14, <1>15, <1>16, <1>17, <1>18, <1>19, <1>20, <1>21, <1>22, <1>23, <1>24,
     <1>25, <1>26, <1>27, <1>28, <1>29, <1>30, <1>31, <1>32
  DEF Next, Manager, Timers, Station, TcpIp

(* The queue holds messages, and at most WIFI_MGMR_MQ_MSG_COUNT of them. *)
LEMMA QueueStep == IInv /\ [Next]_vars => QueueOK'
<1> SUFFICES ASSUME IInv, [Next]_vars PROVE QueueOK'
  OBVIOUS
<1>1. CASE connect_pending
  BY <1>1, QuietSteps DEF Quiet, IInv, TypeOK, QueueOK
<1>2. CASE connect_start
  BY <1>2, Taken DEF connect_start, RecvOnly, Recv, IInv, TypeOK, QueueOK
<1>3. CASE connect_refused
  BY <1>3, Taken DEF connect_refused, RecvOnly, Recv, IInv, TypeOK, QueueOK
<1>4. CASE ind_connected
  BY <1>4, QuietSteps DEF Quiet, IInv, TypeOK, QueueOK
<1>5. CASE ind_join_failed
  BY <1>5, QuietSteps DEF Quiet, IInv, TypeOK, QueueOK
<1>6. CASE ind_link_lost
  BY <1>6, QuietSteps DEF Quiet, IInv, TypeOK, QueueOK
<1>7. CASE reconnect
  BY <1>7, Taken DEF reconnect, RecvOnly, Recv, IInv, TypeOK, QueueOK
<1>8. CASE disconnect_joining
  BY <1>8, Taken DEF disconnect_joining, RecvOnly, Recv, IInv, TypeOK, QueueOK
<1>9. CASE disconnect_linked
  BY <1>9, Taken DEF disconnect_linked, RecvOnly, Recv, IInv, TypeOK, QueueOK
<1>10. CASE fw_disconnect
  BY <1>10, Taken DEF fw_disconnect, RecvOnly, Recv, IInv, TypeOK, QueueOK
<1>11. CASE idle
  BY <1>11, Taken DEF idle, RecvOnly, Recv, IInv, TypeOK, QueueOK
<1>12. CASE disable_autoreconnect
  BY <1>12, Taken DEF disable_autoreconnect, RecvOnly, Recv, IInv, TypeOK, QueueOK
<1>13. CASE enable_autoreconnect
  BY <1>13, Taken DEF enable_autoreconnect, RecvOnly, Recv, IInv, TypeOK, QueueOK
<1>14. CASE fw_scan
  BY <1>14, Taken DEF fw_scan, RecvOnly, Recv, IInv, TypeOK, QueueOK
<1>15. CASE sniffer
  BY <1>15, Taken DEF sniffer, RecvOnly, Recv, IInv, TypeOK, QueueOK
<1>16. CASE phy_up
  BY <1>16, Taken DEF phy_up, RecvOnly, Recv, IInv, TypeOK, QueueOK
<1>17. CASE ap_start
  BY <1>17, Taken DEF ap_start, RecvOnly, Recv, IInv, TypeOK, QueueOK
<1>18. CASE ap_stop
  BY <1>18, Taken DEF ap_stop, RecvOnly, Recv, IInv, TypeOK, QueueOK
<1>19. CASE denoise
  BY <1>19, Taken DEF denoise, RecvOnly, Recv, IInv, TypeOK, QueueOK
<1>20. CASE forward
  BY <1>20, Taken DEF forward, RecvOnly, Recv, IInv, TypeOK, QueueOK
<1>21. CASE ignore
  BY <1>21, Taken DEF ignore, RecvOnly, Recv, IInv, TypeOK, QueueOK
<1>22. CASE handle_pending_task
  <2>1. CASE pending_connect
    BY <2>1 DEF pending_connect, IInv, TypeOK, QueueOK
  <2>2. CASE pending_ip_update
    BY <2>2, QuietSteps DEF Quiet, IInv, TypeOK, QueueOK
  <2>3. CASE pending_ip_got
    BY <2>3 DEF pending_ip_got, IInv, TypeOK, QueueOK
  <2>4. CASE pending_none
    BY <2>4 DEF pending_none, IInv, TypeOK, QueueOK
  <2> QED
    BY <1>22, <2>1, <2>2, <2>3, <2>4 DEF handle_pending_task
<1>23. CASE ip_obtaining_timeout
  BY <1>23, QuietSteps DEF Quiet, IInv, TypeOK, QueueOK
<1>24. CASE disconnect_retry
  <2>1. mq' = mq \/ mq' = Post(mq, Msg("RECONNECT"))
    BY <1>24 DEF disconnect_retry, wifi_mgmr_event_notify
  <2> QED
    BY <2>1, PostQueue, Messages DEF Internal, IInv, TypeOK, QueueOK
<1>25. CASE trigger_auto_denoise
  BY <1>25, QuietSteps DEF Quiet, IInv, TypeOK, QueueOK
<1>26. CASE cb_connect_ind
  BY <1>26, PostQueue, Messages
  DEF cb_connect_ind, wifi_mgmr_event_notify, Internal, IInv, TypeOK, QueueOK
<1>27. CASE cb_disconnect_ind
  BY <1>27, PostQueue, Messages
  DEF cb_disconnect_ind, wifi_mgmr_event_notify, Internal, IInv, TypeOK, QueueOK
<1>28. CASE dhcp_bound
  BY <1>28, QuietSteps DEF Quiet, IInv, TypeOK, QueueOK
<1>29. CASE dhcp_lease_lost
  BY <1>29, QuietSteps DEF Quiet, IInv, TypeOK, QueueOK
<1>30. ASSUME NEW op \in AppOp, App(op) PROVE QueueOK'
  BY <1>30, QuietSteps DEF Quiet, IInv, TypeOK, QueueOK
<1>31. CASE rx_sm_disconnect_ind
  BY <1>31, QuietSteps DEF Quiet, IInv, TypeOK, QueueOK
<1>32. CASE UNCHANGED vars
  BY <1>32 DEF vars, IInv, TypeOK, QueueOK
<1> QED
  BY <1>1, <1>2, <1>3, <1>4, <1>5, <1>6, <1>7, <1>8, <1>9, <1>10, <1>11, <1>12, <1>13,
     <1>14, <1>15, <1>16, <1>17, <1>18, <1>19, <1>20, <1>21, <1>22, <1>23, <1>24,
     <1>25, <1>26, <1>27, <1>28, <1>29, <1>30, <1>31, <1>32
  DEF Next, Manager, Timers, Station, TcpIp

(* The other variables keep their types. *)
LEMMA DataStep == IInv /\ [Next]_vars => DataOK'
<1> SUFFICES ASSUME IInv, [Next]_vars PROVE DataOK'
  OBVIOUS
<1>1. CASE connect_pending
  <2>1. Head(mq).prof \in Profile
    BY <1>1, Taken, RequestedProfile DEF connect_pending, Recv, IInv, TypeOK
  <2> QED
    BY <1>1, <2>1
    DEF connect_pending, Recv, bl_main_connect_abort, profile_add, fwVars, vifVars,
        ipVars, denoiseVars, IInv, TypeOK, DataOK
<1>2. CASE connect_start
  <2>1. Head(mq).prof \in Profile
    BY <1>2, Taken, RequestedProfile DEF connect_start, RecvOnly, Recv, IInv, TypeOK
  <2>2. /\ fwVif' \in [0..1 -> {"none", "STA", "AP"}] /\ staIdx' \in 0..1
        /\ apIdx' \in 0..1
        /\ pending' \subseteq {"CONNECT", "SCAN", "IP_UPDATE", "IP_GOT"}
    BY <1>2 DEF connect_start, bl_main_if_add, stateExit, vifVars, IInv, TypeOK, DataOK
  <2>3. profiles' \in [0..1 -> Profile \cup {NoProfile}] /\ active' \in 0..1
    BY <1>2, <2>1 DEF connect_start, profile_add, set_active_1, IInv, TypeOK, DataOK
  <2> QED
    BY <1>2, <2>1, <2>2, <2>3
    DEF connect_start, RecvOnly, Recv, bl_main_connect, ipVars, denoiseVars, IInv,
        TypeOK, DataOK, State
<1>3. CASE connect_refused
  BY <1>3, MgmrAssumption
  DEF connect_refused, RecvOnly, Recv, profVars, fwVars, vifVars, ipVars, denoiseVars,
      IInv, TypeOK, DataOK, State
<1>4. CASE ind_connected
  BY <1>4, MgmrAssumption
  DEF ind_connected, Recv, stateConnectedIPNoEnter, sta_setup_ip, SetupBits,
      AddrAfterStop, UseDhcp, profVars, fwVars, vifVars, ipVars, denoiseVars, IInv,
      TypeOK, DataOK, State
<1>5. CASE ind_join_failed
  BY <1>5, MgmrAssumption
  DEF ind_join_failed, Recv, stateDisconnect_enter, profVars, fwVars, vifVars, ipVars,
      denoiseVars, IInv, TypeOK, DataOK, State
<1>6. CASE ind_link_lost
  BY <1>6, MgmrAssumption
  DEF ind_link_lost, Recv, LinkedStates, ClearAddress, ClearBits,
      stateDisconnect_enter, profVars, fwVars, vifVars, IInv, TypeOK, DataOK, State
<1>7. CASE reconnect
  <2>1. retryMsg \in Profile /\ retryMsg.ttl \in Int /\ retryMsg.ttl >= -1
    BY <1>7, RetryReady DEF reconnect, RecvOnly, Recv
  <2>2. ttl' \in Int /\ ttl' >= -1
    BY <1>7, <2>1 DEF reconnect, IInv, TypeOK, DataOK
  <2> QED
    BY <1>7, <2>1, <2>2
    DEF reconnect, RecvOnly, Recv, bl_main_connect, vifVars, ipVars, denoiseVars,
        IInv, TypeOK, DataOK, State
<1>8. CASE disconnect_joining
  BY <1>8, MgmrAssumption
  DEF disconnect_joining, RecvOnly, Recv, bl_main_connect_abort, profVars, vifVars,
      ipVars, denoiseVars, IInv, TypeOK, DataOK, State
<1>9. CASE disconnect_linked
  BY <1>9, MgmrAssumption
  DEF disconnect_linked, RecvOnly, Recv, bl_main_disconnect, profVars, vifVars,
      ipVars, denoiseVars, IInv, TypeOK, DataOK, State
<1>10. CASE fw_disconnect
  BY <1>10, MgmrAssumption
  DEF fw_disconnect, RecvOnly, Recv, bl_main_disconnect, profVars, vifVars, ipVars,
      denoiseVars, IInv, TypeOK, DataOK, State
<1>11. CASE idle
  <2>1. /\ fwVif' \in [0..1 -> {"none", "STA", "AP"}] /\ staIdx' \in 0..1
        /\ apIdx' \in 0..1
        /\ pending' \subseteq {"CONNECT", "SCAN", "IP_UPDATE", "IP_GOT"}
    <3>1. CASE state = "Sniffer"
      BY <1>11, <3>1 DEF idle, stateExit, vifVars, IInv, TypeOK, DataOK
    <3>2. CASE state = "Disconnect"
      <4>1. bl_main_if_remove_sta /\ UNCHANGED pending
        BY <1>11, <3>2 DEF idle
      <4> QED
        BY <4>1 DEF bl_main_if_remove_sta, IInv, TypeOK, DataOK
    <3> QED
      BY <1>11, <3>1, <3>2 DEF idle
  <2> QED
    BY <1>11, <2>1
    DEF idle, RecvOnly, Recv, profVars, fwVars, ipVars, denoiseVars, IInv, TypeOK,
        DataOK, State
<1>12. CASE disable_autoreconnect
  BY <1>12, MgmrAssumption
  DEF disable_autoreconnect, RecvOnly, Recv, bl_main_if_remove_sta, profVars, fwVars,
      vifVars, ipVars, denoiseVars, IInv, TypeOK, DataOK, State
<1>13. CASE enable_autoreconnect
  BY <1>13, MgmrAssumption
  DEF enable_autoreconnect, RecvOnly, Recv, profVars, fwVars, vifVars, ipVars,
      denoiseVars, IInv, TypeOK, DataOK, State
<1>14. CASE fw_scan
  BY <1>14, MgmrAssumption
  DEF fw_scan, RecvOnly, Recv, profVars, fwVars, vifVars, ipVars, denoiseVars, IInv,
      TypeOK, DataOK, State
<1>15. CASE sniffer
  BY <1>15, MgmrAssumption
  DEF sniffer, RecvOnly, Recv, stateExit, profVars, fwVars, vifVars, ipVars,
      denoiseVars, IInv, TypeOK, DataOK, State
<1>16. CASE phy_up
  BY <1>16, MgmrAssumption
  DEF phy_up, RecvOnly, Recv, stateExit, profVars, fwVars, vifVars, ipVars,
      denoiseVars, IInv, TypeOK, DataOK, State
<1>17. CASE ap_start
  BY <1>17, MgmrAssumption
  DEF ap_start, RecvOnly, Recv, bl_main_if_add, profVars, fwVars, ipVars, denoiseVars,
      IInv, TypeOK, DataOK, State
<1>18. CASE ap_stop
  BY <1>18, MgmrAssumption
  DEF ap_stop, RecvOnly, Recv, profVars, fwVars, ipVars, denoiseVars, IInv, TypeOK,
      DataOK, State
<1>19. CASE denoise
  BY <1>19, MgmrAssumption
  DEF denoise, RecvOnly, Recv, profVars, fwVars, vifVars, ipVars, IInv, TypeOK,
      DataOK, State
<1>20. CASE forward
  BY <1>20, MgmrAssumption
  DEF forward, RecvOnly, Recv, profVars, fwVars, vifVars, ipVars, denoiseVars, IInv,
      TypeOK, DataOK, State
<1>21. CASE ignore
  BY <1>21, MgmrAssumption
  DEF ignore, Ignored, LinkedStates, profVars, fwVars, vifVars, ipVars, denoiseVars,
      IInv, TypeOK, DataOK, State
<1>22. CASE handle_pending_task
  <2>1. CASE pending_connect
    BY <1>22, <2>1, MgmrAssumption
    DEF handle_pending_task, pending_connect, profVars, fwVars, vifVars, ipVars, IInv,
        TypeOK, DataOK, State
  <2>2. CASE pending_ip_update
    BY <1>22, <2>2, MgmrAssumption
    DEF handle_pending_task, pending_ip_update, stateConnectedIPNoEnter, sta_setup_ip,
        SetupBits, AddrAfterStop, UseDhcp, profVars, fwVars, vifVars, ipVars, IInv,
        TypeOK, DataOK, State
  <2>3. CASE pending_ip_got
    BY <1>22, <2>3, MgmrAssumption
    DEF handle_pending_task, pending_ip_got, profVars, fwVars, vifVars, ipVars, IInv,
        TypeOK, DataOK, State
  <2>4. CASE pending_none
    BY <1>22, <2>4, MgmrAssumption
    DEF handle_pending_task, pending_none, profVars, fwVars, vifVars, ipVars, IInv,
        TypeOK, DataOK, State
  <2> QED
    BY <1>22, <2>1, <2>2, <2>3, <2>4 DEF handle_pending_task
<1>23. CASE ip_obtaining_timeout
  BY <1>23, MgmrAssumption
  DEF ip_obtaining_timeout, profVars, fwVars, vifVars, ipVars, denoiseVars, IInv,
      TypeOK, DataOK, State
<1>24. CASE disconnect_retry
  BY <1>24, MgmrAssumption
  DEF disconnect_retry, RetryIndex, NewDefault, profile_add, set_active_1,
      ReconnectTtl, fwVars, vifVars, ipVars, denoiseVars, IInv, TypeOK, DataOK, State
<1>25. CASE trigger_auto_denoise
  BY <1>25, MgmrAssumption
  DEF trigger_auto_denoise, profVars, fwVars, vifVars, ipVars, IInv, TypeOK, DataOK,
      State
<1>26. CASE cb_connect_ind
  BY <1>26, MgmrAssumption
  DEF cb_connect_ind, profVars, vifVars, ipVars, denoiseVars, IInv, TypeOK, DataOK,
      State
<1>27. CASE cb_disconnect_ind
  BY <1>27, MgmrAssumption
  DEF cb_disconnect_ind, profVars, vifVars, ipVars, denoiseVars, IInv, TypeOK, DataOK,
      State
<1>28. CASE dhcp_bound
  BY <1>28, MgmrAssumption
  DEF dhcp_bound, netif_status_callback, profVars, fwVars, vifVars, denoiseVars, IInv,
      TypeOK, DataOK, State
<1>29. CASE dhcp_lease_lost
  BY <1>29, MgmrAssumption
  DEF dhcp_lease_lost, netif_status_callback, profVars, fwVars, vifVars, denoiseVars,
      IInv, TypeOK, DataOK, State
<1>30. ASSUME NEW op \in AppOp, App(op) PROVE DataOK'
  <2>1. /\ pending' \subseteq {"CONNECT", "SCAN", "IP_UPDATE", "IP_GOT"}
        /\ ipv4' \in StaticIp \cup {"none"}
    <3>1. CASE op = "IP_SET"
      BY <1>30, <3>1 DEF App, sta_ip_set, IInv, TypeOK, DataOK
    <3>2. CASE op = "IP_UNSET"
      BY <1>30, <3>2 DEF App, sta_ip_set, IInv, TypeOK, DataOK
    <3>3. CASE op \notin {"IP_SET", "IP_UNSET"}
      BY <1>30, <3>3 DEF App, sta_connect, api_common, IInv, TypeOK, DataOK
    <3> QED
      BY <3>1, <3>2, <3>3
  <2>2. calls' \in 0..MaxCalls
    BY <1>30, MgmrAssumption DEF App, IInv, TypeOK, DataOK
  <2> QED
    BY <1>30, <2>1, <2>2
    DEF App, profVars, fwVars, vifVars, ipVars, denoiseVars, IInv, TypeOK, DataOK
<1>31. CASE rx_sm_disconnect_ind
  BY <1>31, MgmrAssumption
  DEF rx_sm_disconnect_ind, netif_status_callback, profVars, vifVars, denoiseVars,
      IInv, TypeOK, DataOK, State
<1>32. CASE UNCHANGED vars
  BY <1>32 DEF vars, IInv, TypeOK, DataOK, State
<1> QED
  BY <1>1, <1>2, <1>3, <1>4, <1>5, <1>6, <1>7, <1>8, <1>9, <1>10, <1>11, <1>12, <1>13,
     <1>14, <1>15, <1>16, <1>17, <1>18, <1>19, <1>20, <1>21, <1>22, <1>23, <1>24,
     <1>25, <1>26, <1>27, <1>28, <1>29, <1>30, <1>31, <1>32
  DEF Next, Manager, Timers, Station, TcpIp

(* The state lags behind the firmware's station only by what is in the    *)
(* queue, or by what was dropped.                                          *)
LEMMA LagStep == IInv /\ [Next]_vars => Lag'
<1> SUFFICES ASSUME IInv, [Next]_vars PROVE Lag'
  OBVIOUS
<1>1. CASE connect_pending
  <2>1. Kept(mq, mq')
    BY <1>1, RequestKeeps DEF Request
  <2> QED
    BY <1>1, <2>1
    DEF connect_pending, wifi_mgmr_event_notify, bl_main_connect_abort, fwVars, Kept,
        Ind, IInv, Lag, Busy, Linked, TypeOK, DataOK, State
<1>2. CASE connect_start
  <2>1. Kept(mq, mq')
    BY <1>2, RequestKeeps DEF Request
  <2> QED
    BY <1>2, <2>1
    DEF connect_start, RecvOnly, bl_main_connect, Kept, Ind, IInv, Lag, Busy, Linked,
        TypeOK, DataOK, State
<1>3. CASE connect_refused
  <2>1. Kept(mq, mq')
    BY <1>3, RequestKeeps DEF Request
  <2> QED
    BY <1>3, <2>1
    DEF connect_refused, RecvOnly, fwVars, Kept, Ind, IInv, Lag, Busy, Linked, TypeOK,
        DataOK, State
<1>4. CASE ind_connected
  <2>1. fw' = fw /\ (lost => lost') /\ state' = "IPNo"
    BY <1>4 DEF ind_connected, stateConnectedIPNoEnter, wifi_mgmr_event_notify, fwVars
  <2> QED
    BY <1>4, <2>1, IndicationTaken
    DEF ind_connected, Kept, Ind, IInv, Lag, Busy, Linked, TypeOK, DataOK, State
<1>5. CASE ind_join_failed
  <2>1. fw' = fw /\ (lost => lost') /\ state' = "Disconnect"
    BY <1>5 DEF ind_join_failed, wifi_mgmr_event_notify, stateDisconnect_enter, fwVars
  <2> QED
    BY <1>5, <2>1, IndicationTaken
    DEF ind_join_failed, Kept, Ind, IInv, Lag, Busy, Linked, TypeOK, DataOK, State
<1>6. CASE ind_link_lost
  <2>1. fw' = fw /\ (lost => lost') /\ state' = "Disconnect"
    BY <1>6
    DEF ind_link_lost, wifi_mgmr_event_notify, LinkedStates, stateDisconnect_enter,
        fwVars
  <2> QED
    BY <1>6, <2>1, IndicationTaken
    DEF ind_link_lost, LinkedStates, Kept, Ind, IInv, Lag, Busy, Linked, TypeOK,
        DataOK, State
<1>7. CASE reconnect
  <2>1. Kept(mq, mq')
    BY <1>7, RequestKeeps DEF Request
  <2> QED
    BY <1>7, <2>1
    DEF reconnect, RecvOnly, bl_main_connect, Kept, Ind, IInv, Lag, Busy, Linked,
        TypeOK, DataOK, State
<1>8. CASE disconnect_joining
  <2>1. Kept(mq, mq')
    BY <1>8, RequestKeeps DEF Request
  <2> QED
    BY <1>8, <2>1
    DEF disconnect_joining, RecvOnly, bl_main_connect_abort, Kept, Ind, IInv, Lag,
        Busy, Linked, TypeOK, DataOK, State
<1>9. CASE disconnect_linked
  <2>1. Kept(mq, mq')
    BY <1>9, RequestKeeps DEF Request
  <2> QED
    BY <1>9, <2>1
    DEF disconnect_linked, RecvOnly, bl_main_disconnect, Kept, Ind, IInv, Lag, Busy,
        Linked, TypeOK, DataOK, State
<1>10. CASE fw_disconnect
  <2>1. Kept(mq, mq')
    BY <1>10, RequestKeeps DEF Request
  <2> QED
    BY <1>10, <2>1
    DEF fw_disconnect, RecvOnly, bl_main_disconnect, Kept, Ind, IInv, Lag, Busy,
        Linked, TypeOK, DataOK, State
<1>11. CASE idle
  <2>1. Kept(mq, mq')
    BY <1>11, RequestKeeps DEF Request
  <2> QED
    BY <1>11, <2>1
    DEF idle, RecvOnly, fwVars, Kept, Ind, IInv, Lag, Busy, Linked, TypeOK, DataOK,
        State
<1>12. CASE disable_autoreconnect
  <2>1. Kept(mq, mq')
    BY <1>12, RequestKeeps DEF Request
  <2> QED
    BY <1>12, <2>1
    DEF disable_autoreconnect, RecvOnly, fwVars, Kept, Ind, IInv, Lag, Busy, Linked,
        TypeOK, DataOK, State
<1>13. CASE enable_autoreconnect
  <2>1. Kept(mq, mq')
    BY <1>13, RequestKeeps DEF Request
  <2> QED
    BY <1>13, <2>1
    DEF enable_autoreconnect, RecvOnly, fwVars, Kept, Ind, IInv, Lag, Busy, Linked,
        TypeOK, DataOK, State
<1>14. CASE fw_scan
  <2>1. Kept(mq, mq')
    BY <1>14, RequestKeeps DEF Request
  <2> QED
    BY <1>14, <2>1
    DEF fw_scan, RecvOnly, fwVars, Kept, Ind, IInv, Lag, Busy, Linked, TypeOK, DataOK,
        State
<1>15. CASE sniffer
  <2>1. Kept(mq, mq')
    BY <1>15, RequestKeeps DEF Request
  <2> QED
    BY <1>15, <2>1
    DEF sniffer, RecvOnly, fwVars, Kept, Ind, IInv, Lag, Busy, Linked, TypeOK, DataOK,
        State
<1>16. CASE phy_up
  <2>1. Kept(mq, mq')
    BY <1>16, RequestKeeps DEF Request
  <2> QED
    BY <1>16, <2>1
    DEF phy_up, RecvOnly, fwVars, Kept, Ind, IInv, Lag, Busy, Linked, TypeOK, DataOK,
        State
<1>17. CASE ap_start
  <2>1. Kept(mq, mq')
    BY <1>17, RequestKeeps DEF Request
  <2> QED
    BY <1>17, <2>1
    DEF ap_start, RecvOnly, fwVars, Kept, Ind, IInv, Lag, Busy, Linked, TypeOK,
        DataOK, State
<1>18. CASE ap_stop
  <2>1. Kept(mq, mq')
    BY <1>18, RequestKeeps DEF Request
  <2> QED
    BY <1>18, <2>1
    DEF ap_stop, RecvOnly, fwVars, Kept, Ind, IInv, Lag, Busy, Linked, TypeOK, DataOK,
        State
<1>19. CASE denoise
  <2>1. Kept(mq, mq')
    BY <1>19, RequestKeeps DEF Request
  <2> QED
    BY <1>19, <2>1
    DEF denoise, RecvOnly, fwVars, Kept, Ind, IInv, Lag, Busy, Linked, TypeOK, DataOK,
        State
<1>20. CASE forward
  <2>1. Kept(mq, mq')
    BY <1>20, RequestKeeps DEF Request
  <2> QED
    BY <1>20, <2>1
    DEF forward, RecvOnly, fwVars, Kept, Ind, IInv, Lag, Busy, Linked, TypeOK, DataOK,
        State
<1>21. CASE ignore
  <2>1. Kept(mq, mq')
    BY <1>21, RequestKeeps DEF Request
  <2> QED
    BY <1>21, <2>1
    DEF ignore, fwVars, Kept, Ind, IInv, Lag, Busy, Linked, TypeOK, DataOK, State
<1>22. CASE handle_pending_task
  <2>1. Kept(mq, mq')
    BY <1>22, OthersKeep
  <2>2. /\ fw' = fw /\ (lost => lost') /\ (state \in Linked <=> state' \in Linked)
        /\ (state' # state => state' \in Linked)
    BY <1>22
    DEF handle_pending_task, pending_connect, pending_ip_update, pending_ip_got,
        pending_none, stateConnectedIPNoEnter, wifi_mgmr_event_notify, fwVars, Linked
  <2> QED
    BY <2>1, <2>2 DEF Kept, Ind, IInv, Lag, Busy, Linked, TypeOK, DataOK, State
<1>23. CASE ip_obtaining_timeout
  <2>1. Kept(mq, mq')
    BY <1>23, OthersKeep
  <2> QED
    BY <1>23, <2>1
    DEF ip_obtaining_timeout, wifi_mgmr_event_notify, fwVars, Kept, Ind, IInv, Lag,
        Busy, Linked, TypeOK, DataOK, State
<1>24. CASE disconnect_retry
  <2>1. mq' = mq \/ mq' = Post(mq, Msg("RECONNECT"))
    BY <1>24 DEF disconnect_retry, wifi_mgmr_event_notify
  <2>2. NoInd(mq) => NoInd(mq')
    BY <2>1, PostQueue, Messages DEF Internal, IsInd, Ind, IInv, TypeOK, QueueOK
  <2>3. state = "Disconnect" /\ state' = state /\ fw' = fw
    BY <1>24 DEF disconnect_retry, fwVars, IInv, TimersMatchState
  <2> QED
    BY <2>2, <2>3 DEF IInv, Lag, Busy, Linked
<1>25. CASE trigger_auto_denoise
  <2>1. Kept(mq, mq')
    BY <1>25, OthersKeep
  <2> QED
    BY <1>25, <2>1
    DEF trigger_auto_denoise, fwVars, Kept, Ind, IInv, Lag, Busy, Linked, TypeOK,
        DataOK, State
<1>26. CASE cb_connect_ind
  <2>1. state = "Connecting" /\ NoInd(mq) /\ state' = state
    BY <1>26
    DEF cb_connect_ind, Kept, Ind, IInv, Lag, Busy, Linked, TypeOK, DataOK, State
  <2>2. ASSUME NEW ev \in Ind, mq' = Post(mq, Msg(ev))
        PROVE  OneInd(mq', ev) \/ (Full(mq) /\ NoInd(mq'))
    <3>1. Msg(ev) \in Message /\ Msg(ev).ev = ev /\ IsInd(Msg(ev))
      BY Messages DEF Internal, Ind, IsInd
    <3> QED
      BY <2>1, <2>2, <3>1, PostQueue DEF IInv, TypeOK, QueueOK
  <2> QED
    BY <1>26, <2>1, <2>2
    DEF cb_connect_ind, wifi_mgmr_event_notify, Ind, Lag, Busy, Linked
<1>27. CASE cb_disconnect_ind
  <2>1. Msg("IND_DISCONNECT") \in Message /\ Msg("IND_DISCONNECT").ev = "IND_DISCONNECT"
    BY Messages DEF Internal
  <2>2. /\ Full(mq) => mq' = mq
        /\ ~Full(mq) /\ NoInd(mq) => OneInd(mq', "IND_DISCONNECT")
        /\ ~Full(mq) /\ OneInd(mq, "IND_CONNECTED") => BothInd(mq')
    BY <1>27, <2>1, PostQueue
    DEF cb_disconnect_ind, wifi_mgmr_event_notify, IsInd, Ind, IInv, TypeOK, QueueOK
  <2> QED
    BY <1>27, <2>2
    DEF cb_disconnect_ind, wifi_mgmr_event_notify, IInv, Lag, Busy, Linked
<1>28. CASE dhcp_bound
  <2>1. Kept(mq, mq')
    BY <1>28, OthersKeep
  <2> QED
    BY <1>28, <2>1
    DEF dhcp_bound, fwVars, Kept, Ind, IInv, Lag, Busy, Linked, TypeOK, DataOK, State
<1>29. CASE dhcp_lease_lost
  <2>1. Kept(mq, mq')
    BY <1>29, OthersKeep
  <2> QED
    BY <1>29, <2>1
    DEF dhcp_lease_lost, fwVars, Kept, Ind, IInv, Lag, Busy, Linked, TypeOK, DataOK,
        State
<1>30. ASSUME NEW op \in AppOp, App(op) PROVE Lag'
  <2>1. Kept(mq, mq')
    BY <1>30, OthersKeep
  <2> QED
    BY <1>30, <2>1
    DEF App, sta_ip_set, sta_connect, api_common, fwVars, Kept, Ind, IInv, Lag, Busy,
        Linked, TypeOK, DataOK, State
<1>31. CASE rx_sm_disconnect_ind
  <2>1. Kept(mq, mq')
    BY <1>31, OthersKeep
  <2> QED
    BY <1>31, <2>1
    DEF rx_sm_disconnect_ind, fwVars, Kept, Ind, IInv, Lag, Busy, Linked, TypeOK, DataOK,
        State
<1>32. CASE UNCHANGED vars
  BY <1>32 DEF vars, IInv, Lag
<1> QED
  BY <1>1, <1>2, <1>3, <1>4, <1>5, <1>6, <1>7, <1>8, <1>9, <1>10, <1>11, <1>12, <1>13,
     <1>14, <1>15, <1>16, <1>17, <1>18, <1>19, <1>20, <1>21, <1>22, <1>23, <1>24,
     <1>25, <1>26, <1>27, <1>28, <1>29, <1>30, <1>31, <1>32
  DEF Next, Manager, Timers, Station, TcpIp

(* The timers run only in their states. *)
LEMMA TimersStep == IInv /\ [Next]_vars => TimersMatchState'
<1> SUFFICES ASSUME IInv, [Next]_vars PROVE TimersMatchState'
  OBVIOUS
<1>1. CASE connect_pending
  BY <1>1
  DEF connect_pending, Recv, IInv, TypeOK, FlagsOK, TimersMatchState, Lag, Busy,
      Linked
<1>2. CASE connect_start
  BY <1>2
  DEF connect_start, Recv, CancelRetry, IInv, TypeOK, FlagsOK, TimersMatchState, Lag,
      Busy, Linked
<1>3. CASE connect_refused
  BY <1>3
  DEF connect_refused, Recv, IInv, TypeOK, FlagsOK, TimersMatchState, Lag, Busy,
      Linked
<1>4. CASE ind_connected
  BY <1>4
  DEF ind_connected, Recv, stateConnectedIPNoEnter, IInv, TypeOK, FlagsOK,
      TimersMatchState, Lag, Busy, Linked
<1>5. CASE ind_join_failed
  BY <1>5
  DEF ind_join_failed, Recv, stateDisconnect_enter, IInv, TypeOK, FlagsOK,
      TimersMatchState, Lag, Busy, Linked
<1>6. CASE ind_link_lost
  BY <1>6
  DEF ind_link_lost, Recv, LinkedStates, ClearBits, stateDisconnect_enter, IInv,
      TypeOK, FlagsOK, TimersMatchState, Lag, Busy, Linked
<1>7. CASE reconnect
  BY <1>7
  DEF reconnect, Recv, CancelRetry, IInv, TypeOK, FlagsOK, TimersMatchState, Lag,
      Busy, Linked
<1>8. CASE disconnect_joining
  BY <1>8
  DEF disconnect_joining, Recv, IInv, TypeOK, FlagsOK, TimersMatchState, Lag, Busy,
      Linked
<1>9. CASE disconnect_linked
  BY <1>9
  DEF disconnect_linked, Recv, IInv, TypeOK, FlagsOK, TimersMatchState, Lag, Busy,
      Linked
<1>10. CASE fw_disconnect
  BY <1>10
  DEF fw_disconnect, Recv, IInv, TypeOK, FlagsOK, TimersMatchState, Lag, Busy, Linked
<1>11. CASE idle
  BY <1>11
  DEF idle, Recv, CancelRetry, IInv, TypeOK, FlagsOK, TimersMatchState, Lag, Busy,
      Linked
<1>12. CASE disable_autoreconnect
  BY <1>12
  DEF disable_autoreconnect, Recv, CancelRetry, IInv, TypeOK, FlagsOK,
      TimersMatchState, Lag, Busy, Linked
<1>13. CASE enable_autoreconnect
  BY <1>13
  DEF enable_autoreconnect, Recv, IInv, TypeOK, FlagsOK, TimersMatchState, Lag, Busy,
      Linked
<1>14. CASE fw_scan
  BY <1>14 DEF fw_scan, Recv, IInv, TypeOK, FlagsOK, TimersMatchState, Lag, Busy, Linked
<1>15. CASE sniffer
  BY <1>15 DEF sniffer, Recv, IInv, TypeOK, FlagsOK, TimersMatchState, Lag, Busy, Linked
<1>16. CASE phy_up
  BY <1>16 DEF phy_up, Recv, IInv, TypeOK, FlagsOK, TimersMatchState, Lag, Busy, Linked
<1>17. CASE ap_start
  BY <1>17
  DEF ap_start, Recv, IInv, TypeOK, FlagsOK, TimersMatchState, Lag, Busy, Linked
<1>18. CASE ap_stop
  BY <1>18 DEF ap_stop, Recv, IInv, TypeOK, FlagsOK, TimersMatchState, Lag, Busy, Linked
<1>19. CASE denoise
  BY <1>19 DEF denoise, Recv, IInv, TypeOK, FlagsOK, TimersMatchState, Lag, Busy, Linked
<1>20. CASE forward
  BY <1>20 DEF forward, Recv, IInv, TypeOK, FlagsOK, TimersMatchState, Lag, Busy, Linked
<1>21. CASE ignore
  BY <1>21
  DEF ignore, Ignored, LinkedStates, IInv, TypeOK, FlagsOK, TimersMatchState, Lag,
      Busy, Linked
<1>22. CASE handle_pending_task
  <2>1. CASE pending_connect
    BY <1>22, <2>1
    DEF handle_pending_task, pending_connect, IInv, TypeOK, FlagsOK, TimersMatchState,
        Lag, Busy, Linked
  <2>2. CASE pending_ip_update
    BY <1>22, <2>2
    DEF handle_pending_task, pending_ip_update, stateConnectedIPNoEnter, IInv, TypeOK,
        FlagsOK, TimersMatchState, Lag, Busy, Linked
  <2>3. CASE pending_ip_got
    BY <1>22, <2>3
    DEF handle_pending_task, pending_ip_got, IInv, TypeOK, FlagsOK, TimersMatchState,
        Lag, Busy, Linked
  <2>4. CASE pending_none
    BY <1>22, <2>4
    DEF handle_pending_task, pending_none, IInv, TypeOK, FlagsOK, TimersMatchState,
        Lag, Busy, Linked
  <2> QED
    BY <1>22, <2>1, <2>2, <2>3, <2>4 DEF handle_pending_task
<1>23. CASE ip_obtaining_timeout
  BY <1>23
  DEF ip_obtaining_timeout, IInv, TypeOK, FlagsOK, TimersMatchState, Lag, Busy, Linked
<1>24. CASE disconnect_retry
  BY <1>24
  DEF disconnect_retry, RetryIndex, IInv, TypeOK, FlagsOK, TimersMatchState, Lag,
      Busy, Linked
<1>25. CASE trigger_auto_denoise
  BY <1>25
  DEF trigger_auto_denoise, IInv, TypeOK, FlagsOK, TimersMatchState, Lag, Busy, Linked
<1>26. CASE cb_connect_ind
  BY <1>26
  DEF cb_connect_ind, IInv, TypeOK, FlagsOK, TimersMatchState, Lag, Busy, Linked
<1>27. CASE cb_disconnect_ind
  BY <1>27
  DEF cb_disconnect_ind, IInv, TypeOK, FlagsOK, TimersMatchState, Lag, Busy, Linked
<1>28. CASE dhcp_bound
  BY <1>28 DEF dhcp_bound, IInv, TypeOK, FlagsOK, TimersMatchState, Lag, Busy, Linked
<1>29. CASE dhcp_lease_lost
  BY <1>29
  DEF dhcp_lease_lost, IInv, TypeOK, FlagsOK, TimersMatchState, Lag, Busy, Linked
<1>30. ASSUME NEW op \in AppOp, App(op) PROVE TimersMatchState'
  BY <1>30 DEF App, IInv, TypeOK, FlagsOK, TimersMatchState, Lag, Busy, Linked
<1>31. CASE rx_sm_disconnect_ind
  BY <1>31
  DEF rx_sm_disconnect_ind, IInv, TypeOK, FlagsOK, TimersMatchState, Lag, Busy, Linked
<1>32. CASE UNCHANGED vars
  BY <1>32 DEF vars, IInv, TypeOK, FlagsOK, TimersMatchState, Lag, Busy, Linked
<1> QED
  BY <1>1, <1>2, <1>3, <1>4, <1>5, <1>6, <1>7, <1>8, <1>9, <1>10, <1>11, <1>12, <1>13,
     <1>14, <1>15, <1>16, <1>17, <1>18, <1>19, <1>20, <1>21, <1>22, <1>23, <1>24,
     <1>25, <1>26, <1>27, <1>28, <1>29, <1>30, <1>31, <1>32
  DEF Next, Manager, Timers, Station, TcpIp

(* A profile is never removed from where it will be needed. *)
LEMMA ProfilesStep == IInv /\ [Next]_vars => ProfilesSet'
<1> SUFFICES ASSUME IInv, [Next]_vars PROVE ProfilesSet'
  OBVIOUS
<1>1. CASE connect_pending
  <2>1. Head(mq).prof \in Profile
    BY <1>1, Taken, RequestedProfile DEF connect_pending, Recv, IInv, TypeOK
  <2>2. profiles'[1] = Head(mq).prof /\ profiles'[0] = profiles[0] /\ state' = state
    BY <1>1 DEF connect_pending, profile_add, IInv, TypeOK, DataOK
  <2> QED
    BY <2>1, <2>2, MgmrAssumption DEF IInv, ProfilesSet
<1>2. CASE connect_start
  <2>1. Head(mq).prof \in Profile
    BY <1>2, Taken, RequestedProfile DEF connect_start, RecvOnly, Recv, IInv, TypeOK
  <2>2. /\ profiles'[0] = Head(mq).prof /\ profiles'[1] = profiles[1]
        /\ pending' \subseteq pending
    BY <1>2 DEF connect_start, profile_add, stateExit, IInv, TypeOK, DataOK
  <2> QED
    BY <2>1, <2>2, MgmrAssumption DEF IInv, ProfilesSet
<1>3. CASE connect_refused
  BY <1>3, MgmrAssumption
  DEF connect_refused, Recv, profVars, IInv, TypeOK, DataOK, ProfilesSet, Busy,
      Linked, State
<1>4. CASE ind_connected
  BY <1>4, MgmrAssumption
  DEF ind_connected, Recv, stateConnectedIPNoEnter, SetupBits, profVars, IInv, TypeOK,
      DataOK, ProfilesSet, Busy, Linked, State
<1>5. CASE ind_join_failed
  BY <1>5, MgmrAssumption
  DEF ind_join_failed, Recv, stateDisconnect_enter, profVars, IInv, TypeOK, DataOK,
      ProfilesSet, Busy, Linked, State
<1>6. CASE ind_link_lost
  BY <1>6, MgmrAssumption
  DEF ind_link_lost, Recv, LinkedStates, ClearBits, stateDisconnect_enter, profVars,
      IInv, TypeOK, DataOK, ProfilesSet, Busy, Linked, State
<1>7. CASE reconnect
  BY <1>7, MgmrAssumption
  DEF reconnect, Recv, IInv, TypeOK, DataOK, ProfilesSet, Busy, Linked, State
<1>8. CASE disconnect_joining
  BY <1>8, MgmrAssumption
  DEF disconnect_joining, Recv, profVars, IInv, TypeOK, DataOK, ProfilesSet, Busy,
      Linked, State
<1>9. CASE disconnect_linked
  BY <1>9, MgmrAssumption
  DEF disconnect_linked, Recv, profVars, IInv, TypeOK, DataOK, ProfilesSet, Busy,
      Linked, State
<1>10. CASE fw_disconnect
  BY <1>10, MgmrAssumption
  DEF fw_disconnect, Recv, profVars, IInv, TypeOK, DataOK, ProfilesSet, Busy, Linked,
      State
<1>11. CASE idle
  BY <1>11, MgmrAssumption
  DEF idle, Recv, stateExit, profVars, IInv, TypeOK, DataOK, ProfilesSet, Busy,
      Linked, State
<1>12. CASE disable_autoreconnect
  BY <1>12, MgmrAssumption
  DEF disable_autoreconnect, Recv, profVars, IInv, TypeOK, DataOK, ProfilesSet, Busy,
      Linked, State
<1>13. CASE enable_autoreconnect
  BY <1>13, MgmrAssumption
  DEF enable_autoreconnect, Recv, profVars, IInv, TypeOK, DataOK, ProfilesSet, Busy,
      Linked, State
<1>14. CASE fw_scan
  BY <1>14, MgmrAssumption
  DEF fw_scan, Recv, profVars, IInv, TypeOK, DataOK, ProfilesSet, Busy, Linked, State
<1>15. CASE sniffer
  BY <1>15, MgmrAssumption
  DEF sniffer, Recv, stateExit, profVars, IInv, TypeOK, DataOK, ProfilesSet, Busy,
      Linked, State
<1>16. CASE phy_up
  BY <1>16, MgmrAssumption
  DEF phy_up, Recv, stateExit, profVars, IInv, TypeOK, DataOK, ProfilesSet, Busy,
      Linked, State
<1>17. CASE ap_start
  BY <1>17, MgmrAssumption
  DEF ap_start, Recv, profVars, IInv, TypeOK, DataOK, ProfilesSet, Busy, Linked, State
<1>18. CASE ap_stop
  BY <1>18, MgmrAssumption
  DEF ap_stop, Recv, profVars, IInv, TypeOK, DataOK, ProfilesSet, Busy, Linked, State
<1>19. CASE denoise
  BY <1>19, MgmrAssumption
  DEF denoise, Recv, profVars, IInv, TypeOK, DataOK, ProfilesSet, Busy, Linked, State
<1>20. CASE forward
  BY <1>20, MgmrAssumption
  DEF forward, Recv, profVars, IInv, TypeOK, DataOK, ProfilesSet, Busy, Linked, State
<1>21. CASE ignore
  BY <1>21, MgmrAssumption
  DEF ignore, Ignored, LinkedStates, profVars, IInv, TypeOK, DataOK, ProfilesSet,
      Busy, Linked, State
<1>22. CASE handle_pending_task
  <2>1. CASE pending_connect
    BY <1>22, <2>1, MgmrAssumption
    DEF handle_pending_task, pending_connect, profVars, IInv, TypeOK, DataOK,
        ProfilesSet, Busy, Linked, State
  <2>2. CASE pending_ip_update
    BY <1>22, <2>2, MgmrAssumption
    DEF handle_pending_task, pending_ip_update, stateConnectedIPNoEnter, SetupBits,
        profVars, IInv, TypeOK, DataOK, ProfilesSet, Busy, Linked, State
  <2>3. CASE pending_ip_got
    BY <1>22, <2>3, MgmrAssumption
    DEF handle_pending_task, pending_ip_got, profVars, IInv, TypeOK, DataOK,
        ProfilesSet, Busy, Linked, State
  <2>4. CASE pending_none
    BY <1>22, <2>4, MgmrAssumption
    DEF handle_pending_task, pending_none, profVars, IInv, TypeOK, DataOK,
        ProfilesSet, Busy, Linked, State
  <2> QED
    BY <1>22, <2>1, <2>2, <2>3, <2>4 DEF handle_pending_task
<1>23. CASE ip_obtaining_timeout
  BY <1>23, MgmrAssumption
  DEF ip_obtaining_timeout, profVars, IInv, TypeOK, DataOK, ProfilesSet, Busy, Linked,
      State
<1>24. CASE disconnect_retry
  BY <1>24, MgmrAssumption
  DEF disconnect_retry, RetryIndex, NewDefault, profile_add, IInv, TypeOK, DataOK,
      ProfilesSet, Busy, Linked, State
<1>25. CASE trigger_auto_denoise
  BY <1>25, MgmrAssumption
  DEF trigger_auto_denoise, profVars, IInv, TypeOK, DataOK, ProfilesSet, Busy, Linked,
      State
<1>26. CASE cb_connect_ind
  BY <1>26, MgmrAssumption
  DEF cb_connect_ind, profVars, IInv, TypeOK, DataOK, ProfilesSet, Busy, Linked, State
<1>27. CASE cb_disconnect_ind
  BY <1>27, MgmrAssumption
  DEF cb_disconnect_ind, profVars, IInv, TypeOK, DataOK, ProfilesSet, Busy, Linked,
      State
<1>28. CASE dhcp_bound
  BY <1>28, MgmrAssumption
  DEF dhcp_bound, netif_status_callback, profVars, IInv, TypeOK, DataOK, ProfilesSet,
      Busy, Linked, State
<1>29. CASE dhcp_lease_lost
  BY <1>29, MgmrAssumption
  DEF dhcp_lease_lost, netif_status_callback, profVars, IInv, TypeOK, DataOK,
      ProfilesSet, Busy, Linked, State
<1>30. ASSUME NEW op \in AppOp, App(op) PROVE ProfilesSet'
  <2>1. "CONNECT" \in pending' => "CONNECT" \in pending
    <3>1. CASE op = "IP_SET"
      BY <1>30, <3>1 DEF App, sta_ip_set
    <3>2. CASE op = "IP_UNSET"
      BY <1>30, <3>2 DEF App, sta_ip_set
    <3>3. CASE op \notin {"IP_SET", "IP_UNSET"}
      BY <1>30, <3>3 DEF App, sta_connect, api_common
    <3> QED
      BY <3>1, <3>2, <3>3
  <2> QED
    BY <1>30, <2>1 DEF App, profVars, IInv, ProfilesSet
<1>31. CASE rx_sm_disconnect_ind
  BY <1>31, MgmrAssumption
  DEF rx_sm_disconnect_ind, netif_status_callback, profVars, IInv, TypeOK, DataOK,
      ProfilesSet, Busy, Linked, State
<1>32. CASE UNCHANGED vars
  BY <1>32 DEF vars, IInv, TypeOK, DataOK, ProfilesSet, Busy, Linked, State
<1> QED
  BY <1>1, <1>2, <1>3, <1>4, <1>5, <1>6, <1>7, <1>8, <1>9, <1>10, <1>11, <1>12, <1>13,
     <1>14, <1>15, <1>16, <1>17, <1>18, <1>19, <1>20, <1>21, <1>22, <1>23, <1>24,
     <1>25, <1>26, <1>27, <1>28, <1>29, <1>30, <1>31, <1>32
  DEF Next, Manager, Timers, Station, TcpIp

(* Something always takes the manager out of Disconnect. *)
LEMMA StrandedStep == IInv /\ [Next]_vars => NeverStranded'
<1> SUFFICES ASSUME IInv, [Next]_vars PROVE NeverStranded'
  OBVIOUS
<1>1. CASE connect_pending
  BY <1>1 DEF connect_pending, NeverStranded
<1>2. CASE connect_start
  BY <1>2 DEF connect_start, NeverStranded
<1>3. CASE connect_refused
  <2>1. In(mq, "RECONNECT") \/ In(mq, "IDLE") =>
          In(mq', "RECONNECT") \/ In(mq', "IDLE") \/ state # "Disconnect"
    BY <1>3, RequestKeeps DEF Request, connect_refused, RecvOnly, Recv
  <2> QED
    BY <1>3, <2>1 DEF connect_refused, RecvOnly, IInv, NeverStranded, Queued, In
<1>4. CASE ind_connected
  BY <1>4 DEF ind_connected, stateConnectedIPNoEnter, NeverStranded
<1>5. CASE ind_join_failed
  <2>1. Tail(mq) \in Seq(Message) /\ Len(Tail(mq)) <= MqCount
    BY <1>5, Taken DEF ind_join_failed, Recv, IInv, TypeOK
  <2>2. ~Full(Tail(mq)) => In(Post(Tail(mq), Msg("IDLE")), "IDLE")
    BY <2>1, PostedIn
  <2> QED
    BY <1>5, <2>2
    DEF ind_join_failed, stateDisconnect_enter, wifi_mgmr_event_notify, NeverStranded,
        Queued, In
<1>6. CASE ind_link_lost
  <2> DEFINE q == Wakeups(Tail(mq), IF ClearBits = {} THEN 0 ELSE 1)
  <2>1. Tail(mq) \in Seq(Message) /\ Len(Tail(mq)) <= MqCount
    BY <1>6, Taken DEF ind_link_lost, Recv, IInv, TypeOK
  <2>2. q \in Seq(Message) /\ Len(q) <= MqCount
    <3>1. (IF ClearBits = {} THEN 0 ELSE 1) \in 0..2
      OBVIOUS
    <3>2. Quiet(Tail(mq), q)
      BY <2>1, <3>1, QuietWakeups
    <3> QED
      BY <3>2 DEF Quiet
  <2>3. stateDisconnect_enter(q, pending \cup ClearBits)
    BY <1>6 DEF ind_link_lost
  <2> HIDE DEF q
  <2>4. ~Full(q) => In(Post(q, Msg("IDLE")), "IDLE")
    BY <2>2, PostedIn
  <2> QED
    BY <2>3, <2>4
    DEF stateDisconnect_enter, wifi_mgmr_event_notify, NeverStranded, Queued, In
<1>7. CASE reconnect
  BY <1>7 DEF reconnect, NeverStranded
<1>8. CASE disconnect_joining
  <2>1. In(mq, "RECONNECT") \/ In(mq, "IDLE") =>
          In(mq', "RECONNECT") \/ In(mq', "IDLE") \/ state # "Disconnect"
    BY <1>8, RequestKeeps DEF Request, disconnect_joining, RecvOnly, Recv
  <2> QED
    BY <1>8, <2>1 DEF disconnect_joining, RecvOnly, IInv, NeverStranded, Queued, In
<1>9. CASE disconnect_linked
  <2>1. In(mq, "RECONNECT") \/ In(mq, "IDLE") =>
          In(mq', "RECONNECT") \/ In(mq', "IDLE") \/ state # "Disconnect"
    BY <1>9, RequestKeeps DEF Request, disconnect_linked, RecvOnly, Recv
  <2> QED
    BY <1>9, <2>1 DEF disconnect_linked, RecvOnly, IInv, NeverStranded, Queued, In
<1>10. CASE fw_disconnect
  <2>1. In(mq, "RECONNECT") \/ In(mq, "IDLE") =>
          In(mq', "RECONNECT") \/ In(mq', "IDLE") \/ state # "Disconnect"
    BY <1>10, RequestKeeps DEF Request, fw_disconnect, RecvOnly, Recv
  <2> QED
    BY <1>10, <2>1 DEF fw_disconnect, RecvOnly, IInv, NeverStranded, Queued, In
<1>11. CASE idle
  BY <1>11 DEF idle, NeverStranded
<1>12. CASE disable_autoreconnect
  <2>1. In(mq, "RECONNECT") \/ In(mq, "IDLE") =>
          In(mq', "RECONNECT") \/ In(mq', "IDLE") \/ state # "Disconnect"
    BY <1>12, RequestKeeps
    DEF Request, disable_autoreconnect, RecvOnly, Recv, CancelRetry
  <2> QED
    BY <1>12, <2>1 DEF disable_autoreconnect, RecvOnly, IInv, NeverStranded, Queued, In
<1>13. CASE enable_autoreconnect
  <2>1. In(mq, "RECONNECT") \/ In(mq, "IDLE") =>
          In(mq', "RECONNECT") \/ In(mq', "IDLE") \/ state # "Disconnect"
    BY <1>13, RequestKeeps DEF Request, enable_autoreconnect, RecvOnly, Recv
  <2> QED
    BY <1>13, <2>1 DEF enable_autoreconnect, RecvOnly, IInv, NeverStranded, Queued, In
<1>14. CASE fw_scan
  <2>1. In(mq, "RECONNECT") \/ In(mq, "IDLE") =>
          In(mq', "RECONNECT") \/ In(mq', "IDLE") \/ state # "Disconnect"
    BY <1>14, RequestKeeps DEF Request, fw_scan, RecvOnly, Recv
  <2> QED
    BY <1>14, <2>1 DEF fw_scan, RecvOnly, IInv, NeverStranded, Queued, In
<1>15. CASE sniffer
  BY <1>15 DEF sniffer, NeverStranded
<1>16. CASE phy_up
  BY <1>16 DEF phy_up, NeverStranded
<1>17. CASE ap_start
  <2>1. In(mq, "RECONNECT") \/ In(mq, "IDLE") =>
          In(mq', "RECONNECT") \/ In(mq', "IDLE") \/ state # "Disconnect"
    BY <1>17, RequestKeeps DEF Request, ap_start, RecvOnly, Recv
  <2> QED
    BY <1>17, <2>1 DEF ap_start, RecvOnly, IInv, NeverStranded, Queued, In
<1>18. CASE ap_stop
  <2>1. In(mq, "RECONNECT") \/ In(mq, "IDLE") =>
          In(mq', "RECONNECT") \/ In(mq', "IDLE") \/ state # "Disconnect"
    BY <1>18, RequestKeeps DEF Request, ap_stop, RecvOnly, Recv
  <2> QED
    BY <1>18, <2>1 DEF ap_stop, RecvOnly, IInv, NeverStranded, Queued, In
<1>19. CASE denoise
  <2>1. In(mq, "RECONNECT") \/ In(mq, "IDLE") =>
          In(mq', "RECONNECT") \/ In(mq', "IDLE") \/ state # "Disconnect"
    BY <1>19, RequestKeeps DEF Request, denoise, RecvOnly, Recv
  <2> QED
    BY <1>19, <2>1 DEF denoise, RecvOnly, IInv, NeverStranded, Queued, In
<1>20. CASE forward
  <2>1. In(mq, "RECONNECT") \/ In(mq, "IDLE") =>
          In(mq', "RECONNECT") \/ In(mq', "IDLE") \/ state # "Disconnect"
    BY <1>20, RequestKeeps DEF Request, forward, RecvOnly, Recv
  <2> QED
    BY <1>20, <2>1 DEF forward, RecvOnly, IInv, NeverStranded, Queued, In
<1>21. CASE ignore
  <2>1. In(mq, "RECONNECT") \/ In(mq, "IDLE") =>
          In(mq', "RECONNECT") \/ In(mq', "IDLE") \/ state # "Disconnect"
    BY <1>21, RequestKeeps DEF Request, ignore, Ignored
  <2> QED
    BY <1>21, <2>1 DEF ignore, Ignored, IInv, NeverStranded, Queued, In
<1>22. CASE handle_pending_task
  <2>1. \A ev : In(mq, ev) => In(mq', ev)
    BY <1>22, OthersKeep
  <2>2. /\ retryTimer' = retryTimer /\ (lost => lost')
        /\ (state' # state => state' \in Linked)
    BY <1>22
    DEF handle_pending_task, pending_connect, pending_ip_update, pending_ip_got,
        pending_none, stateConnectedIPNoEnter, wifi_mgmr_event_notify, Linked
  <2> QED
    BY <2>1, <2>2 DEF Linked, IInv, NeverStranded, Queued, In
<1>23. CASE ip_obtaining_timeout
  <2>1. \A ev : In(mq, ev) => In(mq', ev)
    BY <1>23, OthersKeep
  <2> QED
    BY <1>23, <2>1
    DEF ip_obtaining_timeout, wifi_mgmr_event_notify, IInv, NeverStranded, Queued, In
<1>24. CASE disconnect_retry
  <2>1. profiles[RetryIndex] # NoProfile
    BY <1>24 DEF disconnect_retry, RetryIndex, IInv, TimersMatchState, ProfilesSet
  <2>2. mq' = Post(mq, Msg("RECONNECT")) /\ lost' = (lost \/ Full(mq))
    BY <1>24, <2>1 DEF disconnect_retry, wifi_mgmr_event_notify
  <2>3. ~Full(mq) => In(mq', "RECONNECT")
    BY <2>2, PostedIn DEF Internal, IInv, TypeOK, QueueOK
  <2> QED
    BY <2>2, <2>3 DEF NeverStranded, Queued, In
<1>25. CASE trigger_auto_denoise
  <2>1. \A ev : In(mq, ev) => In(mq', ev)
    BY <1>25, OthersKeep
  <2> QED
    BY <1>25, <2>1 DEF trigger_auto_denoise, IInv, NeverStranded, Queued, In
<1>26. CASE cb_connect_ind
  <2>1. state # "Disconnect" /\ state' = state
    BY <1>26 DEF cb_connect_ind, IInv, Lag, Busy, Linked
  <2> QED
    BY <2>1 DEF NeverStranded
<1>27. CASE cb_disconnect_ind
  <2>1. state # "Disconnect" /\ state' = state
    BY <1>27 DEF cb_disconnect_ind, IInv, Lag, Busy, Linked
  <2> QED
    BY <2>1 DEF NeverStranded
<1>28. CASE dhcp_bound
  <2>1. \A ev : In(mq, ev) => In(mq', ev)
    BY <1>28, OthersKeep
  <2> QED
    BY <1>28, <2>1 DEF dhcp_bound, IInv, NeverStranded, Queued, In
<1>29. CASE dhcp_lease_lost
  <2>1. \A ev : In(mq, ev) => In(mq', ev)
    BY <1>29, OthersKeep
  <2> QED
    BY <1>29, <2>1 DEF dhcp_lease_lost, IInv, NeverStranded, Queued, In
<1>30. ASSUME NEW op \in AppOp, App(op) PROVE NeverStranded'
  <2>1. \A ev : In(mq, ev) => In(mq', ev)
    BY <1>30, OthersKeep
  <2> QED
    BY <1>30, <2>1 DEF App, IInv, NeverStranded, Queued, In
<1>31. CASE rx_sm_disconnect_ind
  <2>1. \A ev : In(mq, ev) => In(mq', ev)
    BY <1>31, OthersKeep
  <2> QED
    BY <1>31, <2>1 DEF rx_sm_disconnect_ind, IInv, NeverStranded, Queued, In
<1>32. CASE UNCHANGED vars
  BY <1>32 DEF vars, IInv, NeverStranded, Queued
<1> QED
  BY <1>1, <1>2, <1>3, <1>4, <1>5, <1>6, <1>7, <1>8, <1>9, <1>10, <1>11, <1>12, <1>13,
     <1>14, <1>15, <1>16, <1>17, <1>18, <1>19, <1>20, <1>21, <1>22, <1>23, <1>24,
     <1>25, <1>26, <1>27, <1>28, <1>29, <1>30, <1>31, <1>32
  DEF Next, Manager, Timers, Station, TcpIp

(* The profile to reconnect with stays the default one. *)
LEMMA RetryStep == IInv /\ [Next]_vars => RetryUsesDefault'
<1> SUFFICES ASSUME IInv, [Next]_vars PROVE RetryUsesDefault'
  OBVIOUS
<1>1. CASE connect_pending
  <2>1. profiles'[0] = profiles[0] /\ state' \in Busy /\ ttl' = ttl
    BY <1>1 DEF connect_pending, profile_add, Busy, Linked, IInv, TypeOK, DataOK
  <2> QED
    BY <2>1 DEF Busy, Linked, IInv, RetryUsesDefault, TtlFresh
<1>2. CASE connect_start
  BY <1>2 DEF connect_start, RetryUsesDefault, TtlFresh
<1>3. CASE connect_refused
  <2>1. In(mq', "RECONNECT") => In(mq, "RECONNECT")
    BY <1>3, RequestKeeps DEF Request, Kept
  <2> QED
    BY <1>3, <2>1
    DEF connect_refused, profVars, IInv, RetryUsesDefault, TtlFresh, Queued, In
<1>4. CASE ind_connected
  BY <1>4
  DEF ind_connected, stateConnectedIPNoEnter, profVars, IInv, RetryUsesDefault,
      TtlFresh
<1>5. CASE ind_join_failed
  <2>1. ~In(mq', "RECONNECT")
    BY <1>5, IndicationTaken
  <2> QED
    BY <1>5, <2>1
    DEF ind_join_failed, profVars, IInv, RetryUsesDefault, TtlFresh, Queued, In
<1>6. CASE ind_link_lost
  <2>1. ~In(mq', "RECONNECT")
    BY <1>6, IndicationTaken
  <2> QED
    BY <1>6, <2>1
    DEF ind_link_lost, profVars, IInv, RetryUsesDefault, TtlFresh, Queued, In
<1>7. CASE reconnect
  <2>1. retryMsg = profiles[0] /\ retryMsg.ttl \in Int /\ retryMsg.ttl >= -1
    BY <1>7, RetryReady DEF reconnect, RecvOnly, Recv
  <2> QED
    BY <1>7, <2>1 DEF reconnect, IInv, RetryUsesDefault, TtlFresh, TypeOK, DataOK
<1>8. CASE disconnect_joining
  <2>1. In(mq', "RECONNECT") => In(mq, "RECONNECT")
    BY <1>8, RequestKeeps DEF Request, Kept
  <2> QED
    BY <1>8, <2>1
    DEF disconnect_joining, profVars, IInv, RetryUsesDefault, TtlFresh, Queued, In
<1>9. CASE disconnect_linked
  <2>1. In(mq', "RECONNECT") => In(mq, "RECONNECT")
    BY <1>9, RequestKeeps DEF Request, Kept
  <2> QED
    BY <1>9, <2>1
    DEF disconnect_linked, profVars, IInv, RetryUsesDefault, TtlFresh, Queued, In
<1>10. CASE fw_disconnect
  <2>1. In(mq', "RECONNECT") => In(mq, "RECONNECT")
    BY <1>10, RequestKeeps DEF Request, Kept
  <2> QED
    BY <1>10, <2>1
    DEF fw_disconnect, profVars, IInv, RetryUsesDefault, TtlFresh, Queued, In
<1>11. CASE idle
  <2>1. In(mq', "RECONNECT") => In(mq, "RECONNECT")
    BY <1>11, RequestKeeps DEF Request, Kept
  <2> QED
    BY <1>11, <2>1 DEF idle, profVars, IInv, RetryUsesDefault, TtlFresh, Queued, In
<1>12. CASE disable_autoreconnect
  <2>1. In(mq', "RECONNECT") => In(mq, "RECONNECT")
    BY <1>12, RequestKeeps DEF Request, Kept
  <2> QED
    BY <1>12, <2>1
    DEF disable_autoreconnect, profVars, IInv, RetryUsesDefault, TtlFresh, Queued, In
<1>13. CASE enable_autoreconnect
  <2>1. In(mq', "RECONNECT") => In(mq, "RECONNECT")
    BY <1>13, RequestKeeps DEF Request, Kept
  <2> QED
    BY <1>13, <2>1
    DEF enable_autoreconnect, profVars, IInv, RetryUsesDefault, TtlFresh, Queued, In
<1>14. CASE fw_scan
  <2>1. In(mq', "RECONNECT") => In(mq, "RECONNECT")
    BY <1>14, RequestKeeps DEF Request, Kept
  <2> QED
    BY <1>14, <2>1 DEF fw_scan, profVars, IInv, RetryUsesDefault, TtlFresh, Queued, In
<1>15. CASE sniffer
  <2>1. In(mq', "RECONNECT") => In(mq, "RECONNECT")
    BY <1>15, RequestKeeps DEF Request, Kept
  <2> QED
    BY <1>15, <2>1 DEF sniffer, profVars, IInv, RetryUsesDefault, TtlFresh, Queued, In
<1>16. CASE phy_up
  <2>1. In(mq', "RECONNECT") => In(mq, "RECONNECT")
    BY <1>16, RequestKeeps DEF Request, Kept
  <2> QED
    BY <1>16, <2>1 DEF phy_up, profVars, IInv, RetryUsesDefault, TtlFresh, Queued, In
<1>17. CASE ap_start
  <2>1. In(mq', "RECONNECT") => In(mq, "RECONNECT")
    BY <1>17, RequestKeeps DEF Request, Kept
  <2> QED
    BY <1>17, <2>1 DEF ap_start, profVars, IInv, RetryUsesDefault, TtlFresh, Queued, In
<1>18. CASE ap_stop
  <2>1. In(mq', "RECONNECT") => In(mq, "RECONNECT")
    BY <1>18, RequestKeeps DEF Request, Kept
  <2> QED
    BY <1>18, <2>1 DEF ap_stop, profVars, IInv, RetryUsesDefault, TtlFresh, Queued, In
<1>19. CASE denoise
  <2>1. In(mq', "RECONNECT") => In(mq, "RECONNECT")
    BY <1>19, RequestKeeps DEF Request, Kept
  <2> QED
    BY <1>19, <2>1 DEF denoise, profVars, IInv, RetryUsesDefault, TtlFresh, Queued, In
<1>20. CASE forward
  <2>1. In(mq', "RECONNECT") => In(mq, "RECONNECT")
    BY <1>20, RequestKeeps DEF Request, Kept
  <2> QED
    BY <1>20, <2>1 DEF forward, profVars, IInv, RetryUsesDefault, TtlFresh, Queued, In
<1>21. CASE ignore
  <2>1. In(mq', "RECONNECT") => In(mq, "RECONNECT")
    BY <1>21, RequestKeeps DEF Request, Kept
  <2> QED
    BY <1>21, <2>1 DEF ignore, profVars, IInv, RetryUsesDefault, TtlFresh, Queued, In
<1>22. CASE handle_pending_task
  <2>1. In(mq', "RECONNECT") => In(mq, "RECONNECT")
    BY <1>22, OthersKeep DEF Kept
  <2>2. /\ retryMsg' = retryMsg /\ profiles' = profiles /\ ttl' = ttl
        /\ (state' # state => state' \in Linked)
    BY <1>22
    DEF handle_pending_task, pending_connect, pending_ip_update, pending_ip_got,
        pending_none, stateConnectedIPNoEnter, profVars, Linked
  <2> QED
    BY <2>1, <2>2 DEF Linked, IInv, RetryUsesDefault, TtlFresh, Queued, In
<1>23. CASE ip_obtaining_timeout
  <2>1. In(mq', "RECONNECT") => In(mq, "RECONNECT")
    BY <1>23, OthersKeep DEF Kept
  <2> QED
    BY <1>23, <2>1
    DEF ip_obtaining_timeout, profVars, IInv, RetryUsesDefault, TtlFresh, Queued, In
<1>24. CASE disconnect_retry
  <2>1. profiles[RetryIndex] # NoProfile /\ RetryIndex \in 0..1
    BY <1>24 DEF disconnect_retry, RetryIndex, IInv, TimersMatchState, ProfilesSet
  <2>2. /\ retryMsg' = profiles[RetryIndex] /\ profiles' = NewDefault(RetryIndex)
        /\ ttl' = IF RetryIndex = 1 THEN ReconnectTtl ELSE ttl
    BY <1>24, <2>1 DEF disconnect_retry
  <2> QED
    BY <2>1, <2>2
    DEF NewDefault, profile_add, ReconnectTtl, IInv, RetryUsesDefault, TtlFresh,
        TypeOK, DataOK
<1>25. CASE trigger_auto_denoise
  <2>1. In(mq', "RECONNECT") => In(mq, "RECONNECT")
    BY <1>25, OthersKeep DEF Kept
  <2> QED
    BY <1>25, <2>1
    DEF trigger_auto_denoise, profVars, IInv, RetryUsesDefault, TtlFresh, Queued, In
<1>26. CASE cb_connect_ind
  <2>1. state # "Disconnect"
    BY <1>26 DEF cb_connect_ind, IInv, Lag, Busy, Linked
  <2> QED
    BY <1>26, <2>1 DEF cb_connect_ind, profVars, IInv, RetryUsesDefault, TtlFresh
<1>27. CASE cb_disconnect_ind
  <2>1. state # "Disconnect"
    BY <1>27 DEF cb_disconnect_ind, IInv, Lag, Busy, Linked
  <2> QED
    BY <1>27, <2>1 DEF cb_disconnect_ind, profVars, IInv, RetryUsesDefault, TtlFresh
<1>28. CASE dhcp_bound
  <2>1. In(mq', "RECONNECT") => In(mq, "RECONNECT")
    BY <1>28, OthersKeep DEF Kept
  <2> QED
    BY <1>28, <2>1
    DEF dhcp_bound, profVars, IInv, RetryUsesDefault, TtlFresh, Queued, In
<1>29. CASE dhcp_lease_lost
  <2>1. In(mq', "RECONNECT") => In(mq, "RECONNECT")
    BY <1>29, OthersKeep DEF Kept
  <2> QED
    BY <1>29, <2>1
    DEF dhcp_lease_lost, profVars, IInv, RetryUsesDefault, TtlFresh, Queued, In
<1>30. ASSUME NEW op \in AppOp, App(op) PROVE RetryUsesDefault'
  <2>1. In(mq', "RECONNECT") => In(mq, "RECONNECT")
    BY <1>30, OthersKeep DEF Kept
  <2> QED
    BY <1>30, <2>1 DEF App, profVars, IInv, RetryUsesDefault, TtlFresh, Queued, In
<1>31. CASE rx_sm_disconnect_ind
  <2>1. In(mq', "RECONNECT") => In(mq, "RECONNECT")
    BY <1>31, OthersKeep DEF Kept
  <2> QED
    BY <1>31, <2>1
    DEF rx_sm_disconnect_ind, profVars, IInv, RetryUsesDefault, TtlFresh, Queued, In
<1>32. CASE UNCHANGED vars
  BY <1>32 DEF vars, IInv, RetryUsesDefault, TtlFresh, Queued, profVars
<1> QED
  BY <1>1, <1>2, <1>3, <1>4, <1>5, <1>6, <1>7, <1>8, <1>9, <1>10, <1>11, <1>12, <1>13,
     <1>14, <1>15, <1>16, <1>17, <1>18, <1>19, <1>20, <1>21, <1>22, <1>23, <1>24,
     <1>25, <1>26, <1>27, <1>28, <1>29, <1>30, <1>31, <1>32
  DEF Next, Manager, Timers, Station, TcpIp

(* A reconnect never comes after the end of a later connection: it is      *)
(* posted in Disconnect, where no indication is in the queue.               *)
LEMMA RetryFirstStep == IInv /\ [Next]_vars => RetryFirst(mq')
<1> SUFFICES ASSUME IInv, [Next]_vars PROVE RetryFirst(mq')
  OBVIOUS
<1>1. RetryFirst(mq) /\ QueueOK
  BY DEF IInv, TypeOK
<1>2. CASE Request
  BY <1>1, <1>2, RequestKeeps DEF Kept
<1>3. CASE \/ handle_pending_task \/ ip_obtaining_timeout \/ trigger_auto_denoise
           \/ rx_sm_disconnect_ind \/ dhcp_bound \/ dhcp_lease_lost
           \/ \E op \in AppOp : App(op)
  BY <1>1, <1>3, OthersKeep DEF Kept
<1>4. CASE ind_connected \/ ind_join_failed \/ ind_link_lost
  BY <1>4, IndicationTaken
<1>5. CASE disconnect_retry
  <2>1. mq' = mq \/ mq' = Post(mq, Msg("RECONNECT"))
    BY <1>5 DEF disconnect_retry, wifi_mgmr_event_notify
  <2>2. NoInd(mq)
    BY <1>5 DEF disconnect_retry, IInv, TimersMatchState, Lag, Busy, Linked
  <2> QED
    BY <1>1, <2>1, <2>2, PostQueue, Messages DEF Internal, QueueOK
<1>6. CASE cb_connect_ind \/ cb_disconnect_ind
  <2>1. PICK ev \in Ind : mq' = Post(mq, Msg(ev))
    BY <1>6 DEF cb_connect_ind, cb_disconnect_ind, wifi_mgmr_event_notify, Ind
  <2>2. Msg(ev) \in Message /\ Msg(ev).ev # "RECONNECT"
    BY Messages DEF Internal, Ind
  <2> QED
    BY <1>1, <2>1, <2>2, PostQueue DEF QueueOK
<1>7. CASE UNCHANGED vars
  BY <1>1, <1>7 DEF vars
<1> QED
  BY <1>2, <1>3, <1>4, <1>5, <1>6, <1>7
  DEF Next, Manager, Timers, Station, TcpIp, Request

(* Address, DHCP client and denoising end with the link. *)
LEMMA EndsStep == IInv /\ [Next]_vars => EndsWithLink'
<1> SUFFICES ASSUME IInv, [Next]_vars PROVE EndsWithLink'
  OBVIOUS
<1>1. CASE connect_pending
  BY <1>1
  DEF connect_pending, Recv, ipVars, denoiseVars, IInv, TypeOK, FlagsOK, EndsWithLink
<1>2. CASE connect_start
  BY <1>2
  DEF connect_start, Recv, ipVars, denoiseVars, IInv, TypeOK, FlagsOK, EndsWithLink
<1>3. CASE connect_refused
  BY <1>3
  DEF connect_refused, Recv, ipVars, denoiseVars, IInv, TypeOK, FlagsOK, EndsWithLink
<1>4. CASE ind_connected
  BY <1>4
  DEF ind_connected, Recv, stateConnectedIPNoEnter, sta_setup_ip, SetupBits,
      AddrAfterStop, ipVars, denoiseVars, IInv, TypeOK, FlagsOK, EndsWithLink
<1>5. CASE ind_join_failed
  BY <1>5
  DEF ind_join_failed, Recv, stateDisconnect_enter, ipVars, denoiseVars, IInv, TypeOK,
      FlagsOK, EndsWithLink
<1>6. CASE ind_link_lost
  BY <1>6
  DEF ind_link_lost, Recv, LinkedStates, stateConnectedIPYes_exit, ClearAddress,
      ClearBits, stateDisconnect_enter, IInv, TypeOK, FlagsOK, EndsWithLink
<1>7. CASE reconnect
  BY <1>7 DEF reconnect, Recv, ipVars, denoiseVars, IInv, TypeOK, FlagsOK, EndsWithLink
<1>8. CASE disconnect_joining
  BY <1>8
  DEF disconnect_joining, Recv, ipVars, denoiseVars, IInv, TypeOK, FlagsOK,
      EndsWithLink
<1>9. CASE disconnect_linked
  BY <1>9
  DEF disconnect_linked, Recv, ipVars, denoiseVars, IInv, TypeOK, FlagsOK,
      EndsWithLink
<1>10. CASE fw_disconnect
  BY <1>10
  DEF fw_disconnect, Recv, ipVars, denoiseVars, IInv, TypeOK, FlagsOK, EndsWithLink
<1>11. CASE idle
  BY <1>11 DEF idle, Recv, ipVars, denoiseVars, IInv, TypeOK, FlagsOK, EndsWithLink
<1>12. CASE disable_autoreconnect
  BY <1>12
  DEF disable_autoreconnect, Recv, ipVars, denoiseVars, IInv, TypeOK, FlagsOK,
      EndsWithLink
<1>13. CASE enable_autoreconnect
  BY <1>13
  DEF enable_autoreconnect, Recv, ipVars, denoiseVars, IInv, TypeOK, FlagsOK,
      EndsWithLink
<1>14. CASE fw_scan
  BY <1>14 DEF fw_scan, Recv, ipVars, denoiseVars, IInv, TypeOK, FlagsOK, EndsWithLink
<1>15. CASE sniffer
  BY <1>15 DEF sniffer, Recv, ipVars, denoiseVars, IInv, TypeOK, FlagsOK, EndsWithLink
<1>16. CASE phy_up
  BY <1>16 DEF phy_up, Recv, ipVars, denoiseVars, IInv, TypeOK, FlagsOK, EndsWithLink
<1>17. CASE ap_start
  BY <1>17 DEF ap_start, Recv, ipVars, denoiseVars, IInv, TypeOK, FlagsOK, EndsWithLink
<1>18. CASE ap_stop
  BY <1>18 DEF ap_stop, Recv, ipVars, denoiseVars, IInv, TypeOK, FlagsOK, EndsWithLink
<1>19. CASE denoise
  BY <1>19 DEF denoise, Recv, ipVars, IInv, TypeOK, FlagsOK, EndsWithLink
<1>20. CASE forward
  BY <1>20 DEF forward, Recv, ipVars, denoiseVars, IInv, TypeOK, FlagsOK, EndsWithLink
<1>21. CASE ignore
  BY <1>21
  DEF ignore, Ignored, LinkedStates, ipVars, denoiseVars, IInv, TypeOK, FlagsOK,
      EndsWithLink
<1>22. CASE handle_pending_task
  <2>1. CASE pending_connect
    BY <1>22, <2>1
    DEF handle_pending_task, pending_connect, ipVars, IInv, TypeOK, FlagsOK,
        EndsWithLink
  <2>2. CASE pending_ip_update
    BY <1>22, <2>2
    DEF handle_pending_task, pending_ip_update, stateConnectedIPYes_exit,
        stateConnectedIPNoEnter, sta_setup_ip, SetupBits, AddrAfterStop, ipVars, IInv,
        TypeOK, FlagsOK, EndsWithLink
  <2>3. CASE pending_ip_got
    BY <1>22, <2>3
    DEF handle_pending_task, pending_ip_got, ipVars, IInv, TypeOK, FlagsOK,
        EndsWithLink
  <2>4. CASE pending_none
    BY <1>22, <2>4
    DEF handle_pending_task, pending_none, ipVars, IInv, TypeOK, FlagsOK, EndsWithLink
  <2> QED
    BY <1>22, <2>1, <2>2, <2>3, <2>4 DEF handle_pending_task
<1>23. CASE ip_obtaining_timeout
  BY <1>23
  DEF ip_obtaining_timeout, ipVars, denoiseVars, IInv, TypeOK, FlagsOK, EndsWithLink
<1>24. CASE disconnect_retry
  BY <1>24
  DEF disconnect_retry, RetryIndex, profile_add, ipVars, denoiseVars, IInv, TypeOK,
      FlagsOK, EndsWithLink
<1>25. CASE trigger_auto_denoise
  BY <1>25 DEF trigger_auto_denoise, ipVars, IInv, TypeOK, FlagsOK, EndsWithLink
<1>26. CASE cb_connect_ind
  BY <1>26 DEF cb_connect_ind, ipVars, denoiseVars, IInv, TypeOK, FlagsOK, EndsWithLink
<1>27. CASE cb_disconnect_ind
  BY <1>27
  DEF cb_disconnect_ind, ipVars, denoiseVars, IInv, TypeOK, FlagsOK, EndsWithLink
<1>28. CASE dhcp_bound
  BY <1>28 DEF dhcp_bound, denoiseVars, IInv, TypeOK, FlagsOK, EndsWithLink
<1>29. CASE dhcp_lease_lost
  BY <1>29 DEF dhcp_lease_lost, denoiseVars, IInv, TypeOK, FlagsOK, EndsWithLink
<1>30. ASSUME NEW op \in AppOp, App(op) PROVE EndsWithLink'
  BY <1>30 DEF App, ipVars, denoiseVars, IInv, TypeOK, FlagsOK, EndsWithLink
<1>31. CASE rx_sm_disconnect_ind
  BY <1>31 DEF rx_sm_disconnect_ind, denoiseVars, IInv, TypeOK, FlagsOK, EndsWithLink
<1>32. CASE UNCHANGED vars
  BY <1>32 DEF vars, IInv, TypeOK, FlagsOK, EndsWithLink, State
<1> QED
  BY <1>1, <1>2, <1>3, <1>4, <1>5, <1>6, <1>7, <1>8, <1>9, <1>10, <1>11, <1>12, <1>13,
     <1>14, <1>15, <1>16, <1>17, <1>18, <1>19, <1>20, <1>21, <1>22, <1>23, <1>24,
     <1>25, <1>26, <1>27, <1>28, <1>29, <1>30, <1>31, <1>32
  DEF Next, Manager, Timers, Station, TcpIp

(* A pending bit always comes with a message or a look at the bits. *)
LEMMA WakeupStep == IInv /\ [Next]_vars => WakeupNotLost'
<1> SUFFICES ASSUME IInv, [Next]_vars PROVE WakeupNotLost'
  OBVIOUS
<1>1. CASE connect_pending
  BY <1>1 DEF connect_pending, Recv, WakeupNotLost
<1>2. CASE connect_start
  BY <1>2 DEF connect_start, RecvOnly, Recv, WakeupNotLost
<1>3. CASE connect_refused
  BY <1>3 DEF connect_refused, RecvOnly, Recv, WakeupNotLost
<1>4. CASE ind_connected
  BY <1>4 DEF ind_connected, Recv, WakeupNotLost
<1>5. CASE ind_join_failed
  BY <1>5 DEF ind_join_failed, Recv, WakeupNotLost
<1>6. CASE ind_link_lost
  BY <1>6 DEF ind_link_lost, Recv, WakeupNotLost
<1>7. CASE reconnect
  BY <1>7 DEF reconnect, RecvOnly, Recv, WakeupNotLost
<1>8. CASE disconnect_joining
  BY <1>8 DEF disconnect_joining, RecvOnly, Recv, WakeupNotLost
<1>9. CASE disconnect_linked
  BY <1>9 DEF disconnect_linked, RecvOnly, Recv, WakeupNotLost
<1>10. CASE fw_disconnect
  BY <1>10 DEF fw_disconnect, RecvOnly, Recv, WakeupNotLost
<1>11. CASE idle
  BY <1>11 DEF idle, RecvOnly, Recv, WakeupNotLost
<1>12. CASE disable_autoreconnect
  BY <1>12 DEF disable_autoreconnect, RecvOnly, Recv, WakeupNotLost
<1>13. CASE enable_autoreconnect
  BY <1>13 DEF enable_autoreconnect, RecvOnly, Recv, WakeupNotLost
<1>14. CASE fw_scan
  BY <1>14 DEF fw_scan, RecvOnly, Recv, WakeupNotLost
<1>15. CASE sniffer
  BY <1>15 DEF sniffer, RecvOnly, Recv, WakeupNotLost
<1>16. CASE phy_up
  BY <1>16 DEF phy_up, RecvOnly, Recv, WakeupNotLost
<1>17. CASE ap_start
  BY <1>17 DEF ap_start, RecvOnly, Recv, WakeupNotLost
<1>18. CASE ap_stop
  BY <1>18 DEF ap_stop, RecvOnly, Recv, WakeupNotLost
<1>19. CASE denoise
  BY <1>19 DEF denoise, RecvOnly, Recv, WakeupNotLost
<1>20. CASE forward
  BY <1>20 DEF forward, RecvOnly, Recv, WakeupNotLost
<1>21. CASE ignore
  BY <1>21 DEF ignore, WakeupNotLost
<1>22. CASE handle_pending_task
  <2>1. CASE pending_connect
    BY <2>1 DEF pending_connect, WakeupNotLost
  <2>2. CASE pending_ip_update
    BY <1>22, <2>2 DEF handle_pending_task, pending_ip_update, WakeupNotLost
  <2>3. CASE pending_ip_got
    BY <1>22, <2>3 DEF handle_pending_task, pending_ip_got, WakeupNotLost
  <2>4. CASE pending_none
    BY <2>4 DEF pending_none, WakeupNotLost
  <2> QED
    BY <1>22, <2>1, <2>2, <2>3, <2>4 DEF handle_pending_task
<1>23. CASE ip_obtaining_timeout
  <2>1. Quiet(mq, mq') /\ UNCHANGED <<pending, mpc>>
    BY <1>23, QuietSteps DEF ip_obtaining_timeout, IInv, TypeOK
  <2> QED
    BY <2>1 DEF Quiet, IInv, WakeupNotLost
<1>24. CASE disconnect_retry
  <2>1. mq' = mq \/ mq' = Post(mq, Msg("RECONNECT"))
    BY <1>24 DEF disconnect_retry, wifi_mgmr_event_notify
  <2>2. mq # <<>> => mq' # <<>>
    BY <2>1, PostQueue, Messages DEF Internal, IInv, TypeOK, QueueOK
  <2> QED
    BY <1>24, <2>2 DEF disconnect_retry, IInv, WakeupNotLost
<1>25. CASE trigger_auto_denoise
  <2>1. Quiet(mq, mq') /\ UNCHANGED <<pending, mpc>>
    BY <1>25, QuietSteps DEF trigger_auto_denoise, IInv, TypeOK
  <2> QED
    BY <2>1 DEF Quiet, IInv, WakeupNotLost
<1>26. CASE cb_connect_ind
  <2>1. mq' # <<>>
    BY <1>26, PostQueue, Messages
    DEF cb_connect_ind, wifi_mgmr_event_notify, Internal, IInv, TypeOK, QueueOK
  <2> QED
    BY <2>1 DEF WakeupNotLost
<1>27. CASE cb_disconnect_ind
  <2>1. mq' # <<>>
    BY <1>27, PostQueue, Messages
    DEF cb_disconnect_ind, wifi_mgmr_event_notify, Internal, IInv, TypeOK, QueueOK
  <2> QED
    BY <2>1 DEF WakeupNotLost
<1>28. CASE dhcp_bound
  <2>1. mq' # <<>>
    BY <1>28, QuietWakeups DEF dhcp_bound, netif_status_callback, IInv, TypeOK, QueueOK
  <2> QED
    BY <2>1 DEF WakeupNotLost
<1>29. CASE dhcp_lease_lost
  <2>1. mq' # <<>>
    BY <1>29, QuietWakeups
    DEF dhcp_lease_lost, netif_status_callback, IInv, TypeOK, QueueOK
  <2> QED
    BY <2>1 DEF WakeupNotLost
<1>30. ASSUME NEW op \in AppOp, App(op) PROVE WakeupNotLost'
  <2>1. CASE op = "IP_SET" \/ op = "IP_UNSET"
    <3>1. mq' = Wakeups(mq, 1)
      BY <1>30, <2>1 DEF App, sta_ip_set
    <3> QED
      BY <3>1, QuietWakeups DEF WakeupNotLost, IInv, TypeOK, QueueOK
  <2>2. CASE op \notin {"IP_SET", "IP_UNSET"}
    <3>1. Quiet(mq, mq')
      BY <1>30, QuietSteps DEF IInv, TypeOK
    <3>2. UNCHANGED <<pending, mpc>>
      BY <1>30, <2>2 DEF App, sta_connect, api_common
    <3> QED
      BY <3>1, <3>2 DEF Quiet, IInv, WakeupNotLost
  <2> QED
    BY <2>1, <2>2
<1>31. CASE rx_sm_disconnect_ind
  <2>1. CASE addr # "none"
    <3>1. mq' # <<>>
      BY <1>31, <2>1, QuietWakeups
      DEF rx_sm_disconnect_ind, netif_status_callback, IInv, TypeOK, QueueOK
    <3> QED
      BY <3>1 DEF WakeupNotLost
  <2>2. CASE addr = "none"
    BY <1>31, <2>2 DEF rx_sm_disconnect_ind, IInv, WakeupNotLost
  <2> QED
    BY <2>1, <2>2
<1>32. CASE UNCHANGED vars
  BY <1>32 DEF vars, IInv, WakeupNotLost
<1> QED
  BY <1>1, <1>2, <1>3, <1>4, <1>5, <1>6, <1>7, <1>8, <1>9, <1>10, <1>11, <1>12, <1>13,
     <1>14, <1>15, <1>16, <1>17, <1>18, <1>19, <1>20, <1>21, <1>22, <1>23, <1>24,
     <1>25, <1>26, <1>27, <1>28, <1>29, <1>30, <1>31, <1>32
  DEF Next, Manager, Timers, Station, TcpIp

(* The interfaces stay where the manager has recorded them. *)
LEMMA VifStep == IInv /\ [Next]_vars => VifSound'
<1> SUFFICES ASSUME IInv, [Next]_vars PROVE VifSound'
  OBVIOUS
<1>1. CASE connect_pending
  BY <1>1
  DEF connect_pending, Recv, vifVars, IInv, VifSound, TypeOK, DataOK, VifIntact,
      OneSta, Busy, Linked, State, Lag
<1>2. CASE connect_start
  BY <1>2
  DEF connect_start, Recv, bl_main_if_add, vifVars, IInv, VifSound, TypeOK, DataOK,
      VifIntact, OneSta, Busy, Linked, State, Lag
<1>3. CASE connect_refused
  BY <1>3
  DEF connect_refused, Recv, vifVars, IInv, VifSound, TypeOK, DataOK, VifIntact,
      OneSta, Busy, Linked, State, Lag
<1>4. CASE ind_connected
  BY <1>4
  DEF ind_connected, Recv, stateConnectedIPNoEnter, SetupBits, vifVars, IInv,
      VifSound, TypeOK, DataOK, VifIntact, OneSta, Busy, Linked, State, Lag
<1>5. CASE ind_join_failed
  BY <1>5
  DEF ind_join_failed, Recv, stateDisconnect_enter, vifVars, IInv, VifSound, TypeOK,
      DataOK, VifIntact, OneSta, Busy, Linked, State, Lag
<1>6. CASE ind_link_lost
  BY <1>6
  DEF ind_link_lost, Recv, LinkedStates, ClearBits, stateDisconnect_enter, vifVars,
      IInv, VifSound, TypeOK, DataOK, VifIntact, OneSta, Busy, Linked, State, Lag
<1>7. CASE reconnect
  BY <1>7
  DEF reconnect, Recv, vifVars, IInv, VifSound, TypeOK, DataOK, VifIntact, OneSta,
      Busy, Linked, State, Lag
<1>8. CASE disconnect_joining
  BY <1>8
  DEF disconnect_joining, Recv, vifVars, IInv, VifSound, TypeOK, DataOK, VifIntact,
      OneSta, Busy, Linked, State, Lag
<1>9. CASE disconnect_linked
  BY <1>9
  DEF disconnect_linked, Recv, vifVars, IInv, VifSound, TypeOK, DataOK, VifIntact,
      OneSta, Busy, Linked, State, Lag
<1>10. CASE fw_disconnect
  BY <1>10
  DEF fw_disconnect, Recv, vifVars, IInv, VifSound, TypeOK, DataOK, VifIntact, OneSta,
      Busy, Linked, State, Lag
<1>11. CASE idle
  BY <1>11
  DEF idle, Recv, bl_main_if_remove_sta, vifVars, IInv, VifSound, TypeOK, DataOK,
      VifIntact, OneSta, Busy, Linked, State, Lag
<1>12. CASE disable_autoreconnect
  BY <1>12
  DEF disable_autoreconnect, Recv, bl_main_if_remove_sta, vifVars, IInv, VifSound,
      TypeOK, DataOK, VifIntact, OneSta, Busy, Linked, State, Lag
<1>13. CASE enable_autoreconnect
  BY <1>13
  DEF enable_autoreconnect, Recv, vifVars, IInv, VifSound, TypeOK, DataOK, VifIntact,
      OneSta, Busy, Linked, State, Lag
<1>14. CASE fw_scan
  BY <1>14
  DEF fw_scan, Recv, vifVars, IInv, VifSound, TypeOK, DataOK, VifIntact, OneSta, Busy,
      Linked, State, Lag
<1>15. CASE sniffer
  BY <1>15
  DEF sniffer, Recv, vifVars, IInv, VifSound, TypeOK, DataOK, VifIntact, OneSta, Busy,
      Linked, State, Lag
<1>16. CASE phy_up
  BY <1>16
  DEF phy_up, Recv, vifVars, IInv, VifSound, TypeOK, DataOK, VifIntact, OneSta, Busy,
      Linked, State, Lag
<1>17. CASE ap_start
  BY <1>17
  DEF ap_start, Recv, bl_main_if_add, IInv, VifSound, TypeOK, DataOK, VifIntact,
      OneSta, Busy, Linked, State, Lag
<1>18. CASE ap_stop
  BY <1>18
  DEF ap_stop, Recv, IInv, VifSound, TypeOK, DataOK, VifIntact, OneSta, Busy, Linked,
      State, Lag
<1>19. CASE denoise
  BY <1>19
  DEF denoise, Recv, vifVars, IInv, VifSound, TypeOK, DataOK, VifIntact, OneSta, Busy,
      Linked, State, Lag
<1>20. CASE forward
  BY <1>20
  DEF forward, Recv, vifVars, IInv, VifSound, TypeOK, DataOK, VifIntact, OneSta, Busy,
      Linked, State, Lag
<1>21. CASE ignore
  BY <1>21
  DEF ignore, Ignored, LinkedStates, vifVars, IInv, VifSound, TypeOK, DataOK,
      VifIntact, OneSta, Busy, Linked, State, Lag
<1>22. CASE handle_pending_task
  <2>1. CASE pending_connect
    BY <1>22, <2>1
    DEF handle_pending_task, pending_connect, vifVars, IInv, VifSound, TypeOK, DataOK,
        VifIntact, OneSta, Busy, Linked, State, Lag
  <2>2. CASE pending_ip_update
    BY <1>22, <2>2
    DEF handle_pending_task, pending_ip_update, stateConnectedIPNoEnter, SetupBits,
        vifVars, IInv, VifSound, TypeOK, DataOK, VifIntact, OneSta, Busy, Linked,
        State, Lag
  <2>3. CASE pending_ip_got
    BY <1>22, <2>3
    DEF handle_pending_task, pending_ip_got, vifVars, IInv, VifSound, TypeOK, DataOK,
        VifIntact, OneSta, Busy, Linked, State, Lag
  <2>4. CASE pending_none
    BY <1>22, <2>4
    DEF handle_pending_task, pending_none, vifVars, IInv, VifSound, TypeOK, DataOK,
        VifIntact, OneSta, Busy, Linked, State, Lag
  <2> QED
    BY <1>22, <2>1, <2>2, <2>3, <2>4 DEF handle_pending_task
<1>23. CASE ip_obtaining_timeout
  BY <1>23
  DEF ip_obtaining_timeout, vifVars, IInv, VifSound, TypeOK, DataOK, VifIntact,
      OneSta, Busy, Linked, State, Lag
<1>24. CASE disconnect_retry
  BY <1>24
  DEF disconnect_retry, RetryIndex, vifVars, IInv, VifSound, TypeOK, DataOK,
      VifIntact, OneSta, Busy, Linked, State, Lag
<1>25. CASE trigger_auto_denoise
  BY <1>25
  DEF trigger_auto_denoise, vifVars, IInv, VifSound, TypeOK, DataOK, VifIntact,
      OneSta, Busy, Linked, State, Lag
<1>26. CASE cb_connect_ind
  BY <1>26
  DEF cb_connect_ind, vifVars, IInv, VifSound, TypeOK, DataOK, VifIntact, OneSta,
      Busy, Linked, State, Lag
<1>27. CASE cb_disconnect_ind
  BY <1>27
  DEF cb_disconnect_ind, vifVars, IInv, VifSound, TypeOK, DataOK, VifIntact, OneSta,
      Busy, Linked, State, Lag
<1>28. CASE dhcp_bound
  BY <1>28
  DEF dhcp_bound, vifVars, IInv, VifSound, TypeOK, DataOK, VifIntact, OneSta, Busy,
      Linked, State, Lag
<1>29. CASE dhcp_lease_lost
  BY <1>29
  DEF dhcp_lease_lost, vifVars, IInv, VifSound, TypeOK, DataOK, VifIntact, OneSta,
      Busy, Linked, State, Lag
<1>30. ASSUME NEW op \in AppOp, App(op) PROVE VifSound'
  BY <1>30
  DEF App, vifVars, IInv, VifSound, TypeOK, DataOK, VifIntact, OneSta, Busy, Linked,
      State, Lag
<1>31. CASE rx_sm_disconnect_ind
  BY <1>31
  DEF rx_sm_disconnect_ind, vifVars, IInv, VifSound, TypeOK, DataOK, VifIntact, OneSta,
      Busy, Linked, State, Lag
<1>32. CASE UNCHANGED vars
  BY <1>32
  DEF vars, IInv, VifSound, TypeOK, DataOK, VifIntact, OneSta, Busy, Linked, State,
      Lag
<1> QED
  BY <1>1, <1>2, <1>3, <1>4, <1>5, <1>6, <1>7, <1>8, <1>9, <1>10, <1>11, <1>12, <1>13,
     <1>14, <1>15, <1>16, <1>17, <1>18, <1>19, <1>20, <1>21, <1>22, <1>23, <1>24,
     <1>25, <1>26, <1>27, <1>28, <1>29, <1>30, <1>31, <1>32
  DEF Next, Manager, Timers, Station, TcpIp

(* Where no lease is lost unseen, a report of an address is about the     *)
(* present one.                                                            *)
LEMMA AddressStep == ~ShortLease /\ IInv /\ AddrSound /\ [Next]_vars => AddrSound'
<1> SUFFICES ASSUME ~ShortLease /\ IInv /\ AddrSound, [Next]_vars PROVE AddrSound'
  OBVIOUS
<1>1. CASE connect_pending
  BY <1>1
  DEF connect_pending, Recv, ipVars, fwVars, IInv, TypeOK, AddrSound, GotIsFresh,
      YesIsTold, EndsWithLink, Linked
<1>2. CASE connect_start
  BY <1>2
  DEF connect_start, RecvOnly, Recv, stateExit, ipVars, fwVars, IInv, TypeOK, AddrSound,
      GotIsFresh, YesIsTold, EndsWithLink, Linked
<1>3. CASE connect_refused
  BY <1>3
  DEF connect_refused, RecvOnly, Recv, ipVars, fwVars, IInv, TypeOK, AddrSound,
      GotIsFresh, YesIsTold, EndsWithLink, Linked
<1>4. CASE ind_connected
  <2>1. addr = "none" /\ "IP_GOT" \notin pending /\ state' = "IPNo"
    BY <1>4
    DEF ind_connected, stateConnectedIPNoEnter, Recv, IInv, EndsWithLink, AddrSound,
        GotIsFresh, Linked
  <2>2. ipv4 # "none" /\ "CONNECT" \notin pending => addr' = ipv4
    BY <1>4 DEF ind_connected, stateConnectedIPNoEnter, sta_setup_ip
  <2>3. "IP_GOT" \in pending' => ipv4 # "none" /\ "CONNECT" \notin pending
    BY <1>4, <2>1 DEF ind_connected, stateConnectedIPNoEnter, SetupBits
  <2> QED
    BY <2>1, <2>2, <2>3 DEF AddrSound, GotIsFresh, YesIsTold
<1>5. CASE ind_join_failed
  BY <1>5
  DEF ind_join_failed, Recv, stateDisconnect_enter, ipVars, fwVars, IInv, TypeOK,
      AddrSound, GotIsFresh, YesIsTold, EndsWithLink, Linked
<1>6. CASE ind_link_lost
  BY <1>6
  DEF ind_link_lost, Recv, LinkedStates, ClearAddress, ClearBits,
      stateDisconnect_enter, IInv, TypeOK, AddrSound, GotIsFresh, YesIsTold,
      EndsWithLink, Linked
<1>7. CASE reconnect
  BY <1>7
  DEF reconnect, RecvOnly, Recv, ipVars, fwVars, IInv, TypeOK, AddrSound, GotIsFresh,
      YesIsTold, EndsWithLink, Linked
<1>8. CASE disconnect_joining
  BY <1>8
  DEF disconnect_joining, RecvOnly, Recv, ipVars, fwVars, IInv, TypeOK, AddrSound,
      GotIsFresh, YesIsTold, EndsWithLink, Linked
<1>9. CASE disconnect_linked
  BY <1>9
  DEF disconnect_linked, bl_main_disconnect, RecvOnly, Recv, ipVars, fwVars, IInv,
      TypeOK, AddrSound, GotIsFresh, YesIsTold, EndsWithLink, Linked
<1>10. CASE fw_disconnect
  BY <1>10
  DEF fw_disconnect, bl_main_disconnect, RecvOnly, Recv, ipVars, fwVars, IInv, TypeOK,
      AddrSound, GotIsFresh, YesIsTold, EndsWithLink, Linked
<1>11. CASE idle
  BY <1>11
  DEF idle, RecvOnly, Recv, stateExit, ipVars, fwVars, IInv, TypeOK, AddrSound,
      GotIsFresh, YesIsTold, EndsWithLink, Linked
<1>12. CASE disable_autoreconnect
  BY <1>12
  DEF disable_autoreconnect, RecvOnly, Recv, ipVars, fwVars, IInv, TypeOK, AddrSound,
      GotIsFresh, YesIsTold, EndsWithLink, Linked
<1>13. CASE enable_autoreconnect
  BY <1>13
  DEF enable_autoreconnect, RecvOnly, Recv, ipVars, fwVars, IInv, TypeOK, AddrSound,
      GotIsFresh, YesIsTold, EndsWithLink, Linked
<1>14. CASE fw_scan
  BY <1>14
  DEF fw_scan, RecvOnly, Recv, ipVars, fwVars, IInv, TypeOK, AddrSound, GotIsFresh,
      YesIsTold, EndsWithLink, Linked
<1>15. CASE sniffer
  BY <1>15
  DEF sniffer, RecvOnly, Recv, stateExit, ipVars, fwVars, IInv, TypeOK, AddrSound,
      GotIsFresh, YesIsTold, EndsWithLink, Linked
<1>16. CASE phy_up
  BY <1>16
  DEF phy_up, RecvOnly, Recv, stateExit, ipVars, fwVars, IInv, TypeOK, AddrSound,
      GotIsFresh, YesIsTold, EndsWithLink, Linked
<1>17. CASE ap_start
  BY <1>17
  DEF ap_start, RecvOnly, Recv, ipVars, fwVars, IInv, TypeOK, AddrSound, GotIsFresh,
      YesIsTold, EndsWithLink, Linked
<1>18. CASE ap_stop
  BY <1>18
  DEF ap_stop, RecvOnly, Recv, ipVars, fwVars, IInv, TypeOK, AddrSound, GotIsFresh,
      YesIsTold, EndsWithLink, Linked
<1>19. CASE denoise
  BY <1>19
  DEF denoise, RecvOnly, Recv, ipVars, fwVars, IInv, TypeOK, AddrSound, GotIsFresh,
      YesIsTold, EndsWithLink, Linked
<1>20. CASE forward
  BY <1>20
  DEF forward, RecvOnly, Recv, ipVars, fwVars, IInv, TypeOK, AddrSound, GotIsFresh,
      YesIsTold, EndsWithLink, Linked
<1>21. CASE ignore
  BY <1>21
  DEF ignore, Ignored, LinkedStates, ipVars, fwVars, IInv, TypeOK, AddrSound,
      GotIsFresh, YesIsTold, EndsWithLink, Linked
<1>22. CASE handle_pending_task
  <2>1. CASE pending_connect
    BY <1>22, <2>1
    DEF handle_pending_task, pending_connect, ipVars, fwVars, IInv, TypeOK, AddrSound,
        GotIsFresh, YesIsTold, EndsWithLink, Linked
  <2>2. CASE pending_ip_update
    BY <1>22, <2>2
    DEF handle_pending_task, pending_ip_update, stateConnectedIPNoEnter, sta_setup_ip,
        SetupBits, AddrAfterStop, ipVars, fwVars, IInv, TypeOK, AddrSound, GotIsFresh,
        YesIsTold, EndsWithLink, Linked
  <2>3. CASE pending_ip_got
    BY <1>22, <2>3
    DEF handle_pending_task, pending_ip_got, ipVars, fwVars, IInv, TypeOK, AddrSound,
        GotIsFresh, YesIsTold, EndsWithLink, Linked
  <2>4. CASE pending_none
    BY <1>22, <2>4
    DEF handle_pending_task, pending_none, ipVars, fwVars, IInv, TypeOK, AddrSound,
        GotIsFresh, YesIsTold, EndsWithLink, Linked
  <2> QED
    BY <1>22, <2>1, <2>2, <2>3, <2>4 DEF handle_pending_task
<1>23. CASE ip_obtaining_timeout
  BY <1>23
  DEF ip_obtaining_timeout, ipVars, fwVars, IInv, TypeOK, AddrSound, GotIsFresh,
      YesIsTold, EndsWithLink, Linked
<1>24. CASE disconnect_retry
  BY <1>24
  DEF disconnect_retry, ipVars, fwVars, TimersMatchState, IInv, TypeOK, AddrSound,
      GotIsFresh, YesIsTold, EndsWithLink, Linked
<1>25. CASE trigger_auto_denoise
  BY <1>25
  DEF trigger_auto_denoise, ipVars, fwVars, IInv, TypeOK, AddrSound, GotIsFresh,
      YesIsTold, EndsWithLink, Linked
<1>26. CASE cb_connect_ind
  BY <1>26
  DEF cb_connect_ind, ipVars, fwVars, IInv, TypeOK, AddrSound, GotIsFresh, YesIsTold,
      EndsWithLink, Linked
<1>27. CASE cb_disconnect_ind
  BY <1>27
  DEF cb_disconnect_ind, ipVars, fwVars, IInv, TypeOK, AddrSound, GotIsFresh, YesIsTold,
      EndsWithLink, Linked
<1>28. CASE dhcp_bound
  BY <1>28
  DEF dhcp_bound, netif_status_callback, IInv, TypeOK, AddrSound, GotIsFresh,
      YesIsTold, EndsWithLink, Linked
<1>29. CASE dhcp_lease_lost
  BY <1>29
  DEF dhcp_lease_lost, netif_status_callback, IInv, TypeOK, AddrSound, GotIsFresh,
      YesIsTold, EndsWithLink, Linked
<1>30. ASSUME NEW op \in AppOp, App(op) PROVE AddrSound'
  <2>1. pending \subseteq pending' /\ pending' \subseteq pending \cup {"IP_UPDATE"}
    <3>1. CASE op = "IP_SET"
      BY <1>30, <3>1 DEF App, sta_ip_set
    <3>2. CASE op = "IP_UNSET"
      BY <1>30, <3>2 DEF App, sta_ip_set
    <3>3. CASE op \notin {"IP_SET", "IP_UNSET"}
      BY <1>30, <3>3 DEF App, sta_connect, api_common
    <3> QED
      BY <3>1, <3>2, <3>3
  <2> QED
    BY <1>30, <2>1 DEF App, ipVars, fwVars, AddrSound, GotIsFresh, YesIsTold
<1>31. CASE rx_sm_disconnect_ind
  BY <1>31
  DEF rx_sm_disconnect_ind, netif_status_callback, IInv, TypeOK, AddrSound, GotIsFresh,
      YesIsTold, EndsWithLink, Linked
<1>32. CASE UNCHANGED vars
  BY <1>32
  DEF vars, IInv, TypeOK, AddrSound, GotIsFresh, YesIsTold, EndsWithLink, Linked
<1> QED
  BY <1>1, <1>2, <1>3, <1>4, <1>5, <1>6, <1>7, <1>8, <1>9, <1>10, <1>11, <1>12, <1>13,
     <1>14, <1>15, <1>16, <1>17, <1>18, <1>19, <1>20, <1>21, <1>22, <1>23, <1>24,
     <1>25, <1>26, <1>27, <1>28, <1>29, <1>30, <1>31, <1>32
  DEF Next, Manager, Timers, Station, TcpIp

-----------------------------------------------------------------------------
(* The invariant holds when wifi_mgmr_start has posted PHY_UP. *)
LEMMA InitIInv == Init => IInv
<1> SUFFICES ASSUME Init PROVE IInv
  OBVIOUS
<1> DEFINE m == Msg("PHY_UP")
<1>1. m \in Message /\ m.ev = "PHY_UP"
  BY DEF Msg, Message, Op
<1>2. mq = <<m>>
  BY DEF Init
<1> HIDE DEF m
<1>3. /\ mq \in Seq(Message) /\ Len(mq) = 1 /\ DOMAIN mq = {1} /\ mq[1] = m /\ mq # <<>>
  BY <1>1, <1>2
<1>4. QueueOK
  BY <1>3, MgmrAssumption DEF QueueOK
<1>5. DataOK
  BY MgmrAssumption DEF Init, DataOK, State
<1>6. FlagsOK
  BY DEF Init, FlagsOK
<1>7. NoInd(mq) /\ RetryFirst(mq)
  BY <1>1, <1>3 DEF NoInd, RetryFirst, IsInd, Ind
<1>8. Lag /\ TimersMatchState /\ ProfilesSet /\ NeverStranded
  BY <1>7 DEF Init, Lag, Busy, Linked, TimersMatchState, ProfilesSet, NeverStranded
<1>9. RetryUsesDefault /\ EndsWithLink /\ WakeupNotLost
  BY DEF Init, RetryUsesDefault, TtlFresh, EndsWithLink, WakeupNotLost
<1>10. VifSound
  BY DEF Init, VifSound, VifIntact, OneSta
<1> QED
  BY <1>4, <1>5, <1>6, <1>7, <1>8, <1>9, <1>10 DEF IInv, TypeOK

(* The inductive invariant, for every set of profiles, queue length and    *)
(* mixture of calls.                                                       *)
THEOREM Inductive == Spec => []IInv
<1>1. IInv /\ [Next]_vars => IInv'
  <2> SUFFICES ASSUME IInv, [Next]_vars PROVE IInv'
    OBVIOUS
  <2>1. QueueOK' /\ DataOK' /\ FlagsOK'
    BY QueueStep, DataStep, FlagsStep
  <2>2. Lag' /\ TimersMatchState' /\ ProfilesSet'
    BY LagStep, TimersStep, ProfilesStep
  <2>3. NeverStranded' /\ RetryUsesDefault' /\ RetryFirst(mq)'
    BY StrandedStep, RetryStep, RetryFirstStep
  <2>4. EndsWithLink' /\ WakeupNotLost' /\ VifSound'
    BY EndsStep, WakeupStep, VifStep
  <2> QED
    BY <2>1, <2>2, <2>3, <2>4 DEF IInv, TypeOK
<1> QED
  BY InitIInv, <1>1, PTL DEF Spec

(* TypeOK: every variable keeps its type, and wifiMgmr.mq never holds more *)
(* than WIFI_MGMR_MQ_MSG_COUNT messages.                                   *)
THEOREM Types == Spec => []TypeOK
<1>1. IInv => TypeOK
  BY DEF IInv
<1> QED
  BY Inductive, <1>1, PTL

(* StateFollowsFw: the state machine and the firmware's station are apart  *)
(* only by an indication that is still in the queue, unless one was lost.  *)
THEOREM Follows == Spec => []StateFollowsFw
<1>1. IInv => StateFollowsFw
  <2> SUFFICES ASSUME IInv, ~lost PROVE StateFollowsFw
    BY DEF StateFollowsFw
  <2>1. \A ev \in Ind : OneInd(mq, ev) => Queued(ev)
    BY DEF OneInd, Queued
  <2>2. BothInd(mq) => Queued("IND_DISCONNECT")
    BY DEF BothInd, Queued
  <2> QED
    BY <2>1, <2>2 DEF StateFollowsFw, IInv, Lag, Busy, Linked, Ind
<1> QED
  BY Inductive, <1>1, PTL

(* TimersMatchState: stateDisconnect_exit and stateConnectedIPNoExit leave *)
(* no timer running behind them.                                           *)
THEOREM Timely == Spec => []TimersMatchState
<1>1. IInv => TimersMatchState
  BY DEF IInv
<1> QED
  BY Inductive, <1>1, PTL

(* NeverStranded: in Disconnect a timer, a reconnect or a request to be    *)
(* idle is always on its way, unless a message was lost.                   *)
THEOREM NotStranded == Spec => []NeverStranded
<1>1. IInv => NeverStranded
  BY DEF IInv
<1> QED
  BY Inductive, <1>1, PTL

(* RetryUsesDefault: what disconnect_retry prepared in the timer task is   *)
(* still the default profile, with its own counter, when the manager       *)
(* reconnects.                                                             *)
THEOREM RetriesDefault == Spec => []RetryUsesDefault
<1>1. IInv => RetryUsesDefault
  BY DEF IInv
<1> QED
  BY Inductive, <1>1, PTL

(* VifIntactUnlessStray: the interfaces the state relies on exist in the   *)
(* firmware at the recorded indices, as long as the access point is        *)
(* stopped only while it runs.                                             *)
THEOREM Interfaces == Spec => []VifIntactUnlessStray
<1>1. IInv => VifIntactUnlessStray
  BY DEF IInv, VifSound, VifIntactUnlessStray
<1> QED
  BY Inductive, <1>1, PTL

(* EndsWithLink: neither the address, nor the DHCP client, nor denoising   *)
(* outlives the connection.                                                *)
THEOREM Ends == Spec => []EndsWithLink
<1>1. IInv => EndsWithLink
  BY DEF IInv
<1> QED
  BY Inductive, <1>1, PTL

(* WakeupNotLost: a pending bit set by another task always has a message   *)
(* that makes the manager look at it, even where its own met a full queue. *)
THEOREM Wakes == Spec => []WakeupNotLost
<1>1. IInv => WakeupNotLost
  BY DEF IInv
<1> QED
  BY Inductive, <1>1, PTL

(* IPYesHasAddress, where no lease is lost before the manager has seen it: *)
(* "got IP" is said without an address only while the bit that corrects it *)
(* is set, or after the link has ended, and then its end is in the queue   *)
(* or was dropped there.                                                   *)
THEOREM HasAddress == ~ShortLease => (Spec => []IPYesHasAddress)
<1> SUFFICES ASSUME ~ShortLease PROVE Spec => []IPYesHasAddress
  OBVIOUS
<1>1. Init => AddrSound
  BY DEF Init, AddrSound, GotIsFresh, YesIsTold
<1>2. IInv /\ AddrSound /\ [Next]_vars => AddrSound'
  BY AddressStep
<1>3. IInv /\ AddrSound => IPYesHasAddress
  <2>1. OneInd(mq, "IND_DISCONNECT") => Queued("IND_DISCONNECT")
    BY DEF OneInd, Queued
  <2> QED
    BY <2>1 DEF IInv, Lag, Linked, AddrSound, YesIsTold, IPYesHasAddress
<1> QED
  BY Inductive, <1>1, <1>2, <1>3, PTL DEF Spec

=============================================================================
