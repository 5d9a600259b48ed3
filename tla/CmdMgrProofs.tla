---------------------------- MODULE CmdMgrProofs ----------------------------
EXTENDS CmdMgr, SequenceTheorems, TLAPS

(* RemoveAt(s, i), the list_del of a command: one shorter, the elements    *)
(* after position i move down by one.                                      *)
LEMMA RemoveAtProps ==
  ASSUME NEW S, NEW s \in Seq(S), NEW i \in DOMAIN s
  PROVE  /\ RemoveAt(s, i) \in Seq(S)
         /\ Len(RemoveAt(s, i)) = Len(s) - 1
         /\ \A j \in 1..(Len(s) - 1) :
              RemoveAt(s, i)[j] = IF j < i THEN s[j] ELSE s[j + 1]
<1>1. i \in 1..Len(s) /\ Len(s) \in Nat
  OBVIOUS
<1> DEFINE a == SubSeq(s, 1, i - 1)
           b == SubSeq(s, i + 1, Len(s))
<1>2. a \in Seq(S) /\ Len(a) = i - 1 /\ \A j \in 1..(i - 1) : a[j] = s[j]
  BY <1>1
<1>3. b \in Seq(S) /\ Len(b) = Len(s) - i /\ \A j \in 1..(Len(s) - i) : b[j] = s[i + j]
  BY <1>1
<1> HIDE DEF a, b
<1> DEFINE ab == a \o b
<1>4. RemoveAt(s, i) = ab
  BY DEF RemoveAt, a, b
<1>5. /\ ab \in Seq(S) /\ Len(ab) = Len(a) + Len(b)
      /\ \A j \in 1..(Len(a) + Len(b)) :
           ab[j] = IF j <= Len(a) THEN a[j] ELSE b[j - Len(a)]
  BY <1>2, <1>3, ConcatProperties
<1> HIDE DEF ab
<1>6. Len(ab) = Len(s) - 1
  BY <1>1, <1>2, <1>3, <1>5
<1>7. ASSUME NEW j \in 1..(Len(s) - 1)
      PROVE  ab[j] = IF j < i THEN s[j] ELSE s[j + 1]
  <2>1. j \in 1..(Len(a) + Len(b)) /\ (j <= Len(a) <=> j < i)
    BY <1>1, <1>2, <1>3
  <2>2. CASE j < i
    BY <2>1, <2>2, <1>1, <1>2, <1>5
  <2>3. CASE ~(j < i)
    <3>1. j - Len(a) \in 1..(Len(s) - i) /\ i + (j - Len(a)) = j + 1
      BY <2>3, <1>1, <1>2
    <3>2. ab[j] = b[j - Len(a)]
      BY <2>1, <2>3, <1>5
    <3> QED
      BY <2>3, <3>1, <3>2, <1>3
  <2> QED
    BY <2>2, <2>3
<1> QED
  BY <1>4, <1>5, <1>6, <1>7

-----------------------------------------------------------------------------
(* The fields of the invariant hold initially. *)
LEMMA InitIInv == Init => IInv
<1> SUFFICES ASSUME Init PROVE IInv
  OBVIOUS
<1> USE ConstantsAssumption
<1>1. TypeOK
  <2>1. cmds \in Seq(Cmd) /\ queue_sz = Len(cmds) /\ queue_sz <= MaxQueued
    BY DEF Init
  <2>2. owed \in Seq(Confirmation)
    BY DEF Init
  <2>3. /\ flags \in [Cmd -> SUBSET Flag]
        /\ reqid \in [Cmd -> CfmId \cup {NoCfm}]
        /\ complete \in [Cmd -> BOOLEAN]
    BY DEF Init
  <2>4. /\ pc \in [Task -> PC]
        /\ cur \in [Task -> Cmd \cup {NULL}]
        /\ nonblock \in [Task -> BOOLEAN]
    BY DEF Init, PC
  <2>5. /\ cmdHeap \subseteq Cmd /\ msgHeap \subseteq Cmd
        /\ hostid \in Cmd \cup {NULL} /\ acking \in Cmd \cup {NULL}
        /\ bell \in BOOLEAN /\ ackirq \in BOOLEAN
    BY DEF Init
  <2> QED
    BY <2>1, <2>2, <2>3, <2>4, <2>5 DEF TypeOK
<1>2. ListOrder /\ ListIsLive
  BY DEF Init, ListOrder, ListIsLive
<1>3. InFlightIsUnacked
  BY DEF Init, InFlightIsUnacked, InFlight
<1>4. MailboxExclusive /\ Interrupts
  BY DEF Init, MailboxExclusive, Interrupts
<1> QED
  BY <1>1, <1>2, <1>3, <1>4 DEF IInv

(* cmd_mgr_queue: the new command goes to the end of the list. *)
LEMMA QueueStep ==
  ASSUME IInv, NEW t \in Task, NEW r \in Request, NEW c \in Cmd, cmd_mgr_queue(t, r, c)
  PROVE  IInv'
<1> USE ConstantsAssumption DEF IInv
<1>1. /\ cmds \in Seq(Cmd) /\ Len(cmds) \in Nat
      /\ cmds' \in Seq(Cmd) /\ Len(cmds') = Len(cmds) + 1
      /\ cmds'[Len(cmds) + 1] = c
      /\ \A i \in DOMAIN cmds : cmds'[i] = cmds[i]
      /\ DOMAIN cmds = 1..Len(cmds) /\ DOMAIN cmds' = 1..(Len(cmds) + 1)
  BY DEF cmd_mgr_queue, TypeOK
<1>2. NewFlags(r) \in SUBSET Flag /\ "WAIT_ACK" \in NewFlags(r)
      /\ ("WAIT_PUSH" \in NewFlags(r) <=> MustDefer)
  BY DEF NewFlags, Flag
<1>3. TypeOK'
  BY <1>1, <1>2 DEF cmd_mgr_queue, TypeOK, QueueFull, ipcVars, PC, AfterQueue
<1>4. c \notin cmdHeap /\ \A i \in DOMAIN cmds : cmds[i] # c
  BY DEF cmd_mgr_queue, FreeCell, ListIsLive
<1>5. /\ flags' = [flags EXCEPT ![c] = NewFlags(r)]
      /\ flags'[c] = NewFlags(r)
      /\ \A d \in Cmd : d # c => flags'[d] = flags[d]
      /\ \A i \in DOMAIN cmds : flags'[cmds'[i]] = flags[cmds[i]]
  BY <1>1, <1>2, <1>4 DEF cmd_mgr_queue, TypeOK
<1>6. MustDefer <=> \E i \in DOMAIN cmds : "WAIT_ACK" \in flags[cmds[i]]
  BY <1>1 DEF MustDefer, ListOrder, WaitPush
<1>7. ListOrder'
  <2> DEFINE n == Len(cmds) + 1
  <2>1. DOMAIN cmds' = DOMAIN cmds \cup {n} /\ \A i \in DOMAIN cmds : i \in Nat /\ i < n
    BY <1>1
  <2>2. cmds'[n] = c /\ flags'[cmds'[n]] = NewFlags(r)
    BY <1>1, <1>5
  <2> HIDE DEF n
  <2>3. \A i, j \in DOMAIN cmds' : cmds'[i] = cmds'[j] => i = j
    BY <1>1, <1>4, <2>1, <2>2 DEF ListOrder
  <2>4. \A i, j \in DOMAIN cmds' :
          i < j /\ "WAIT_ACK" \in flags'[cmds'[i]] => "WAIT_PUSH" \in flags'[cmds'[j]]
    <3> SUFFICES ASSUME NEW i \in DOMAIN cmds', NEW j \in DOMAIN cmds',
                        i < j, "WAIT_ACK" \in flags'[cmds'[i]]
                 PROVE  "WAIT_PUSH" \in flags'[cmds'[j]]
      OBVIOUS
    <3>1. i \in DOMAIN cmds
      BY <1>1, <2>1
    <3>2. CASE j = n
      BY <3>1, <3>2, <2>2, <1>2, <1>5, <1>6
    <3>3. CASE j \in DOMAIN cmds
      BY <3>1, <3>3, <1>5 DEF ListOrder, WaitPush
    <3> QED
      BY <3>2, <3>3, <2>1
  <2>5. \A i \in DOMAIN cmds' :
          "WAIT_PUSH" \in flags'[cmds'[i]] => "WAIT_ACK" \in flags'[cmds'[i]]
    BY <1>2, <1>5, <2>1, <2>2 DEF ListOrder, WaitPush
  <2>6. (\E i \in DOMAIN cmds : "WAIT_ACK" \in flags[cmds[i]])
          => \E i \in DOMAIN cmds : Unacked(cmds[i])
    BY DEF ListOrder, Unacked
  <2>7. ASSUME NEW j \in DOMAIN cmds', "WAIT_PUSH" \in flags'[cmds'[j]]
        PROVE  \E i \in DOMAIN cmds' : /\ "WAIT_ACK" \in flags'[cmds'[i]]
                                       /\ "WAIT_PUSH" \notin flags'[cmds'[i]]
    <3>1. \E i \in DOMAIN cmds : "WAIT_ACK" \in flags[cmds[i]]
      BY <2>7, <1>2, <1>5, <1>6, <2>1, <2>2 DEF ListOrder, WaitPush
    <3> QED
      BY <3>1, <2>1, <2>6, <1>5 DEF Unacked, WaitPush
  <2> QED
    BY <2>3, <2>4, <2>5, <2>7 DEF ListOrder, WaitPush, Unacked
<1>8. ListIsLive'
  BY <1>1, <1>4 DEF cmd_mgr_queue, ListIsLive, TypeOK
<1>9. /\ hostid' = hostid /\ acking' = acking /\ bell' = bell /\ ackirq' = ackirq
      /\ pc[t] = "idle" /\ pc' = [pc EXCEPT ![t] = AfterQueue]
      /\ cur' = [cur EXCEPT ![t] = c]
      /\ pc'[t] = AfterQueue /\ cur'[t] = c
      /\ \A u \in Task : u # t => pc'[u] = pc[u] /\ cur'[u] = cur[u]
  BY DEF cmd_mgr_queue, ipcVars, TypeOK
<1>10. \A d \in Cmd : (\E i \in DOMAIN cmds : cmds[i] = d /\ Unacked(d))
          => \E i \in DOMAIN cmds' : /\ cmds'[i] = d /\ "WAIT_ACK" \in flags'[d]
                                     /\ "WAIT_PUSH" \notin flags'[d]
  BY <1>1, <1>5 DEF Unacked, WaitPush
<1>11. CASE MustDefer
  <2>1. pc'[t] # "push"
    BY <1>9, <1>11 DEF AfterQueue
  <2>2. \A d : InFlight(d)' <=> InFlight(d)
    BY <1>9, <2>1 DEF InFlight
  <2>3. \A i \in DOMAIN cmds' : Unacked(cmds[i])' => i \in DOMAIN cmds /\ Unacked(cmds[i])
    BY <1>1, <1>2, <1>5, <1>11 DEF Unacked, WaitPush
  <2>4. InFlightIsUnacked'
    BY <1>1, <1>9, <1>10, <2>1, <2>2, <2>3 DEF InFlightIsUnacked, Unacked, WaitPush
  <2>5. MailboxExclusive' /\ Interrupts'
    BY <1>9, <2>1 DEF MailboxExclusive, Interrupts
  <2> QED
    BY <1>3, <1>7, <1>8, <2>4, <2>5
<1>12. CASE ~MustDefer
  <2>1. \A d \in Cmd : ~InFlight(d)
    BY <1>6, <1>12 DEF InFlightIsUnacked, Unacked
  <2>2. hostid = NULL /\ acking = NULL /\ \A u \in Task : pc[u] # "push"
    BY <2>1 DEF TypeOK, InFlight, InFlightIsUnacked
  <2>3. pc'[t] = "push"
    BY <1>9, <1>12 DEF AfterQueue
  <2>4. \A d \in Cmd : InFlight(d)' <=> d = c
    BY <1>9, <2>2, <2>3 DEF InFlight
  <2>5. \A i \in DOMAIN cmds' : Unacked(cmds[i])' => cmds'[i] = c
    BY <1>1, <1>5, <1>6, <1>12 DEF Unacked, WaitPush
  <2>6. \E i \in DOMAIN cmds' : cmds'[i] = c /\ Unacked(c)'
    BY <1>1, <1>2, <1>5, <1>12 DEF Unacked, WaitPush
  <2>7. InFlightIsUnacked'
    BY <1>1, <1>9, <2>2, <2>4, <2>5, <2>6 DEF InFlightIsUnacked
  <2>8. MailboxExclusive' /\ Interrupts'
    BY <1>9, <2>2 DEF MailboxExclusive, Interrupts
  <2> QED
    BY <1>3, <1>7, <1>8, <2>7, <2>8
<1> QED
  BY <1>11, <1>12

(* The list, its flags and the mailbox are untouched by a rejected call    *)
(* and by the steps a caller takes after its push; a woken caller frees a  *)
(* command that is off the list.                                           *)
LEMMA ReturnStep ==
  ASSUME IInv, NEW t \in Task,
         \/ \E r \in Request, c \in Cmd : cmd_mgr_queue_full(t, r, c)
         \/ bl_send_msg_nomem(t)
         \/ free_a2e_msg(t) \/ test_nonblock(t) \/ wake(t) \/ no_wait(t)
  PROVE  IInv'
<1> USE DEF IInv
<1>1. UNCHANGED <<listVars, ipcVars, cur, nonblock, owed>>
  BY DEF cmd_mgr_queue_full, bl_send_msg_nomem, free_a2e_msg, test_nonblock, wake, no_wait,
         listVars, taskVars, ipcVars, heapVars, vars
<1>2. /\ pc' \in [Task -> PC]
      /\ \A u \in Task : pc'[u] = "push" <=> pc[u] = "push"
  BY DEF cmd_mgr_queue_full, bl_send_msg_nomem, free_a2e_msg, test_nonblock, wake, no_wait,
         taskVars, vars, TypeOK, PC
<1>3. /\ cmdHeap' \subseteq Cmd /\ msgHeap' \subseteq Cmd
      /\ complete' \in [Cmd -> BOOLEAN]
  BY DEF cmd_mgr_queue_full, bl_send_msg_nomem, free_a2e_msg, test_nonblock, wake, no_wait,
         heapVars, vars, TypeOK
<1>4. \A d \in Cmd : d \in cmdHeap /\ ~complete[d] => d \in cmdHeap' /\ ~complete'[d]
  BY DEF cmd_mgr_queue_full, bl_send_msg_nomem, free_a2e_msg, test_nonblock, wake, no_wait,
         heapVars, vars, TypeOK
<1>5. TypeOK'
  BY <1>1, <1>2, <1>3 DEF TypeOK, listVars, ipcVars
<1>6. \A d : (InFlight(d)' <=> InFlight(d)) /\ (Unacked(d)' <=> Unacked(d))
  BY <1>1, <1>2 DEF InFlight, Unacked, WaitPush, listVars, ipcVars
<1>7. ListOrder' /\ InFlightIsUnacked'
  BY <1>1, <1>2, <1>6
     DEF ListOrder, InFlightIsUnacked, WaitPush, listVars
<1>8. MailboxExclusive' /\ Interrupts'
  BY <1>1, <1>2 DEF MailboxExclusive, Interrupts, ipcVars
<1>9. ListIsLive'
  <2>1. \A i \in DOMAIN cmds : cmds[i] \in Cmd
    BY DEF TypeOK
  <2> QED
    BY <1>1, <1>4, <2>1 DEF ListIsLive, listVars
<1> QED
  BY <1>5, <1>7, <1>8, <1>9

(* A push outside the mutex moves the command in flight from the caller to *)
(* the mailbox.                                                            *)
LEMMA PushStep ==
  ASSUME IInv, NEW t \in Task, push(t)
  PROVE  IInv'
<1> USE DEF IInv
<1>1. /\ UNCHANGED <<listVars, heapVars, complete, cur, nonblock, owed, ackirq, acking>>
      /\ hostid' = cur[t] /\ bell' = TRUE
      /\ pc[t] = "push" /\ pc' = [pc EXCEPT ![t] = "free"]
  BY DEF push, ipc_host_msg_push
<1>2. /\ hostid = NULL /\ acking = NULL /\ \A u \in Task : pc[u] = "push" => u = t
      /\ cur[t] \in Cmd
  BY <1>1 DEF MailboxExclusive, TypeOK, InFlightIsUnacked
<1>3. \A u \in Task : pc'[u] # "push"
  BY <1>1, <1>2 DEF TypeOK
<1>4. TypeOK'
  BY <1>1, <1>2 DEF TypeOK, PC, listVars, heapVars
<1>5. \A d \in Cmd : (InFlight(d)' <=> InFlight(d)) /\ (Unacked(d)' <=> Unacked(d))
  BY <1>1, <1>2, <1>3, ConstantsAssumption DEF InFlight, Unacked, WaitPush, listVars
<1>6. ListOrder' /\ ListIsLive'
  BY <1>1 DEF ListOrder, ListIsLive, Unacked, WaitPush, listVars, heapVars
<1>7. InFlightIsUnacked'
  <2>1. \A i \in DOMAIN cmds : cmds[i] \in Cmd
    BY DEF TypeOK
  <2> QED
    BY <1>1, <1>3, <1>5, <2>1 DEF InFlightIsUnacked, listVars
<1>8. MailboxExclusive' /\ Interrupts'
  BY <1>1, <1>2, <1>3, ConstantsAssumption DEF MailboxExclusive, Interrupts
<1> QED
  BY <1>4, <1>6, <1>7, <1>8

(* The firmware takes a message; the handler's first half takes hostid. *)
LEMMA MailboxStep ==
  ASSUME IInv, fw_take \/ ipc_host_msgack_handler
  PROVE  IInv'
<1> USE DEF IInv
<1>1. UNCHANGED <<listVars, heapVars, taskVars, complete>>
  BY DEF fw_take, ipc_host_msgack_handler
<1>2. hostid \in Cmd
  BY DEF fw_take, ipc_host_msgack_handler, Interrupts, TypeOK
<1>3. /\ \/ hostid' = hostid /\ acking' = acking
         \/ hostid' = NULL /\ acking = NULL /\ acking' = hostid
      /\ bell' \in BOOLEAN /\ ackirq' \in BOOLEAN
  BY DEF fw_take, ipc_host_msgack_handler, TypeOK
<1>4. owed' \in Seq(Confirmation)
  <2>1. CASE fw_take
    <3>1. CASE reqid[hostid] = NoCfm
      BY <2>1, <3>1 DEF fw_take, TypeOK
    <3>2. CASE reqid[hostid] # NoCfm
      <4>1. [cmd |-> hostid, id |-> reqid[hostid]] \in Confirmation
        BY <1>2, <3>2 DEF TypeOK, Confirmation
      <4>2. owed \in Seq(Confirmation)
        BY DEF TypeOK
      <4>3. owed' = Append(owed, [cmd |-> hostid, id |-> reqid[hostid]])
        BY <2>1, <3>2 DEF fw_take
      <4> QED
        BY <4>1, <4>2, <4>3
    <3> QED
      BY <3>1, <3>2
  <2>2. CASE ipc_host_msgack_handler
    BY <2>2 DEF ipc_host_msgack_handler, TypeOK
  <2> QED
    BY <2>1, <2>2
<1>5. TypeOK'
  BY <1>1, <1>2, <1>3, <1>4 DEF TypeOK, listVars, heapVars, taskVars
<1>6. \A d \in Cmd : (InFlight(d)' <=> InFlight(d)) /\ (Unacked(d)' <=> Unacked(d))
  BY <1>1, <1>2, <1>3, ConstantsAssumption DEF InFlight, Unacked, WaitPush, listVars, taskVars
<1>7. ListOrder' /\ ListIsLive'
  BY <1>1 DEF ListOrder, ListIsLive, Unacked, WaitPush, listVars, heapVars
<1>8. InFlightIsUnacked'
  <2>1. \A i \in DOMAIN cmds : cmds[i] \in Cmd
    BY DEF TypeOK
  <2> QED
    BY <1>1, <1>6, <2>1 DEF InFlightIsUnacked, listVars, taskVars
<1>9. MailboxExclusive'
  BY <1>1, <1>2, <1>3, ConstantsAssumption DEF MailboxExclusive, taskVars
<1>10. Interrupts'
  BY <1>2, ConstantsAssumption DEF fw_take, ipc_host_msgack_handler, Interrupts, TypeOK
<1> QED
  BY <1>5, <1>7, <1>8, <1>9, <1>10

-----------------------------------------------------------------------------
(* The new list is the old one without the commands in gone, in the same   *)
(* order; f maps new positions to old ones.                                *)
SubListBy(f, gone) ==
  /\ f \in [DOMAIN cmds' -> DOMAIN cmds]
  /\ \A j \in DOMAIN cmds' : cmds'[j] = cmds[f[j]] /\ cmds[f[j]] \notin gone
  /\ \A i, j \in DOMAIN cmds' : i < j => f[i] < f[j]
  /\ \A k \in DOMAIN cmds : cmds[k] \notin gone => \E j \in DOMAIN cmds' : f[j] = k

(* cmd_complete takes exactly its command off the list, counts it, and     *)
(* touches the heap cell and the event group of no other command.          *)
LEMMA CompleteProps ==
  ASSUME TypeOK, ListOrder, NEW p \in DOMAIN cmds, cmd_complete(cmds[p])
  PROVE  /\ cmds' \in Seq(Cmd) /\ queue_sz' = Len(cmds') /\ queue_sz' <= MaxQueued
         /\ \E f : SubListBy(f, {cmds[p]})
         /\ cmdHeap' \subseteq Cmd /\ complete' \in [Cmd -> BOOLEAN]
         /\ \A d \in Cmd : d # cmds[p] =>
              (d \in cmdHeap' <=> d \in cmdHeap) /\ complete'[d] = complete[d]
<1>1. /\ cmds \in Seq(Cmd) /\ Len(cmds) \in Nat /\ DOMAIN cmds = 1..Len(cmds)
      /\ queue_sz = Len(cmds) /\ queue_sz <= MaxQueued
  BY DEF TypeOK
<1>2. cmds' = RemoveAt(cmds, p) /\ queue_sz' = queue_sz - 1
  BY DEF cmd_complete, ListOrder
<1>3. /\ cmds' \in Seq(Cmd) /\ Len(cmds') = Len(cmds) - 1
      /\ \A j \in 1..(Len(cmds) - 1) : cmds'[j] = IF j < p THEN cmds[j] ELSE cmds[j + 1]
  BY <1>1, <1>2, RemoveAtProps
<1>4. DOMAIN cmds' = 1..(Len(cmds) - 1)
  BY <1>3
<1> DEFINE f == [j \in DOMAIN cmds' |-> IF j < p THEN j ELSE j + 1]
<1>5. f \in [DOMAIN cmds' -> DOMAIN cmds]
  BY <1>1, <1>4
<1>6. \A j \in DOMAIN cmds' : f[j] # p /\ cmds'[j] = cmds[f[j]]
  BY <1>1, <1>3, <1>4
<1>7. \A j \in DOMAIN cmds' : cmds[f[j]] # cmds[p]
  BY <1>5, <1>6 DEF ListOrder
<1>8. \A i, j \in DOMAIN cmds' : i < j => f[i] < f[j]
  BY <1>1, <1>4
<1>9. ASSUME NEW k \in DOMAIN cmds, cmds[k] # cmds[p]
      PROVE  \E j \in DOMAIN cmds' : f[j] = k
  <2>1. CASE k < p
    BY <2>1, <1>1, <1>4
  <2>2. CASE k > p
    <3>1. k - 1 \in DOMAIN cmds' /\ f[k - 1] = k
      BY <2>2, <1>1, <1>4
    <3> QED
      BY <3>1
  <2> QED
    BY <1>9, <2>1, <2>2, <1>1
<1>10. SubListBy(f, {cmds[p]})
  BY <1>5, <1>6, <1>7, <1>8, <1>9 DEF SubListBy
<1>11. /\ cmdHeap' \subseteq Cmd /\ complete' \in [Cmd -> BOOLEAN]
       /\ \A d \in Cmd : d # cmds[p] =>
            (d \in cmdHeap' <=> d \in cmdHeap) /\ complete'[d] = complete[d]
  BY <1>1 DEF cmd_complete, TypeOK
<1> QED
  BY <1>1, <1>2, <1>3, <1>10, <1>11, ConstantsAssumption

(* When an acknowledgement is handled the list is: acknowledged commands,  *)
(* the command in question at position p, deferred commands.               *)
LEMMA LlindView ==
  ASSUME IInv, acking # NULL
  PROVE  \E p \in DOMAIN cmds :
           /\ cmds[p] = acking /\ Unacked(acking)
           /\ \A k \in DOMAIN cmds : k < p => "WAIT_ACK" \notin flags[cmds[k]] /\ ~WaitPush(cmds[k])
           /\ \A k \in DOMAIN cmds : k > p => WaitPush(cmds[k])
           /\ AckFound(acking)
           /\ FirstDeferred(acking) = IF p < Len(cmds) THEN {cmds[p + 1]} ELSE {}
           /\ hostid = NULL /\ \A t \in Task : pc[t] # "push"
<1> USE DEF IInv
<1>1. /\ cmds \in Seq(Cmd) /\ Len(cmds) \in Nat /\ DOMAIN cmds = 1..Len(cmds)
      /\ acking \in Cmd
  BY DEF TypeOK
<1>2. PICK p \in DOMAIN cmds : cmds[p] = acking /\ Unacked(acking)
  BY <1>1 DEF InFlightIsUnacked, InFlight
<1>3. \A k \in DOMAIN cmds : k < p => "WAIT_ACK" \notin flags[cmds[k]] /\ ~WaitPush(cmds[k])
  BY <1>2 DEF ListOrder, Unacked
<1>4. \A k \in DOMAIN cmds : k > p => WaitPush(cmds[k])
  BY <1>1, <1>2 DEF ListOrder, Unacked
<1>5. AckFound(acking)
  BY <1>1, <1>2, <1>3 DEF AckFound
<1>6. \A k \in DOMAIN cmds : k # p => cmds[k] # acking
  BY <1>2 DEF ListOrder
<1> DEFINE First(k) == /\ cmds[k] # acking /\ WaitPush(cmds[k])
                       /\ \A j \in 1..(k - 1) : cmds[j] # acking => ~WaitPush(cmds[j])
<1>7. \A k \in DOMAIN cmds : First(k) <=> k = p + 1
  <2>1. ASSUME NEW k \in DOMAIN cmds, k <= p PROVE ~First(k)
    BY <2>1, <1>1, <1>2, <1>3
  <2>2. ASSUME NEW k \in DOMAIN cmds, k > p + 1 PROVE ~First(k)
    <3>1. p + 1 \in DOMAIN cmds /\ p + 1 \in 1..(k - 1)
      BY <2>2, <1>1
    <3> QED
      BY <3>1, <1>1, <1>4, <1>6
  <2>3. ASSUME p + 1 \in DOMAIN cmds PROVE First(p + 1)
    BY <2>3, <1>1, <1>2, <1>3, <1>4, <1>6
  <2> HIDE DEF First
  <2> QED
    BY <2>1, <2>2, <2>3, <1>1
<1>8. FirstDeferred(acking) = {cmds[k] : k \in {k \in DOMAIN cmds : First(k)}}
  BY DEF FirstDeferred
<1> HIDE DEF First
<1>9. FirstDeferred(acking) = IF p < Len(cmds) THEN {cmds[p + 1]} ELSE {}
  <2>1. CASE p < Len(cmds)
    <3>1. {k \in DOMAIN cmds : First(k)} = {p + 1}
      BY <2>1, <1>1, <1>7
    <3> QED
      BY <2>1, <3>1, <1>8
  <2>2. CASE ~(p < Len(cmds))
    <3>1. {k \in DOMAIN cmds : First(k)} = {}
      BY <2>2, <1>1, <1>7
    <3> QED
      BY <2>2, <3>1, <1>8
  <2> QED
    BY <2>1, <2>2
<1>10. hostid = NULL /\ \A t \in Task : pc[t] # "push"
  BY DEF MailboxExclusive
<1> QED
  BY <1>2, <1>3, <1>4, <1>5, <1>9, <1>10

(* cmd_mgr_llind: the acknowledged command leaves flight, and the list if  *)
(* no confirmation is outstanding; the first deferred one takes its place. *)
LEMMA LlindStep ==
  ASSUME IInv, cmd_mgr_llind
  PROVE  IInv'
<1>1. PICK p \in DOMAIN cmds :
         /\ cmds[p] = acking /\ Unacked(acking)
         /\ \A k \in DOMAIN cmds : k < p => "WAIT_ACK" \notin flags[cmds[k]] /\ ~WaitPush(cmds[k])
         /\ \A k \in DOMAIN cmds : k > p => WaitPush(cmds[k])
         /\ AckFound(acking)
         /\ FirstDeferred(acking) = IF p < Len(cmds) THEN {cmds[p + 1]} ELSE {}
         /\ hostid = NULL /\ \A t \in Task : pc[t] # "push"
  BY LlindView DEF cmd_mgr_llind
<1> DEFINE next == FirstDeferred(acking)
           left == flags[acking] \ {"WAIT_ACK"}
           gone == IF WaitComplete(left) THEN {acking} ELSE {}
<1>2. TypeOK /\ ListOrder /\ ListIsLive /\ InFlightIsUnacked /\ Interrupts
  BY DEF IInv
<1>3. /\ cmds \in Seq(Cmd) /\ Len(cmds) \in Nat /\ DOMAIN cmds = 1..Len(cmds)
      /\ acking \in Cmd /\ acking # NULL /\ NULL \notin Cmd
      /\ \A i \in DOMAIN cmds : cmds[i] \in Cmd
  BY <1>2, ConstantsAssumption DEF TypeOK, cmd_mgr_llind
<1>4. next \subseteq Cmd /\ acking \notin next
  BY <1>1, <1>2, <1>3 DEF ListOrder
<1>5. /\ cmds' \in Seq(Cmd) /\ queue_sz' = Len(cmds') /\ queue_sz' <= MaxQueued
      /\ \E f : SubListBy(f, gone)
      /\ cmdHeap' \subseteq Cmd /\ complete' \in [Cmd -> BOOLEAN]
      /\ \A d \in Cmd : d \notin gone =>
           (d \in cmdHeap' <=> d \in cmdHeap) /\ complete'[d] = complete[d]
  <2>1. CASE WaitComplete(left)
    <3>1. cmd_complete(cmds[p]) /\ gone = {cmds[p]}
      BY <2>1, <1>1 DEF cmd_mgr_llind
    <3> QED
      BY <3>1, <1>2, CompleteProps
  <2>2. CASE ~WaitComplete(left)
    <3>1. UNCHANGED <<cmds, queue_sz, complete, cmdHeap>> /\ gone = {}
      BY <2>2, <1>1 DEF cmd_mgr_llind
    <3>2. SubListBy([j \in DOMAIN cmds |-> j], gone)
      BY <3>1, <1>3 DEF SubListBy
    <3> QED
      BY <3>1, <3>2, <1>2, <1>3 DEF TypeOK
  <2> QED
    BY <2>1, <2>2
<1>6. /\ flags' \in [Cmd -> SUBSET Flag]
      /\ "WAIT_ACK" \notin flags'[acking] /\ "WAIT_PUSH" \notin flags'[acking]
      /\ \A n \in next : flags'[n] = flags[n] \ {"WAIT_PUSH"}
      /\ \A d \in Cmd : d # acking /\ d \notin next => flags'[d] = flags[d]
  <2>1. flags' = [c \in Cmd |->
              CASE c = acking -> IF WaitComplete(left) THEN left \cup {"DONE"} ELSE left
                [] c \in next -> flags[c] \ {"WAIT_PUSH"}
                [] OTHER -> flags[c]]
    BY <1>1 DEF cmd_mgr_llind
  <2> HIDE DEF next, left
  <2>2. flags'[acking] = IF WaitComplete(left) THEN left \cup {"DONE"} ELSE left
    BY <2>1, <1>3, <1>4
  <2>3. "WAIT_ACK" \notin flags'[acking] /\ "WAIT_PUSH" \notin flags'[acking]
    BY <2>2, <1>1 DEF Unacked, WaitPush, left
  <2>4. \A n \in next : flags'[n] = flags[n] \ {"WAIT_PUSH"}
    BY <2>1, <1>4
  <2>5. \A d \in Cmd : d # acking /\ d \notin next => flags'[d] = flags[d]
    BY <2>1
  <2>6. flags \in [Cmd -> SUBSET Flag]
    BY <1>2 DEF TypeOK
  <2>7. flags' \in [Cmd -> SUBSET Flag]
    BY <2>1, <2>6, <1>3, <1>4 DEF Flag, left
  <2> QED
    BY <2>3, <2>4, <2>5, <2>7
<1>7. /\ acking' = NULL /\ UNCHANGED <<reqid, pc, cur, nonblock, ackirq, owed>>
      /\ msgHeap' \subseteq Cmd
      /\ next = {} => hostid' = NULL /\ bell' = bell
      /\ next # {} => hostid' \in next /\ bell' = TRUE
  BY <1>1, <1>2 DEF cmd_mgr_llind, taskVars, TypeOK, ipc_host_msg_push
<1>8. TypeOK'
  BY <1>2, <1>4, <1>5, <1>6, <1>7 DEF TypeOK
<1>9. PICK f : SubListBy(f, gone)
  BY <1>5
<1> HIDE DEF next, left, gone
<1>10. DOMAIN cmds' = 1..Len(cmds') /\ Len(cmds') \in Nat
  BY <1>5
(* Old positions: below p acknowledged, p itself, p + 1 now in flight. *)
<1>11. \A j \in DOMAIN cmds' : f[j] \in DOMAIN cmds /\ cmds'[j] = cmds[f[j]] /\ cmds'[j] \in Cmd
  BY <1>3, <1>9 DEF SubListBy
<1>12. next = IF p < Len(cmds) THEN {cmds[p + 1]} ELSE {}
  BY <1>1 DEF next
<1>13. \A k \in DOMAIN cmds : (k # p => cmds[k] # acking) /\ (cmds[k] \in next <=> k = p + 1)
  BY <1>1, <1>2, <1>3, <1>12 DEF ListOrder
<1>14. \A k \in DOMAIN cmds : /\ k <= p => "WAIT_ACK" \notin flags'[cmds[k]] /\ "WAIT_PUSH" \notin flags'[cmds[k]]
                              /\ k = p + 1 => "WAIT_ACK" \in flags'[cmds[k]] /\ "WAIT_PUSH" \notin flags'[cmds[k]]
                              /\ k > p + 1 => "WAIT_ACK" \in flags'[cmds[k]] /\ "WAIT_PUSH" \in flags'[cmds[k]]
  <2> SUFFICES ASSUME NEW k \in DOMAIN cmds
               PROVE  /\ k <= p => "WAIT_ACK" \notin flags'[cmds[k]] /\ "WAIT_PUSH" \notin flags'[cmds[k]]
                      /\ k = p + 1 => "WAIT_ACK" \in flags'[cmds[k]] /\ "WAIT_PUSH" \notin flags'[cmds[k]]
                      /\ k > p + 1 => "WAIT_ACK" \in flags'[cmds[k]] /\ "WAIT_PUSH" \in flags'[cmds[k]]
    OBVIOUS
  <2>1. CASE k = p
    BY <2>1, <1>1, <1>3, <1>6
  <2>2. CASE k < p
    BY <2>2, <1>1, <1>3, <1>6, <1>13 DEF WaitPush
  <2>3. CASE k = p + 1
    BY <2>3, <1>1, <1>2, <1>3, <1>6, <1>13 DEF WaitPush, ListOrder
  <2>4. CASE k > p + 1
    BY <2>4, <1>1, <1>2, <1>3, <1>6, <1>13 DEF WaitPush, ListOrder
  <2> QED
    BY <2>1, <2>2, <2>3, <2>4, <1>3
<1>15. next # {} => \E j \in DOMAIN cmds' : f[j] = p + 1
  <2>1. ASSUME next # {} PROVE p + 1 \in DOMAIN cmds /\ cmds[p + 1] # acking
    BY <2>1, <1>3, <1>12, <1>13
  <2>2. gone \subseteq {acking}
    BY DEF gone
  <2> QED
    BY <2>1, <2>2, <1>9 DEF SubListBy
<1>16. ListOrder'
  <2>1. \A i, j \in DOMAIN cmds' : cmds'[i] = cmds'[j] => i = j
    <3> SUFFICES ASSUME NEW i \in DOMAIN cmds', NEW j \in DOMAIN cmds', cmds'[i] = cmds'[j]
                 PROVE  i = j
      OBVIOUS
    <3>1. f[i] = f[j] /\ f[i] \in Nat
      BY <1>2, <1>3, <1>11 DEF ListOrder
    <3>2. ~(i < j) /\ ~(j < i)
      BY <3>1, <1>9 DEF SubListBy
    <3> QED
      BY <3>2, <1>10
  <2>2. \A i, j \in DOMAIN cmds' :
          i < j /\ "WAIT_ACK" \in flags'[cmds'[i]] => "WAIT_PUSH" \in flags'[cmds'[j]]
    <3> SUFFICES ASSUME NEW i \in DOMAIN cmds', NEW j \in DOMAIN cmds', i < j,
                        "WAIT_ACK" \in flags'[cmds'[i]]
                 PROVE  "WAIT_PUSH" \in flags'[cmds'[j]]
      OBVIOUS
    <3>1. f[i] < f[j] /\ f[i] > p
      BY <1>3, <1>9, <1>11, <1>14 DEF SubListBy
    <3> QED
      BY <3>1, <1>3, <1>11, <1>14
  <2>3. \A i \in DOMAIN cmds' :
          "WAIT_PUSH" \in flags'[cmds'[i]] => "WAIT_ACK" \in flags'[cmds'[i]]
    BY <1>3, <1>11, <1>14
  <2>4. ASSUME NEW j \in DOMAIN cmds', "WAIT_PUSH" \in flags'[cmds'[j]]
        PROVE  \E i \in DOMAIN cmds' : /\ "WAIT_ACK" \in flags'[cmds'[i]]
                                       /\ "WAIT_PUSH" \notin flags'[cmds'[i]]
    <3>1. f[j] > p + 1
      BY <2>4, <1>3, <1>11, <1>14
    <3>2. next # {}
      BY <3>1, <1>3, <1>11, <1>12
    <3> QED
      BY <3>2, <1>3, <1>11, <1>14, <1>15
  <2> QED
    BY <2>1, <2>2, <2>3, <2>4 DEF ListOrder, WaitPush, Unacked
<1>17. \A d \in Cmd : InFlight(d)' <=> d \in next /\ d = hostid'
  BY <1>1, <1>3, <1>7 DEF InFlight
<1>18. InFlightIsUnacked'
  <2>1. \A t \in Task : pc'[t] # "push"
    BY <1>1, <1>7
  <2>2. ASSUME NEW d \in Cmd, InFlight(d)'
        PROVE  \E i \in DOMAIN cmds' : cmds'[i] = d /\ Unacked(d)'
    <3>1. d \in next /\ next # {} /\ d = cmds[p + 1]
      BY <2>2, <1>12, <1>17
    <3>2. PICK i \in DOMAIN cmds' : f[i] = p + 1
      BY <3>1, <1>15
    <3> QED
      BY <3>1, <3>2, <1>3, <1>11, <1>14 DEF Unacked, WaitPush
  <2>3. ASSUME NEW i \in DOMAIN cmds', Unacked(cmds[i])'
        PROVE  InFlight(cmds[i])'
    <3>1. f[i] = p + 1
      BY <2>3, <1>3, <1>11, <1>14 DEF Unacked, WaitPush
    <3>2. next = {cmds'[i]}
      BY <3>1, <1>3, <1>11, <1>12
    <3> QED
      BY <3>2, <1>7, <1>11, <1>17
  <2> QED
    BY <2>1, <2>2, <2>3 DEF InFlightIsUnacked
<1>19. MailboxExclusive'
  BY <1>1, <1>7 DEF MailboxExclusive
<1>20. Interrupts'
  <2>1. bell = FALSE /\ ackirq = FALSE
    BY <1>1, <1>2 DEF Interrupts, TypeOK
  <2>2. next # {} => hostid' # NULL
    BY <1>3, <1>4, <1>7 DEF next
  <2> QED
    BY <2>1, <2>2, <1>7 DEF Interrupts
<1>21. ListIsLive'
  <2>1. \A j \in DOMAIN cmds' : cmds'[j] \notin gone
    BY <1>9 DEF SubListBy
  <2> QED
    BY <2>1, <1>2, <1>5, <1>11 DEF ListIsLive, gone
<1> QED
  BY <1>8, <1>16, <1>18, <1>19, <1>20, <1>21 DEF IInv

(* cmd_mgr_msgind: a confirmed command stays where it is, or leaves the    *)
(* list if its acknowledgement has been handled.                           *)
LEMMA MsgindStep ==
  ASSUME IInv, NEW k \in DOMAIN owed, cmd_mgr_msgind(k)
  PROVE  IInv'
<1> DEFINE match == {cmds[i] : i \in {i \in DOMAIN cmds : IsCfmMatch(i, owed[k].id)}}
           lft(c) == flags[c] \ {"WAIT_CFM"}
           done == {c \in match : WaitComplete(lft(c))}
<1>1. TypeOK /\ ListOrder /\ ListIsLive /\ InFlightIsUnacked /\ MailboxExclusive /\ Interrupts
  BY DEF IInv
<1>2. /\ cmds \in Seq(Cmd) /\ Len(cmds) \in Nat /\ DOMAIN cmds = 1..Len(cmds)
      /\ \A i \in DOMAIN cmds : cmds[i] \in Cmd
      /\ flags \in [Cmd -> SUBSET Flag]
  BY <1>1 DEF TypeOK
<1>3. match \subseteq Cmd /\ \A c \in match : \E i \in DOMAIN cmds : cmds[i] = c
  BY <1>2
<1>4. \A c, d \in match : c = d
  <2> SUFFICES ASSUME NEW i \in DOMAIN cmds, IsCfmMatch(i, owed[k].id),
                      NEW j \in DOMAIN cmds, IsCfmMatch(j, owed[k].id)
               PROVE  i = j
    OBVIOUS
  <2>1. i < j => i \in 1..(j - 1)
    BY <1>2
  <2>2. j < i => j \in 1..(i - 1)
    BY <1>2
  <2> QED
    BY <2>1, <2>2, <1>2 DEF IsCfmMatch
<1>5. /\ flags' = [c \in Cmd |-> CASE c \in done -> lft(c) \cup {"DONE"}
                                   [] c \in match \ done -> lft(c)
                                   [] OTHER -> flags[c]]
      /\ done # {} => \E c \in done : cmd_complete(c)
      /\ done = {} => UNCHANGED <<cmds, queue_sz, complete, cmdHeap>>
      /\ UNCHANGED <<reqid, msgHeap, pc, cur, nonblock, hostid, bell, ackirq, acking>>
  BY DEF cmd_mgr_msgind, taskVars, ipcVars
<1>6. \A c \in done : "WAIT_ACK" \notin flags[c]
  BY DEF WaitComplete
<1>7. done \subseteq match
  OBVIOUS
<1>8. owed' \in Seq(Confirmation)
  <2>1. owed \in Seq(Confirmation)
    BY <1>1 DEF TypeOK
  <2> QED
    BY <2>1, RemoveAtProps DEF cmd_mgr_msgind
<1> HIDE DEF match, done
<1>9. /\ flags' \in [Cmd -> SUBSET Flag]
      /\ \A d \in Cmd : /\ "WAIT_ACK" \in flags'[d] <=> "WAIT_ACK" \in flags[d]
                        /\ "WAIT_PUSH" \in flags'[d] <=> "WAIT_PUSH" \in flags[d]
  <2>1. \A d \in Cmd : flags'[d] \in {lft(d) \cup {"DONE"}, lft(d), flags[d]}
    BY <1>5
  <2> QED
    BY <2>1, <1>2, <1>5 DEF Flag
<1>10. /\ cmds' \in Seq(Cmd) /\ queue_sz' = Len(cmds') /\ queue_sz' <= MaxQueued
       /\ \E f : SubListBy(f, done)
       /\ cmdHeap' \subseteq Cmd /\ complete' \in [Cmd -> BOOLEAN]
       /\ \A d \in Cmd : d \notin done =>
            (d \in cmdHeap' <=> d \in cmdHeap) /\ complete'[d] = complete[d]
  <2>1. CASE done # {}
    <3>1. PICK c \in done : cmd_complete(c)
      BY <2>1, <1>5
    <3>2. PICK p \in DOMAIN cmds : cmds[p] = c
      BY <1>3, <1>7
    <3>3. done = {cmds[p]}
      BY <3>2, <1>4, <1>7
    <3> QED
      BY <3>1, <3>2, <3>3, <1>1, CompleteProps
  <2>2. CASE done = {}
    <3>1. UNCHANGED <<cmds, queue_sz, complete, cmdHeap>>
      BY <2>2, <1>5
    <3>2. SubListBy([j \in DOMAIN cmds |-> j], done)
      BY <2>2, <3>1, <1>2 DEF SubListBy
    <3> QED
      BY <3>1, <3>2, <1>1, <1>2 DEF TypeOK
  <2> QED
    BY <2>1, <2>2
<1>11. TypeOK'
  BY <1>1, <1>5, <1>8, <1>9, <1>10 DEF TypeOK
<1>12. PICK f : SubListBy(f, done)
  BY <1>10
<1>13. DOMAIN cmds' = 1..Len(cmds') /\ Len(cmds') \in Nat
  BY <1>10
<1>14. \A j \in DOMAIN cmds' : f[j] \in DOMAIN cmds /\ cmds'[j] = cmds[f[j]] /\ cmds'[j] \in Cmd
  BY <1>2, <1>12 DEF SubListBy
<1>15. \A d \in Cmd : (Unacked(d)' <=> Unacked(d)) /\ (InFlight(d)' <=> InFlight(d))
  BY <1>5, <1>9 DEF Unacked, WaitPush, InFlight
<1>16. \A i \in DOMAIN cmds : Unacked(cmds[i]) => \E j \in DOMAIN cmds' : f[j] = i
  BY <1>6, <1>12 DEF SubListBy, Unacked, done, match
<1>17. ListOrder'
  <2>1. \A i, j \in DOMAIN cmds' : cmds'[i] = cmds'[j] => i = j
    <3> SUFFICES ASSUME NEW i \in DOMAIN cmds', NEW j \in DOMAIN cmds', cmds'[i] = cmds'[j]
                 PROVE  i = j
      OBVIOUS
    <3>1. f[i] = f[j] /\ f[i] \in Nat
      BY <1>1, <1>2, <1>14 DEF ListOrder
    <3>2. ~(i < j) /\ ~(j < i)
      BY <3>1, <1>12 DEF SubListBy
    <3> QED
      BY <3>2, <1>13
  <2>2. \A i, j \in DOMAIN cmds' :
          i < j /\ "WAIT_ACK" \in flags'[cmds'[i]] => "WAIT_PUSH" \in flags'[cmds'[j]]
    <3> SUFFICES ASSUME NEW i \in DOMAIN cmds', NEW j \in DOMAIN cmds', i < j,
                        "WAIT_ACK" \in flags'[cmds'[i]]
                 PROVE  "WAIT_PUSH" \in flags'[cmds'[j]]
      OBVIOUS
    <3>1. f[i] < f[j] /\ "WAIT_ACK" \in flags[cmds[f[i]]]
      BY <1>9, <1>12, <1>14 DEF SubListBy
    <3> QED
      BY <3>1, <1>1, <1>9, <1>14 DEF ListOrder, WaitPush
  <2>3. \A i \in DOMAIN cmds' :
          "WAIT_PUSH" \in flags'[cmds'[i]] => "WAIT_ACK" \in flags'[cmds'[i]]
    BY <1>1, <1>9, <1>14 DEF ListOrder, WaitPush
  <2>4. ASSUME NEW j \in DOMAIN cmds', "WAIT_PUSH" \in flags'[cmds'[j]]
        PROVE  \E i \in DOMAIN cmds' : Unacked(cmds[i])'
    <3>1. PICK i \in DOMAIN cmds : Unacked(cmds[i])
      BY <2>4, <1>1, <1>9, <1>14 DEF ListOrder, WaitPush
    <3>2. PICK m \in DOMAIN cmds' : f[m] = i
      BY <3>1, <1>16
    <3>3. Unacked(cmds[m])'
      BY <3>1, <3>2, <1>9, <1>14 DEF Unacked, WaitPush
    <3> QED
      BY <3>3
  <2> QED
    BY <2>1, <2>2, <2>3, <2>4 DEF ListOrder, WaitPush
<1>18. InFlightIsUnacked'
  <2>1. ASSUME NEW d \in Cmd, InFlight(d)'
        PROVE  \E i \in DOMAIN cmds' : cmds'[i] = d /\ Unacked(d)'
    <3>1. PICK i \in DOMAIN cmds : cmds[i] = d /\ Unacked(d)
      BY <2>1, <1>1, <1>15 DEF InFlightIsUnacked
    <3> QED
      BY <3>1, <1>14, <1>15, <1>16
  <2>2. ASSUME NEW i \in DOMAIN cmds', Unacked(cmds[i])'
        PROVE  InFlight(cmds[i])'
    <3>1. Unacked(cmds[f[i]])
      BY <2>2, <1>9, <1>14 DEF Unacked, WaitPush
    <3>2. InFlight(cmds[f[i]])
      BY <3>1, <1>1, <1>14 DEF InFlightIsUnacked
    <3> QED
      BY <3>2, <1>5, <1>14 DEF InFlight
  <2> QED
    BY <2>1, <2>2, <1>1, <1>5 DEF InFlightIsUnacked
<1>19. MailboxExclusive' /\ Interrupts'
  BY <1>1, <1>5 DEF MailboxExclusive, Interrupts
<1>20. ListIsLive'
  <2>1. \A j \in DOMAIN cmds' : cmds'[j] \notin done
    BY <1>12 DEF SubListBy
  <2> QED
    BY <2>1, <1>1, <1>10, <1>14 DEF ListIsLive
<1> QED
  BY <1>11, <1>17, <1>18, <1>19, <1>20 DEF IInv

-----------------------------------------------------------------------------
(* Every step of the driver and the firmware preserves the invariant. *)
LEMMA NextIInv == IInv /\ [Next]_vars => IInv'
<1> SUFFICES ASSUME IInv, [Next]_vars PROVE IInv'
  OBVIOUS
<1>1. ASSUME NEW t \in Task, bl_send_msg(t) PROVE IInv'
  BY <1>1, QueueStep, ReturnStep DEF bl_send_msg
<1>2. ASSUME NEW t \in Task, Caller(t) PROVE IInv'
  BY <1>2, PushStep, ReturnStep DEF Caller
<1>3. CASE Firmware
  BY <1>3, MailboxStep, MsgindStep DEF Firmware
<1>4. CASE BottomHalf
  BY <1>4, MailboxStep, LlindStep DEF BottomHalf
<1>5. CASE UNCHANGED vars
  BY <1>5 DEF vars, IInv, TypeOK, ListOrder, InFlightIsUnacked, MailboxExclusive,
              Interrupts, ListIsLive, Unacked, WaitPush, InFlight
<1> QED
  BY <1>1, <1>2, <1>3, <1>4, <1>5 DEF Next

(* In every behaviour of the command manager, for any number of tasks,     *)
(* cells, requests and any queue limit, the list keeps its shape and       *)
(* agrees with the mailbox and the heap.                                   *)
THEOREM Invariance == Spec => []IInv
<1>1. Init => IInv
  BY InitIInv
<1>2. IInv /\ [Next]_vars => IInv'
  BY NextIInv
<1> QED
  BY <1>1, <1>2, PTL DEF Spec

(* Types, and queue_sz counts the list and stays within the limit. *)
THEOREM TypeCorrect == Spec => []TypeOK
<1>1. IInv => TypeOK
  BY DEF IInv
<1> QED
  BY <1>1, Invariance, PTL

(* ASSERT_ERR(!env->msga2e_hostid) never fails: one writer at a time.      *)
THEOREM MailboxIsExclusive == Spec => []MailboxExclusive
<1>1. IInv => MailboxExclusive
  BY DEF IInv
<1> QED
  BY <1>1, Invariance, PTL

(* cmd_mgr_llind always finds the command that was acknowledged. *)
THEOREM AckAlwaysFinds == Spec => []AckFinds
<1>1. IInv => AckFinds
  BY LlindView DEF AckFinds
<1> QED
  BY <1>1, Invariance, PTL

(* A deferred command always has an earlier one whose acknowledgement will *)
(* push it.                                                                *)
THEOREM DeferredIsServed == Spec => []DeferredHasPusher
<1>1. IInv => DeferredHasPusher
  <2> SUFFICES ASSUME IInv, \E i \in DOMAIN cmds : WaitPush(cmds[i])
               PROVE  hostid # NULL \/ acking # NULL \/ \E t \in Task : pc[t] = "push"
    BY DEF DeferredHasPusher
  <2>1. PICK i \in DOMAIN cmds : Unacked(cmds[i])
    BY DEF IInv, ListOrder
  <2>2. cmds[i] \in Cmd /\ InFlight(cmds[i])
    BY <2>1 DEF IInv, InFlightIsUnacked, TypeOK
  <2> QED
    BY <2>2, ConstantsAssumption DEF InFlight
<1> QED
  BY <1>1, Invariance, PTL

(* No pointer the driver keeps outlives its command. *)
THEOREM NoDangling == Spec => []NoDanglingCmd
<1>1. IInv => NoDanglingCmd
  <2> SUFFICES ASSUME IInv PROVE NoDanglingCmd
    OBVIOUS
  <2>1. \A i \in DOMAIN cmds : cmds[i] \in cmdHeap
    BY DEF IInv, ListIsLive
  <2>2. hostid # NULL => hostid \in cmdHeap
    BY <2>1 DEF IInv, TypeOK, InFlightIsUnacked, InFlight
  <2>3. acking # NULL => acking \in cmdHeap
    BY <2>1 DEF IInv, TypeOK, InFlightIsUnacked, InFlight
  <2>4. ToSet(cmds) \subseteq cmdHeap
    BY <2>1 DEF ToSet
  <2> QED
    BY <2>2, <2>3, <2>4 DEF NoDanglingCmd
<1> QED
  BY <1>1, Invariance, PTL

(* The command that steps into the mailbox was queued before every other   *)
(* command that has not been acknowledged.                                 *)
PushInOrder ==
  hostid' \notin {hostid, NULL} =>
    \E i \in DOMAIN cmds :
       /\ cmds[i] = hostid'
       /\ \A j \in 1..(i - 1) : "WAIT_ACK" \in flags[cmds[j]] => cmds[j] = acking

(* Each push takes the oldest command not yet handed over. *)
LEMMA PushInOrderStep == IInv /\ [Next]_vars => PushInOrder
<1> SUFFICES ASSUME IInv, [Next]_vars, hostid' \notin {hostid, NULL}
             PROVE  \E i \in DOMAIN cmds :
                      /\ cmds[i] = hostid'
                      /\ \A j \in 1..(i - 1) :
                           "WAIT_ACK" \in flags[cmds[j]] => cmds[j] = acking
  BY DEF PushInOrder
<1>1. cmds \in Seq(Cmd) /\ Len(cmds) \in Nat /\ DOMAIN cmds = 1..Len(cmds)
  BY DEF IInv, TypeOK
<1>2. (\E t \in Task : push(t)) \/ cmd_mgr_llind
  BY DEF Next, bl_send_msg, Caller, Firmware, BottomHalf, cmd_mgr_queue,
         cmd_mgr_queue_full, bl_send_msg_nomem, free_a2e_msg, test_nonblock, wake, no_wait, fw_take,
         cmd_mgr_msgind, ipc_host_msgack_handler, ipcVars, vars
<1>3. ASSUME NEW t \in Task, push(t)
      PROVE  \E i \in DOMAIN cmds :
               /\ cmds[i] = hostid'
               /\ \A j \in 1..(i - 1) : "WAIT_ACK" \in flags[cmds[j]] => cmds[j] = acking
  <2>1. hostid' = cur[t] /\ cur[t] \in Cmd /\ InFlight(cur[t])
    BY <1>3 DEF push, ipc_host_msg_push, InFlight, IInv, TypeOK, InFlightIsUnacked
  <2>2. PICK i \in DOMAIN cmds : cmds[i] = hostid' /\ Unacked(hostid')
    BY <2>1 DEF IInv, InFlightIsUnacked
  <2>3. \A j \in 1..(i - 1) : j \in DOMAIN cmds /\ j < i
    BY <1>1
  <2> QED
    BY <2>2, <2>3 DEF IInv, ListOrder, Unacked
<1>4. ASSUME cmd_mgr_llind
      PROVE  \E i \in DOMAIN cmds :
               /\ cmds[i] = hostid'
               /\ \A j \in 1..(i - 1) : "WAIT_ACK" \in flags[cmds[j]] => cmds[j] = acking
  <2>1. PICK p \in DOMAIN cmds :
          /\ cmds[p] = acking
          /\ \A k \in DOMAIN cmds : k < p => "WAIT_ACK" \notin flags[cmds[k]]
          /\ FirstDeferred(acking) = IF p < Len(cmds) THEN {cmds[p + 1]} ELSE {}
    BY <1>4, LlindView DEF cmd_mgr_llind
  <2>2. hostid' \in FirstDeferred(acking)
    BY <1>4 DEF cmd_mgr_llind, ipc_host_msg_push
  <2>3. p + 1 \in DOMAIN cmds /\ cmds[p + 1] = hostid'
    BY <2>1, <2>2, <1>1
  <2>4. \A j \in 1..((p + 1) - 1) : j \in DOMAIN cmds /\ (j < p \/ j = p)
    BY <1>1
  <2> QED
    BY <2>1, <2>3, <2>4
<1> QED
  BY <1>2, <1>3, <1>4

(* Requests enter the mailbox in the order cmd_mgr_queue accepted them. *)
THEOREM PushesAreInOrder == Spec => PushedInOrder
<1>1. IInv /\ [Next]_vars => [PushInOrder]_vars
  BY PushInOrderStep
<1>2. Spec => [][PushInOrder]_vars
  BY <1>1, Invariance, PTL DEF Spec
<1> QED
  BY <1>2 DEF PushedInOrder, PushInOrder

=============================================================================
