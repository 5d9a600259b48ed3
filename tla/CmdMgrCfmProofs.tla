--------------------------- MODULE CmdMgrCfmProofs ---------------------------
(***************************************************************************)
(* What a caller of bl_send_msg relies on: the confirmation that ends its  *)
(* wait is the answer to its own command, its command is not freed under   *)
(* it, and nothing it allocated stays behind.  The proofs rest on IInv     *)
(* (CmdMgrProofs) and on three invariants relative to it.                  *)
(***************************************************************************)
EXTENDS CmdMgrProofs, FiniteSetTheorems

(* Position map of RemoveAt: all positions but i, in order. *)
LEMMA RemoveAtMap ==
  ASSUME NEW S, NEW s \in Seq(S), NEW i \in DOMAIN s, NEW s1, s1 = RemoveAt(s, i)
  PROVE  \E g \in [DOMAIN s1 -> DOMAIN s] :
           /\ \A j \in DOMAIN s1 : g[j] # i /\ s1[j] = s[g[j]]
           /\ \A j, k \in DOMAIN s1 : j < k => g[j] < g[k]
           /\ \A k \in DOMAIN s : k # i => \E j \in DOMAIN s1 : g[j] = k
<1>1. /\ Len(s) \in Nat /\ DOMAIN s = 1..Len(s)
      /\ s1 \in Seq(S) /\ Len(s1) = Len(s) - 1
      /\ \A j \in 1..(Len(s) - 1) : s1[j] = IF j < i THEN s[j] ELSE s[j + 1]
  BY RemoveAtProps
<1>2. DOMAIN s1 = 1..(Len(s) - 1)
  BY <1>1
<1> DEFINE g == [j \in DOMAIN s1 |-> IF j < i THEN j ELSE j + 1]
<1>3. g \in [DOMAIN s1 -> DOMAIN s]
  BY <1>1, <1>2
<1>4. \A j \in DOMAIN s1 : g[j] # i /\ s1[j] = s[g[j]]
  BY <1>1, <1>2
<1>5. \A j, k \in DOMAIN s1 : j < k => g[j] < g[k]
  BY <1>1, <1>2
<1>6. ASSUME NEW k \in DOMAIN s, k # i
      PROVE  \E j \in DOMAIN s1 : g[j] = k
  <2>1. CASE k < i
    BY <2>1, <1>1, <1>2
  <2>2. CASE k > i
    <3>1. k - 1 \in DOMAIN s1 /\ g[k - 1] = k
      BY <2>2, <1>1, <1>2
    <3> QED
      BY <3>1
  <2> QED
    BY <1>6, <2>1, <2>2, <1>1
<1> HIDE DEF g
<1> QED
  BY <1>3, <1>4, <1>5, <1>6

-----------------------------------------------------------------------------
(* The confirmations. *)

(* A command whose message the firmware has not taken yet: deferred, or in *)
(* flight with no acknowledgement raised or being handled.                 *)
Untaken(c) == WaitPush(c) \/ (Unacked(c) /\ ~ackirq /\ acking = NULL)

(* Every confirmation owed answers a taken command that still waits for it. *)
OwedIsListed ==
  \A k \in DOMAIN owed : \E i \in DOMAIN cmds :
    cmds[i] = owed[k].cmd /\ CfmMatches(i, owed[k].id) /\ ~Untaken(cmds[i])

(* The firmware owes its confirmations in the order of the list. *)
OwedInOrder ==
  \A k, l \in DOMAIN owed, i, j \in DOMAIN cmds :
    k < l /\ cmds[i] = owed[k].cmd /\ cmds[j] = owed[l].cmd => i < j

(* Who waits for a confirmation will be sent one: it is owed already, or   *)
(* the message that asks for it has still to be taken.                     *)
WaitsForOwed ==
  \A i \in DOMAIN cmds : "WAIT_CFM" \in flags[cmds[i]] =>
    Untaken(cmds[i]) \/ \E k \in DOMAIN owed : owed[k].cmd = cmds[i]

(* An untaken message asks for what its command waits for. *)
UntakenAsks ==
  \A i \in DOMAIN cmds : Untaken(cmds[i]) =>
    ("WAIT_CFM" \in flags[cmds[i]] <=> reqid[cmds[i]] # NoCfm)

CfmOrder == OwedIsListed /\ OwedInOrder /\ WaitsForOwed /\ UntakenAsks

(* In the list no untaken command stands before a taken one. *)
LEMMA TakenFirst ==
  ASSUME IInv, NEW i \in DOMAIN cmds, NEW j \in DOMAIN cmds,
         Untaken(cmds[i]), ~Untaken(cmds[j])
  PROVE  j < i
<1>1. cmds \in Seq(Cmd) /\ i \in Nat /\ j \in Nat
  BY DEF IInv, TypeOK
<1>2. "WAIT_ACK" \in flags[cmds[i]]
  BY DEF IInv, ListOrder, Untaken, Unacked
<1>3. ~(i < j)
  BY <1>2 DEF IInv, ListOrder, Untaken
<1>4. i # j
  OBVIOUS
<1> QED
  BY <1>1, <1>3, <1>4

(* Different confirmations answer different commands. *)
LEMMA OwedDistinct ==
  ASSUME IInv, CfmOrder, NEW k \in DOMAIN owed, NEW l \in DOMAIN owed,
         owed[k].cmd = owed[l].cmd
  PROVE  k = l
<1>1. owed \in Seq(Confirmation) /\ k \in Nat /\ l \in Nat /\ cmds \in Seq(Cmd)
  BY DEF IInv, TypeOK
<1>2. PICK i \in DOMAIN cmds : cmds[i] = owed[k].cmd
  BY DEF CfmOrder, OwedIsListed
<1>3. i \in Nat /\ ~(i < i)
  BY <1>1
<1>4. ~(k < l) /\ ~(l < k)
  BY <1>2, <1>3 DEF CfmOrder, OwedInOrder
<1> QED
  BY <1>1, <1>4

(* The order of the list and the order of the confirmations agree, so the  *)
(* next confirmation with an identifier finds the command it answers.      *)
LEMMA CfmAnswers == IInv /\ CfmOrder => CfmAnswersItsCmd
<1> SUFFICES ASSUME IInv, CfmOrder, NEW k \in DOMAIN owed, Sendable(k)
             PROVE  \E i \in DOMAIN cmds : cmds[i] = owed[k].cmd /\ IsCfmMatch(i, owed[k].id)
  BY DEF CfmAnswersItsCmd
<1>1. /\ cmds \in Seq(Cmd) /\ DOMAIN cmds = 1..Len(cmds) /\ Len(cmds) \in Nat
      /\ owed \in Seq(Confirmation) /\ DOMAIN owed = 1..Len(owed) /\ Len(owed) \in Nat
  BY DEF IInv, TypeOK
<1>2. PICK i \in DOMAIN cmds :
        cmds[i] = owed[k].cmd /\ CfmMatches(i, owed[k].id) /\ ~Untaken(cmds[i])
  BY DEF CfmOrder, OwedIsListed
<1>3. ASSUME NEW j \in 1..(i - 1), CfmMatches(j, owed[k].id)
      PROVE  FALSE
  <2>1. j \in DOMAIN cmds /\ j < i /\ ~(i < j)
    BY <1>1
  <2>2. ~Untaken(cmds[j])
    BY <2>1, <1>2, TakenFirst
  <2>3. PICK l \in DOMAIN owed : owed[l].cmd = cmds[j]
    BY <1>3, <2>1, <2>2 DEF CfmOrder, WaitsForOwed, CfmMatches
  <2>4. reqid[cmds[j]] = owed[l].id
    <3>1. PICK m \in DOMAIN cmds : cmds[m] = owed[l].cmd /\ CfmMatches(m, owed[l].id)
      BY DEF CfmOrder, OwedIsListed
    <3> QED
      BY <3>1, <2>3 DEF CfmMatches
  <2>5. owed[l].id = owed[k].id
    BY <1>3, <2>4 DEF CfmMatches
  <2>6. ~(l < k)
    BY <1>1, <2>5 DEF Sendable
  <2>7. ~(k < l)
    BY <2>1, <2>3, <1>2 DEF CfmOrder, OwedInOrder
  <2>8. l = k
    BY <2>6, <2>7, <1>1
  <2> QED
    BY <2>1, <2>3, <2>8, <1>1, <1>2 DEF IInv, ListOrder
<1> QED
  BY <1>2, <1>3 DEF IsCfmMatch

(* Steps that owe nothing new and take no message: the list may lose       *)
(* commands that wait for no confirmation.                                 *)
LEMMA CfmKept ==
  ASSUME IInv, CfmOrder, NEW f, NEW gone, SubListBy(f, gone),
         cmds' \in Seq(Cmd), owed' = owed, reqid' = reqid,
         \A d \in gone : "WAIT_CFM" \notin flags[d],
         \A i \in DOMAIN cmds : "WAIT_CFM" \in flags'[cmds[i]] <=> "WAIT_CFM" \in flags[cmds[i]],
         \A d \in Cmd : (\E i \in DOMAIN cmds : cmds[i] = d) => (Untaken(d)' <=> Untaken(d))
  PROVE  CfmOrder'
<1>1. /\ cmds \in Seq(Cmd) /\ DOMAIN cmds = 1..Len(cmds) /\ Len(cmds) \in Nat
      /\ DOMAIN cmds' = 1..Len(cmds') /\ Len(cmds') \in Nat
      /\ \A i \in DOMAIN cmds : cmds[i] \in Cmd
  BY DEF IInv, TypeOK
<1>2. \A j \in DOMAIN cmds' : f[j] \in DOMAIN cmds /\ cmds'[j] = cmds[f[j]]
  BY DEF SubListBy
<1>3. \A j \in DOMAIN cmds' : /\ Untaken(cmds[j])' <=> Untaken(cmds[f[j]])
                              /\ "WAIT_CFM" \in flags'[cmds'[j]] <=> "WAIT_CFM" \in flags[cmds[f[j]]]
                              /\ reqid'[cmds'[j]] = reqid[cmds[f[j]]]
  <2> SUFFICES ASSUME NEW j \in DOMAIN cmds'
               PROVE  /\ Untaken(cmds[j])' <=> Untaken(cmds[f[j]])
                      /\ "WAIT_CFM" \in flags'[cmds'[j]] <=> "WAIT_CFM" \in flags[cmds[f[j]]]
                      /\ reqid'[cmds'[j]] = reqid[cmds[f[j]]]
    OBVIOUS
  <2>1. PICK d \in Cmd : d = cmds[f[j]]
    BY <1>1, <1>2
  <2>2. Untaken(d)' <=> Untaken(d)
    BY <2>1, <1>2
  <2>3. Untaken(cmds[j])' <=> Untaken(d)'
    BY <2>1, <1>2 DEF Untaken, WaitPush, Unacked
  <2> QED
    BY <2>1, <2>2, <2>3, <1>2
<1>4. OwedIsListed'
  <2> SUFFICES ASSUME NEW k \in DOMAIN owed
               PROVE  \E j \in DOMAIN cmds' :
                        /\ cmds'[j] = owed[k].cmd /\ CfmMatches(j, owed[k].id)'
                        /\ ~Untaken(cmds[j])'
    BY DEF OwedIsListed
  <2>1. PICK i \in DOMAIN cmds :
          cmds[i] = owed[k].cmd /\ CfmMatches(i, owed[k].id) /\ ~Untaken(cmds[i])
    BY DEF CfmOrder, OwedIsListed
  <2>2. cmds[i] \notin gone
    BY <2>1 DEF CfmMatches
  <2>3. PICK j \in DOMAIN cmds' : f[j] = i
    BY <2>2 DEF SubListBy
  <2>4. CfmMatches(j, owed[k].id)'
    BY <2>1, <2>3, <1>2, <1>3 DEF CfmMatches
  <2> QED
    BY <2>1, <2>3, <2>4, <1>2, <1>3
<1>5. OwedInOrder'
  <2> SUFFICES ASSUME NEW k \in DOMAIN owed, NEW l \in DOMAIN owed,
                      NEW i \in DOMAIN cmds', NEW j \in DOMAIN cmds',
                      k < l, cmds'[i] = owed[k].cmd, cmds'[j] = owed[l].cmd
               PROVE  i < j
    BY DEF OwedInOrder
  <2>1. f[i] < f[j] /\ f[i] \in Nat /\ f[j] \in Nat
    BY <1>1, <1>2 DEF CfmOrder, OwedInOrder
  <2>2. ~(j < i) /\ i # j
    BY <2>1 DEF SubListBy
  <2> QED
    BY <2>2, <1>1
<1>6. WaitsForOwed'
  BY <1>2, <1>3 DEF CfmOrder, WaitsForOwed
<1>7. UntakenAsks'
  BY <1>2, <1>3 DEF CfmOrder, UntakenAsks
<1> QED
  BY <1>4, <1>5, <1>6, <1>7 DEF CfmOrder

-----------------------------------------------------------------------------
(* The steps. *)

(* At first nothing is owed. *)
LEMMA InitCfm == Init => CfmOrder
  BY DEF Init, CfmOrder, OwedIsListed, OwedInOrder, WaitsForOwed, UntakenAsks

(* cmd_mgr_queue: the new command is untaken, behind all the others. *)
LEMMA CfmQueueStep ==
  ASSUME IInv, CfmOrder, NEW t \in Task, NEW r \in Request, NEW c \in Cmd,
         cmd_mgr_queue(t, r, c)
  PROVE  CfmOrder'
<1>1. /\ cmds \in Seq(Cmd) /\ Len(cmds) \in Nat /\ DOMAIN cmds = 1..Len(cmds)
      /\ cmds' = Append(cmds, c)
      /\ flags \in [Cmd -> SUBSET Flag] /\ reqid \in [Cmd -> CfmId \cup {NoCfm}]
      /\ \A i \in DOMAIN cmds : cmds[i] \in Cmd
  BY DEF cmd_mgr_queue, IInv, TypeOK
<1>2. c \notin cmdHeap /\ \A i \in DOMAIN cmds : cmds[i] # c
  BY DEF cmd_mgr_queue, FreeCell, IInv, ListIsLive
<1>3. /\ flags' = [flags EXCEPT ![c] = NewFlags(r)]
      /\ reqid' = [reqid EXCEPT ![c] = r.reqid]
      /\ UNCHANGED <<owed, acking, ackirq>>
  BY DEF cmd_mgr_queue, ipcVars
<1>4. /\ DOMAIN cmds' = DOMAIN cmds \cup {Len(cmds) + 1} /\ cmds'[Len(cmds) + 1] = c
      /\ \A i \in DOMAIN cmds : cmds'[i] = cmds[i] /\ i < Len(cmds) + 1
  BY <1>1
<1>5. \A i \in DOMAIN cmds : /\ flags'[cmds'[i]] = flags[cmds[i]]
                             /\ reqid'[cmds'[i]] = reqid[cmds[i]]
                             /\ Untaken(cmds[i])' <=> Untaken(cmds[i])
  BY <1>1, <1>2, <1>3, <1>4 DEF Untaken, WaitPush, Unacked
<1>6. flags'[c] = NewFlags(r) /\ reqid'[c] = r.reqid
  BY <1>1, <1>3
<1>7. /\ "WAIT_CFM" \in NewFlags(r) <=> r.reqid # NoCfm
      /\ "WAIT_ACK" \in NewFlags(r)
      /\ "WAIT_PUSH" \in NewFlags(r) <=> MustDefer
  BY DEF NewFlags
<1>8. Untaken(c)'
  <2>1. CASE MustDefer
    BY <2>1, <1>6, <1>7 DEF Untaken, WaitPush
  <2>2. CASE ~MustDefer
    <3>1. \A i \in DOMAIN cmds : ~Unacked(cmds[i])
      BY <2>2, <1>1 DEF MustDefer, IInv, ListOrder, Unacked, WaitPush
    <3>2. hostid = NULL /\ acking = NULL
      BY <3>1 DEF IInv, TypeOK, InFlightIsUnacked, InFlight
    <3>3. ~ackirq
      BY <3>2 DEF IInv, Interrupts
    <3> QED
      BY <2>2, <3>2, <3>3, <1>3, <1>6, <1>7 DEF Untaken, Unacked, WaitPush
  <2> QED
    BY <2>1, <2>2
<1>9. \A k \in DOMAIN owed : owed[k].cmd # c
  BY <1>2 DEF CfmOrder, OwedIsListed
<1>10. OwedIsListed'
  <2> SUFFICES ASSUME NEW k \in DOMAIN owed
               PROVE  \E i \in DOMAIN cmds' :
                        /\ cmds'[i] = owed[k].cmd /\ CfmMatches(i, owed[k].id)'
                        /\ ~Untaken(cmds[i])'
    BY <1>3 DEF OwedIsListed
  <2>1. PICK i \in DOMAIN cmds :
          cmds[i] = owed[k].cmd /\ CfmMatches(i, owed[k].id) /\ ~Untaken(cmds[i])
    BY DEF CfmOrder, OwedIsListed
  <2>2. CfmMatches(i, owed[k].id)'
    BY <2>1, <1>3, <1>5 DEF CfmMatches
  <2> QED
    BY <2>1, <2>2, <1>4, <1>5
<1>11. OwedInOrder'
  BY <1>3, <1>4, <1>9 DEF CfmOrder, OwedInOrder
<1>12. ASSUME NEW i \in DOMAIN cmds'
       PROVE  /\ "WAIT_CFM" \in flags'[cmds'[i]] =>
                   Untaken(cmds[i])' \/ \E k \in DOMAIN owed' : owed'[k].cmd = cmds'[i]
              /\ Untaken(cmds[i])' =>
                   ("WAIT_CFM" \in flags'[cmds'[i]] <=> reqid'[cmds'[i]] # NoCfm)
  <2>1. CASE i \in DOMAIN cmds
    BY <2>1, <1>3, <1>4, <1>5 DEF CfmOrder, WaitsForOwed, UntakenAsks
  <2>2. CASE i = Len(cmds) + 1
    <3>1. Untaken(cmds[i])'
      BY <2>2, <1>4, <1>8 DEF Untaken, Unacked, WaitPush
    <3> QED
      BY <2>2, <3>1, <1>4, <1>6, <1>7
  <2> QED
    BY <2>1, <2>2, <1>4
<1> QED
  BY <1>10, <1>11, <1>12 DEF CfmOrder, WaitsForOwed, UntakenAsks

(* A rejected call and the steps of a caller after the queueing leave the  *)
(* list, its flags and the confirmations alone.                            *)
LEMMA CfmCallerStep ==
  ASSUME IInv, CfmOrder, UNCHANGED <<listVars, owed, ackirq, acking>>
  PROVE  CfmOrder'
  BY DEF CfmOrder, OwedIsListed, OwedInOrder, WaitsForOwed, UntakenAsks, CfmMatches,
         Untaken, Unacked, WaitPush, listVars

(* The first half of the acknowledgement handler: the message was taken    *)
(* and stays taken.                                                        *)
LEMMA CfmAckStep ==
  ASSUME IInv, CfmOrder, ipc_host_msgack_handler
  PROVE  CfmOrder'
<1>1. UNCHANGED <<listVars, owed>> /\ ackirq /\ acking' = hostid
  BY DEF ipc_host_msgack_handler
<1>2. acking' # NULL
  BY <1>1 DEF IInv, Interrupts
<1>3. \A d : Untaken(d)' <=> Untaken(d)
  BY <1>1, <1>2 DEF Untaken, Unacked, WaitPush, listVars
<1> QED
  BY <1>1, <1>3 DEF CfmOrder, OwedIsListed, OwedInOrder, WaitsForOwed, UntakenAsks,
                    CfmMatches, listVars

(* fw_take: the one unacknowledged command stands behind all taken ones,   *)
(* so its confirmation goes to the end of what is owed.                    *)
LEMMA CfmTakeStep ==
  ASSUME IInv, CfmOrder, fw_take
  PROVE  CfmOrder'
<1>1. /\ cmds \in Seq(Cmd) /\ Len(cmds) \in Nat /\ DOMAIN cmds = 1..Len(cmds)
      /\ owed \in Seq(Confirmation) /\ Len(owed) \in Nat /\ DOMAIN owed = 1..Len(owed)
      /\ \A i \in DOMAIN cmds : cmds[i] \in Cmd
      /\ \A i, j \in DOMAIN cmds : cmds[i] = cmds[j] => i = j
  BY DEF IInv, TypeOK, ListOrder
<1>2. /\ UNCHANGED <<cmds, flags, reqid, acking>>
      /\ bell /\ ackirq' = TRUE
  BY DEF fw_take, listVars
<1>3. hostid # NULL /\ ~ackirq /\ acking = NULL
  BY <1>2 DEF IInv, Interrupts, MailboxExclusive
<1>4. PICK p \in DOMAIN cmds : cmds[p] = hostid /\ Unacked(hostid)
  BY <1>3 DEF IInv, TypeOK, InFlightIsUnacked, InFlight
<1>5. Untaken(cmds[p])
  BY <1>3, <1>4 DEF Untaken
<1>6. \A i \in DOMAIN cmds : Unacked(cmds[i]) => i = p
  <2> SUFFICES ASSUME NEW i \in DOMAIN cmds, Unacked(cmds[i]) PROVE i = p
    OBVIOUS
  <2>1. ~(i < p) /\ ~(p < i)
    BY <1>4 DEF IInv, ListOrder, Unacked
  <2> QED
    BY <2>1, <1>1
<1>7. \A d : Untaken(d)' <=> WaitPush(d)
  BY <1>2 DEF Untaken, Unacked, WaitPush
<1>8. \A i \in DOMAIN cmds : Untaken(cmds[i]) <=> i = p \/ WaitPush(cmds[i])
  BY <1>3, <1>4, <1>6 DEF Untaken
<1>9. ~Untaken(cmds[p])'
  BY <1>4, <1>2, <1>7 DEF Unacked, Untaken, WaitPush
<1>10. \A i \in DOMAIN cmds : Untaken(cmds[i])' <=> WaitPush(cmds[i])
  BY <1>2 DEF Untaken, Unacked, WaitPush
<1>11. UntakenAsks'
  BY <1>2, <1>8, <1>10 DEF CfmOrder, UntakenAsks
<1>12. CASE reqid[hostid] = NoCfm
  <2>1. owed' = owed
    BY <1>12 DEF fw_take
  <2>2. OwedIsListed' /\ OwedInOrder'
    BY <2>1, <1>2, <1>8, <1>10 DEF CfmOrder, OwedIsListed, OwedInOrder, CfmMatches
  <2>3. "WAIT_CFM" \notin flags[cmds[p]]
    BY <1>12, <1>4, <1>5 DEF CfmOrder, UntakenAsks
  <2>4. WaitsForOwed'
    BY <2>1, <2>3, <1>2, <1>8, <1>10 DEF CfmOrder, WaitsForOwed
  <2> QED
    BY <1>11, <2>2, <2>4 DEF CfmOrder
<1>13. CASE reqid[hostid] # NoCfm
  <2> DEFINE e == [cmd |-> hostid, id |-> reqid[hostid]]
             n == Len(owed) + 1
  <2>1. owed' = Append(owed, e)
    BY <1>13 DEF fw_take
  <2>2. e.cmd = cmds[p] /\ e.id = reqid[cmds[p]] /\ e \in Confirmation
    BY <1>1, <1>4, <1>13 DEF IInv, TypeOK, Confirmation
  <2> HIDE DEF e
  <2>3. /\ DOMAIN owed' = DOMAIN owed \cup {n} /\ owed'[n] = e
        /\ \A k \in DOMAIN owed : owed'[k] = owed[k] /\ k < n /\ ~(n < k)
        /\ ~(n < n)
    BY <2>1, <2>2, <1>1
  <2> HIDE DEF n
  <2>4. "WAIT_CFM" \in flags[cmds[p]]
    BY <1>13, <1>4, <1>5 DEF CfmOrder, UntakenAsks
  <2>5. \A k \in DOMAIN owed : \E i \in DOMAIN cmds :
          cmds[i] = owed[k].cmd /\ CfmMatches(i, owed[k].id) /\ ~Untaken(cmds[i]) /\ i < p
    BY <1>5, TakenFirst DEF CfmOrder, OwedIsListed
  <2>6. OwedIsListed'
    <3> SUFFICES ASSUME NEW k \in DOMAIN owed'
                 PROVE  \E i \in DOMAIN cmds :
                          /\ cmds[i] = owed'[k].cmd /\ CfmMatches(i, owed'[k].id)
                          /\ ~WaitPush(cmds[i])
      BY <1>2, <1>10 DEF OwedIsListed, CfmMatches
    <3>1. CASE k = n
      BY <3>1, <2>2, <2>3, <2>4, <1>4 DEF CfmMatches, Unacked
    <3>2. CASE k \in DOMAIN owed
      BY <3>2, <2>3, <2>5, <1>8
    <3> QED
      BY <3>1, <3>2, <2>3
  <2>7. OwedInOrder'
    <3> SUFFICES ASSUME NEW k \in DOMAIN owed', NEW l \in DOMAIN owed',
                        NEW i \in DOMAIN cmds, NEW j \in DOMAIN cmds,
                        k < l, cmds[i] = owed'[k].cmd, cmds[j] = owed'[l].cmd
                 PROVE  i < j
      BY <1>2 DEF OwedInOrder
    <3>1. k \in DOMAIN owed
      BY <2>3
    <3>2. CASE l \in DOMAIN owed
      BY <3>1, <3>2, <2>3 DEF CfmOrder, OwedInOrder
    <3>3. CASE l = n
      <4>1. j = p
        BY <3>3, <2>2, <2>3, <1>1
      <4>2. PICK m \in DOMAIN cmds : cmds[m] = owed[k].cmd /\ m < p
        BY <3>1, <2>5
      <4>3. m = i
        BY <3>1, <4>2, <2>3, <1>1
      <4> QED
        BY <4>1, <4>2, <4>3
    <3> QED
      BY <3>2, <3>3, <2>3
  <2>8. WaitsForOwed'
    <3> SUFFICES ASSUME NEW i \in DOMAIN cmds, "WAIT_CFM" \in flags[cmds[i]], ~WaitPush(cmds[i])
                 PROVE  \E k \in DOMAIN owed' : owed'[k].cmd = cmds[i]
      BY <1>2, <1>10 DEF WaitsForOwed
    <3>1. CASE i = p
      BY <3>1, <2>2, <2>3
    <3>2. CASE i # p
      BY <3>2, <2>3, <1>8 DEF CfmOrder, WaitsForOwed
    <3> QED
      BY <3>1, <3>2
  <2> QED
    BY <1>11, <2>6, <2>7, <2>8 DEF CfmOrder
<1> QED
  BY <1>12, <1>13

(* What cmd_complete does, to whom. *)
LEMMA CompleteHeap ==
  ASSUME NEW c, cmd_complete(c)
  PROVE  cmdHeap' = cmdHeap \ {d \in {c} : "NONBLOCK" \in flags[d]}
  BY DEF cmd_complete

(* What cmd_mgr_llind does when the acknowledged command is at position p  *)
(* and the commands in gone are completed.                                 *)
LlindTo(p, gone) ==
  /\ cmds[p] = acking /\ acking \in Cmd /\ acking' = NULL /\ ~ackirq
  /\ acking \in gone => "WAIT_CFM" \notin flags[acking]
  /\ cmds' \in Seq(Cmd) /\ \E f : SubListBy(f, gone)
  /\ \A k \in DOMAIN cmds : /\ WaitPush(cmds[k]) <=> k > p
                            /\ "WAIT_PUSH" \in flags'[cmds[k]] <=> k > p + 1
                            /\ "WAIT_ACK" \in flags'[cmds[k]] <=> k > p
  /\ \A d \in Cmd : /\ "WAIT_CFM" \in flags'[d] <=> "WAIT_CFM" \in flags[d]
                    /\ "NONBLOCK" \in flags'[d] <=> "NONBLOCK" \in flags[d]
  /\ cmdHeap' = cmdHeap \ {d \in gone : "NONBLOCK" \in flags[d]}
  /\ msgHeap' = msgHeap \ {cmds[k] : k \in {p + 1} \cap DOMAIN cmds}
  /\ UNCHANGED <<reqid, pc, cur, nonblock, ackirq, owed>>

(* cmd_mgr_llind acts on one place of the list and frees at most its       *)
(* command.                                                                *)
LEMMA LlindEffect ==
  ASSUME IInv, cmd_mgr_llind
  PROVE  \E p \in DOMAIN cmds, gone \in SUBSET {acking} : LlindTo(p, gone)
<1>1. PICK p \in DOMAIN cmds :
         /\ cmds[p] = acking /\ Unacked(acking)
         /\ \A k \in DOMAIN cmds : k < p => "WAIT_ACK" \notin flags[cmds[k]] /\ ~WaitPush(cmds[k])
         /\ \A k \in DOMAIN cmds : k > p => WaitPush(cmds[k])
         /\ AckFound(acking)
         /\ FirstDeferred(acking) = IF p < Len(cmds) THEN {cmds[p + 1]} ELSE {}
         /\ hostid = NULL /\ \A t \in Task : pc[t] # "push"
  BY LlindView DEF cmd_mgr_llind
<1> DEFINE next == {cmds[k] : k \in {p + 1} \cap DOMAIN cmds}
           left == flags[acking] \ {"WAIT_ACK"}
           gone == IF WaitComplete(left) THEN {acking} ELSE {}
<1>2. TypeOK /\ ListOrder /\ Interrupts
  BY DEF IInv
<1>3. /\ cmds \in Seq(Cmd) /\ Len(cmds) \in Nat /\ DOMAIN cmds = 1..Len(cmds)
      /\ acking \in Cmd /\ flags \in [Cmd -> SUBSET Flag]
      /\ \A i \in DOMAIN cmds : cmds[i] \in Cmd
      /\ \A i, j \in DOMAIN cmds : cmds[i] = cmds[j] => i = j
  BY <1>2 DEF TypeOK, cmd_mgr_llind, ListOrder
<1>4. FirstDeferred(acking) = next
  BY <1>1, <1>3
<1>5. /\ next \subseteq Cmd /\ acking \notin next
      /\ \A k \in DOMAIN cmds : cmds[k] \in next <=> k = p + 1
  BY <1>1, <1>3
<1>6. flags' = [c \in Cmd |->
              CASE c = acking -> IF WaitComplete(left) THEN left \cup {"DONE"} ELSE left
                [] c \in next -> flags[c] \ {"WAIT_PUSH"}
                [] OTHER -> flags[c]]
  BY <1>1, <1>4 DEF cmd_mgr_llind
<1>7. cmds' \in Seq(Cmd) /\ \E f : SubListBy(f, gone)
  <2>1. CASE WaitComplete(left)
    <3>1. cmd_complete(cmds[p]) /\ gone = {cmds[p]}
      BY <2>1, <1>1 DEF cmd_mgr_llind
    <3> QED
      BY <3>1, <1>2, CompleteProps
  <2>2. CASE ~WaitComplete(left)
    <3>1. cmds' = cmds /\ gone = {}
      BY <2>2, <1>1 DEF cmd_mgr_llind
    <3>2. SubListBy([j \in DOMAIN cmds |-> j], gone)
      BY <3>1, <1>3 DEF SubListBy
    <3> QED
      BY <3>1, <3>2, <1>3
  <2> QED
    BY <2>1, <2>2
<1>8. cmdHeap' = cmdHeap \ {d \in gone : "NONBLOCK" \in flags[d]}
  <2>1. CASE WaitComplete(left)
    <3>1. cmd_complete(acking) /\ gone = {acking}
      BY <2>1, <1>1 DEF cmd_mgr_llind
    <3> QED
      BY <3>1, CompleteHeap
  <2>2. CASE ~WaitComplete(left)
    BY <2>2, <1>1 DEF cmd_mgr_llind
  <2> QED
    BY <2>1, <2>2
<1>9. acking \in gone => "WAIT_CFM" \notin flags[acking]
  BY DEF WaitComplete
<1>10. /\ msgHeap' = msgHeap \ next /\ acking' = NULL
       /\ UNCHANGED <<reqid, pc, cur, nonblock, ackirq, owed>>
  BY <1>4 DEF cmd_mgr_llind, taskVars
<1>11. ~ackirq
  BY <1>1, <1>2 DEF Interrupts
<1> HIDE DEF next, left, gone
<1>12. /\ flags'[acking] = left \/ flags'[acking] = left \cup {"DONE"}
       /\ \A d \in Cmd : d # acking /\ d \in next => flags'[d] = flags[d] \ {"WAIT_PUSH"}
       /\ \A d \in Cmd : d # acking /\ d \notin next => flags'[d] = flags[d]
  BY <1>3, <1>5, <1>6
<1>13. \A d \in Cmd : /\ "WAIT_CFM" \in flags'[d] <=> "WAIT_CFM" \in flags[d]
                      /\ "NONBLOCK" \in flags'[d] <=> "NONBLOCK" \in flags[d]
  BY <1>12 DEF left
<1>14. ASSUME NEW k \in DOMAIN cmds
       PROVE  /\ WaitPush(cmds[k]) <=> k > p
              /\ "WAIT_PUSH" \in flags'[cmds[k]] <=> k > p + 1
              /\ "WAIT_ACK" \in flags'[cmds[k]] <=> k > p
  <2>1. k > p => WaitPush(cmds[k]) /\ "WAIT_ACK" \in flags[cmds[k]] /\ cmds[k] # acking
    BY <1>1, <1>2, <1>3 DEF ListOrder
  <2>2. CASE k = p
    BY <2>2, <1>1, <1>3, <1>12 DEF left, Unacked, WaitPush
  <2>3. CASE k < p
    BY <2>3, <1>1, <1>3, <1>5, <1>12 DEF WaitPush
  <2>4. CASE k = p + 1
    BY <2>1, <2>4, <1>3, <1>5, <1>12 DEF WaitPush
  <2>5. CASE k > p + 1
    BY <2>1, <2>5, <1>3, <1>5, <1>12 DEF WaitPush
  <2> QED
    BY <2>2, <2>3, <2>4, <2>5, <1>3
<1>15. gone \in SUBSET {acking}
  BY DEF gone
<1>16. LlindTo(p, gone)
  BY <1>1, <1>3, <1>7, <1>8, <1>9, <1>10, <1>11, <1>13, <1>14 DEF LlindTo, next
<1> QED
  BY <1>15, <1>16

(* An acknowledged command was taken, those behind it still are untaken. *)
LEMMA CfmLlindStep ==
  ASSUME IInv, CfmOrder, cmd_mgr_llind
  PROVE  CfmOrder'
<1>1. PICK p \in DOMAIN cmds, gone \in SUBSET {acking} : LlindTo(p, gone)
  BY LlindEffect
<1>2. PICK f : SubListBy(f, gone)
  BY <1>1 DEF LlindTo
<1>3. /\ cmds \in Seq(Cmd) /\ DOMAIN cmds = 1..Len(cmds) /\ Len(cmds) \in Nat
      /\ \A i \in DOMAIN cmds : cmds[i] \in Cmd
  BY DEF IInv, TypeOK
<1>4. acking # NULL
  BY DEF cmd_mgr_llind
<1>5. ASSUME NEW k \in DOMAIN cmds, NEW d, d = cmds[k]
      PROVE  Untaken(d)' <=> Untaken(d)
  <2>1. Untaken(d) <=> k > p
    BY <1>1, <1>4, <1>5 DEF Untaken, LlindTo
  <2>2. Untaken(d)' <=> k > p + 1 \/ (k > p /\ ~(k > p + 1))
    BY <1>1, <1>5 DEF Untaken, LlindTo, WaitPush, Unacked
  <2> QED
    BY <2>1, <2>2, <1>3
<1>6. /\ cmds' \in Seq(Cmd) /\ owed' = owed /\ reqid' = reqid
      /\ \A d \in gone : "WAIT_CFM" \notin flags[d]
      /\ \A i \in DOMAIN cmds : "WAIT_CFM" \in flags'[cmds[i]] <=> "WAIT_CFM" \in flags[cmds[i]]
  BY <1>1, <1>3 DEF LlindTo
<1> QED
  BY <1>2, <1>5, <1>6, CfmKept

(* What cmd_mgr_msgind does with the confirmation that answers d. *)
MsgindTo(k, d, gone) ==
  /\ d = owed[k].cmd /\ d \in Cmd
  /\ cmds' \in Seq(Cmd) /\ \E f : SubListBy(f, gone)
  /\ owed' = RemoveAt(owed, k)
  /\ \A c \in Cmd : /\ "WAIT_ACK" \in flags'[c] <=> "WAIT_ACK" \in flags[c]
                    /\ "WAIT_PUSH" \in flags'[c] <=> "WAIT_PUSH" \in flags[c]
                    /\ "NONBLOCK" \in flags'[c] <=> "NONBLOCK" \in flags[c]
                    /\ "WAIT_CFM" \in flags'[c] <=> "WAIT_CFM" \in flags[c] /\ c # d
  /\ d \in gone => "WAIT_ACK" \notin flags[d]
  /\ cmdHeap' = cmdHeap \ {c \in gone : "NONBLOCK" \in flags[c]}
  /\ UNCHANGED <<reqid, msgHeap, pc, cur, nonblock, hostid, ackirq, acking>>

(* cmd_mgr_msgind ends the wait of the command its confirmation answers    *)
(* only.                                                                   *)
LEMMA MsgindEffect ==
  ASSUME IInv, CfmOrder, NEW k \in DOMAIN owed, cmd_mgr_msgind(k)
  PROVE  \E gone \in SUBSET {owed[k].cmd} : MsgindTo(k, owed[k].cmd, gone)
<1> DEFINE d == owed[k].cmd
           match == {cmds[i] : i \in {i \in DOMAIN cmds : IsCfmMatch(i, owed[k].id)}}
           lft(c) == flags[c] \ {"WAIT_CFM"}
           done == {c \in match : WaitComplete(lft(c))}
<1>1. TypeOK /\ ListOrder
  BY DEF IInv
<1>2. /\ cmds \in Seq(Cmd) /\ Len(cmds) \in Nat /\ DOMAIN cmds = 1..Len(cmds)
      /\ \A i \in DOMAIN cmds : cmds[i] \in Cmd
      /\ flags \in [Cmd -> SUBSET Flag] /\ owed \in Seq(Confirmation)
  BY <1>1 DEF TypeOK
<1>3. PICK p \in DOMAIN cmds : cmds[p] = d /\ IsCfmMatch(p, owed[k].id)
  BY CfmAnswers DEF CfmAnswersItsCmd, cmd_mgr_msgind
<1>4. \A i \in DOMAIN cmds : IsCfmMatch(i, owed[k].id) => i = p
  <2> SUFFICES ASSUME NEW i \in DOMAIN cmds, IsCfmMatch(i, owed[k].id)
               PROVE  i = p
    OBVIOUS
  <2>1. (i < p => i \in 1..(p - 1)) /\ (p < i => p \in 1..(i - 1))
    BY <1>2
  <2> QED
    BY <2>1, <1>2, <1>3 DEF IsCfmMatch
<1>5. match = {d}
  BY <1>3, <1>4
<1>6. /\ flags' = [c \in Cmd |-> CASE c \in done -> lft(c) \cup {"DONE"}
                                   [] c \in match \ done -> lft(c)
                                   [] OTHER -> flags[c]]
      /\ done # {} => \E c \in done : cmd_complete(c)
      /\ done = {} => UNCHANGED <<cmds, queue_sz, complete, cmdHeap>>
      /\ UNCHANGED <<reqid, msgHeap, pc, cur, nonblock, hostid, bell, ackirq, acking>>
      /\ owed' = RemoveAt(owed, k)
  BY DEF cmd_mgr_msgind, taskVars, ipcVars
<1>7. d \in done => "WAIT_ACK" \notin flags[d]
  BY DEF WaitComplete
<1>8. done \subseteq match
  OBVIOUS
<1>9. d \in Cmd
  BY <1>2, <1>3
<1> HIDE DEF d, match, done
<1>10. \A c \in Cmd : c # d => flags'[c] = flags[c]
  BY <1>5, <1>6, <1>8
<1>11. flags'[d] = lft(d) \/ flags'[d] = lft(d) \cup {"DONE"}
  BY <1>5, <1>6, <1>8, <1>9
<1>12. \A c \in Cmd : /\ "WAIT_ACK" \in flags'[c] <=> "WAIT_ACK" \in flags[c]
                      /\ "WAIT_PUSH" \in flags'[c] <=> "WAIT_PUSH" \in flags[c]
                      /\ "NONBLOCK" \in flags'[c] <=> "NONBLOCK" \in flags[c]
                      /\ "WAIT_CFM" \in flags'[c] <=> "WAIT_CFM" \in flags[c] /\ c # d
  BY <1>10, <1>11
<1>13. /\ cmds' \in Seq(Cmd) /\ \E f : SubListBy(f, done)
       /\ cmdHeap' = cmdHeap \ {c \in done : "NONBLOCK" \in flags[c]}
  <2>1. CASE done # {}
    <3>1. done = {d}
      BY <2>1, <1>5, <1>8
    <3>2. cmd_complete(cmds[p]) /\ done = {cmds[p]}
      BY <3>1, <1>3, <1>6 DEF d
    <3>3. cmds' \in Seq(Cmd) /\ \E f : SubListBy(f, {cmds[p]})
      BY <3>2, <1>1, CompleteProps
    <3>4. cmdHeap' = cmdHeap \ {c \in {cmds[p]} : "NONBLOCK" \in flags[c]}
      BY <3>2, CompleteHeap
    <3> QED
      BY <3>2, <3>3, <3>4
  <2>2. CASE done = {}
    <3>1. cmds' = cmds /\ cmdHeap' = cmdHeap
      BY <2>2, <1>6
    <3>2. SubListBy([j \in DOMAIN cmds |-> j], done)
      BY <2>2, <3>1, <1>2 DEF SubListBy
    <3> QED
      BY <2>2, <3>1, <3>2, <1>2
  <2> QED
    BY <2>1, <2>2
<1>14. MsgindTo(k, d, done)
  BY <1>6, <1>7, <1>9, <1>12, <1>13 DEF MsgindTo, d
<1> QED
  BY <1>5, <1>8, <1>14 DEF d

(* cmd_mgr_msgind: the confirmation goes, and the wait it ends with it. *)
LEMMA CfmMsgindStep ==
  ASSUME IInv, CfmOrder, NEW k \in DOMAIN owed, cmd_mgr_msgind(k)
  PROVE  CfmOrder'
<1>1. PICK gone \in SUBSET {owed[k].cmd} : MsgindTo(k, owed[k].cmd, gone)
  BY MsgindEffect
<1>2. PICK d : d = owed[k].cmd
  OBVIOUS
<1>3. /\ d \in Cmd /\ gone \subseteq {d}
      /\ cmds' \in Seq(Cmd) /\ owed' = RemoveAt(owed, k)
      /\ \A c \in Cmd : /\ "WAIT_ACK" \in flags'[c] <=> "WAIT_ACK" \in flags[c]
                        /\ "WAIT_PUSH" \in flags'[c] <=> "WAIT_PUSH" \in flags[c]
                        /\ "WAIT_CFM" \in flags'[c] <=> "WAIT_CFM" \in flags[c] /\ c # d
      /\ UNCHANGED <<reqid, ackirq, acking>>
  BY <1>1, <1>2 DEF MsgindTo
<1>4. PICK f : SubListBy(f, gone)
  BY <1>1 DEF MsgindTo
<1>5. /\ cmds \in Seq(Cmd) /\ DOMAIN cmds = 1..Len(cmds) /\ Len(cmds) \in Nat
      /\ \A i \in DOMAIN cmds : cmds[i] \in Cmd
      /\ DOMAIN cmds' = 1..Len(cmds') /\ Len(cmds') \in Nat
      /\ owed \in Seq(Confirmation) /\ DOMAIN owed = 1..Len(owed) /\ Len(owed) \in Nat
      /\ \A i, j \in DOMAIN cmds : cmds[i] = cmds[j] => i = j
  BY <1>3 DEF IInv, TypeOK, ListOrder
<1>6. PICK g \in [DOMAIN owed' -> DOMAIN owed] :
        /\ \A j \in DOMAIN owed' : g[j] # k /\ owed'[j] = owed[g[j]]
        /\ \A j, l \in DOMAIN owed' : j < l => g[j] < g[l]
        /\ \A l \in DOMAIN owed : l # k => \E j \in DOMAIN owed' : g[j] = l
  <2>1. owed \in Seq(Confirmation) /\ owed' = RemoveAt(owed, k)
    BY <1>3, <1>5
  <2> QED
    BY <2>1, RemoveAtMap, SMTT(30)
<1>7. \A l \in DOMAIN owed : l # k => owed[l].cmd # d
  BY <1>2, OwedDistinct
<1>8. \A j \in DOMAIN cmds' : f[j] \in DOMAIN cmds /\ cmds'[j] = cmds[f[j]]
  BY <1>4 DEF SubListBy
<1>9. \A c \in Cmd : Untaken(c)' <=> Untaken(c)
  BY <1>3 DEF Untaken, Unacked, WaitPush
<1>10. ASSUME NEW j \in DOMAIN cmds'
       PROVE  Untaken(cmds[j])' <=> Untaken(cmds[f[j]])
  <2>1. PICK c \in Cmd : c = cmds[f[j]] /\ c = cmds'[j]
    BY <1>5, <1>8
  <2>2. Untaken(cmds[j])' <=> Untaken(c)'
    BY <2>1 DEF Untaken, Unacked, WaitPush
  <2> QED
    BY <2>1, <2>2, <1>9
<1>11. OwedIsListed'
  <2> SUFFICES ASSUME NEW l \in DOMAIN owed'
               PROVE  \E j \in DOMAIN cmds' :
                        /\ cmds'[j] = owed'[l].cmd
                        /\ reqid'[cmds'[j]] = owed'[l].id /\ "WAIT_CFM" \in flags'[cmds'[j]]
                        /\ ~Untaken(cmds[j])'
    BY DEF OwedIsListed, CfmMatches
  <2>1. g[l] \in DOMAIN owed /\ g[l] # k /\ owed'[l] = owed[g[l]]
    BY <1>6
  <2>2. PICK i \in DOMAIN cmds :
          cmds[i] = owed[g[l]].cmd /\ CfmMatches(i, owed[g[l]].id) /\ ~Untaken(cmds[i])
    BY <2>1 DEF CfmOrder, OwedIsListed
  <2>3. cmds[i] # d /\ cmds[i] \notin gone
    BY <2>1, <2>2, <1>3, <1>7
  <2>4. PICK j \in DOMAIN cmds' : f[j] = i
    BY <2>3, <1>4 DEF SubListBy
  <2>5. reqid'[cmds'[j]] = owed'[l].id /\ "WAIT_CFM" \in flags'[cmds'[j]]
    BY <2>1, <2>2, <2>3, <2>4, <1>3, <1>5, <1>8 DEF CfmMatches
  <2> QED
    BY <2>1, <2>2, <2>4, <2>5, <1>8, <1>10
<1>12. OwedInOrder'
  <2> SUFFICES ASSUME NEW l \in DOMAIN owed', NEW m \in DOMAIN owed',
                      NEW i \in DOMAIN cmds', NEW j \in DOMAIN cmds',
                      l < m, cmds'[i] = owed'[l].cmd, cmds'[j] = owed'[m].cmd
               PROVE  i < j
    BY DEF OwedInOrder
  <2>1. /\ g[l] \in DOMAIN owed /\ g[m] \in DOMAIN owed /\ g[l] < g[m]
        /\ cmds[f[i]] = owed[g[l]].cmd /\ cmds[f[j]] = owed[g[m]].cmd
    BY <1>6, <1>8
  <2>2. f[i] < f[j] /\ f[i] \in Nat /\ f[j] \in Nat
    BY <2>1, <1>5, <1>8 DEF CfmOrder, OwedInOrder
  <2>3. ~(j < i) /\ i # j
    BY <2>2, <1>4 DEF SubListBy
  <2> QED
    BY <2>3, <1>5
<1>13. WaitsForOwed'
  <2> SUFFICES ASSUME NEW j \in DOMAIN cmds', "WAIT_CFM" \in flags'[cmds'[j]],
                      ~Untaken(cmds[j])'
               PROVE  \E l \in DOMAIN owed' : owed'[l].cmd = cmds'[j]
    BY DEF WaitsForOwed
  <2>1. "WAIT_CFM" \in flags[cmds[f[j]]] /\ cmds'[j] # d
    BY <1>3, <1>5, <1>8
  <2>2. PICK l \in DOMAIN owed : owed[l].cmd = cmds[f[j]]
    BY <2>1, <1>8, <1>10 DEF CfmOrder, WaitsForOwed
  <2>3. PICK m \in DOMAIN owed' : g[m] = l
    BY <2>1, <2>2, <1>2, <1>6, <1>8
  <2> QED
    BY <2>2, <2>3, <1>6, <1>8
<1>14. UntakenAsks'
  <2> SUFFICES ASSUME NEW j \in DOMAIN cmds', Untaken(cmds[j])'
               PROVE  "WAIT_CFM" \in flags'[cmds'[j]] <=> reqid'[cmds'[j]] # NoCfm
    BY DEF UntakenAsks
  <2>1. Untaken(cmds[f[j]])
    BY <1>10
  <2>2. PICK i \in DOMAIN cmds : cmds[i] = d /\ ~Untaken(cmds[i])
    BY <1>2 DEF CfmOrder, OwedIsListed
  <2>3. cmds'[j] # d
    BY <2>1, <2>2, <1>8
  <2> QED
    BY <2>1, <2>3, <1>3, <1>5, <1>8 DEF CfmOrder, UntakenAsks
<1> QED
  BY <1>11, <1>12, <1>13, <1>14 DEF CfmOrder

(* Each action keeps CfmOrder. *)
LEMMA NextCfm == IInv /\ CfmOrder /\ [Next]_vars => CfmOrder'
<1> SUFFICES ASSUME IInv, CfmOrder, [Next]_vars PROVE CfmOrder'
  OBVIOUS
<1>1. ASSUME NEW t \in Task, bl_send_msg(t) PROVE CfmOrder'
  <2>1. CASE \E r \in Request, c \in Cmd : cmd_mgr_queue(t, r, c)
    BY <2>1, CfmQueueStep
  <2>2. CASE \E r \in Request, c \in Cmd : cmd_mgr_queue_full(t, r, c)
    BY <2>2, CfmCallerStep DEF cmd_mgr_queue_full, ipcVars
  <2>3. CASE bl_send_msg_nomem(t)
    BY <2>3, CfmCallerStep DEF bl_send_msg_nomem, vars, listVars
  <2> QED
    BY <1>1, <2>1, <2>2, <2>3 DEF bl_send_msg
<1>2. ASSUME NEW t \in Task, Caller(t) PROVE CfmOrder'
  BY <1>2, CfmCallerStep
     DEF Caller, push, free_a2e_msg, test_nonblock, wake, no_wait, ipcVars
<1>3. CASE Firmware
  BY <1>3, CfmTakeStep, CfmMsgindStep DEF Firmware
<1>4. CASE BottomHalf
  BY <1>4, CfmAckStep, CfmLlindStep DEF BottomHalf
<1>5. CASE UNCHANGED vars
  BY <1>5, CfmCallerStep DEF vars, listVars
<1> QED
  BY <1>1, <1>2, <1>3, <1>4, <1>5 DEF Next

(* Confirmations are owed in the order of the list, to commands that wait  *)
(* for them.                                                               *)
THEOREM ConfirmationsInOrder == Spec => []CfmOrder
  BY InitCfm, NextCfm, Invariance, PTL DEF Spec

(* cmd_mgr_msgind matches a confirmation by its identifier, and yet finds  *)
(* the very command the firmware answers.                                  *)
THEOREM CfmReachesItsCmd == Spec => []CfmAnswersItsCmd
  BY CfmAnswers, ConfirmationsInOrder, Invariance, PTL

(* A caller is woken only when neither the list, the mailbox, the          *)
(* acknowledgement handler nor the firmware can reach its command.         *)
THEOREM WokenWhenFinished == Spec => []WokenIsFinished
<1>1. IInv /\ CfmOrder => WokenIsFinished
  <2> SUFFICES ASSUME IInv, CfmOrder, NEW c \in Cmd, complete[c]
               PROVE  /\ c \notin ToSet(cmds) \cup {hostid, acking}
                      /\ \A k \in DOMAIN owed : owed[k].cmd # c
    BY DEF WokenIsFinished
  <2>1. \A i \in DOMAIN cmds : cmds[i] # c
    BY DEF IInv, ListIsLive
  <2>2. c \notin ToSet(cmds)
    BY <2>1 DEF ToSet
  <2>3. c # hostid /\ c # acking
    BY <2>1 DEF IInv, InFlightIsUnacked, InFlight
  <2>4. \A k \in DOMAIN owed : owed[k].cmd # c
    BY <2>1 DEF CfmOrder, OwedIsListed
  <2> QED
    BY <2>2, <2>3, <2>4
<1> QED
  BY <1>1, ConfirmationsInOrder, Invariance, PTL

-----------------------------------------------------------------------------
(* The commands of blocking callers. *)

InBlockingCall(t) == pc[t] # "idle" /\ ~nonblock[t]

(* The command of a task in a blocking call is allocated, is not one that  *)
(* cmd_complete frees, and belongs to no other blocking call.              *)
BlockingOwned ==
  /\ \A t \in Task : InBlockingCall(t) => cur[t] \in cmdHeap /\ "NONBLOCK" \notin flags[cur[t]]
  /\ \A t, u \in Task : InBlockingCall(t) /\ InBlockingCall(u) /\ cur[t] = cur[u] => t = u

(* A command is freed by its completion only if it is non-blocking. *)
LEMMA OwnedKept ==
  ASSUME IInv, BlockingOwned, UNCHANGED <<pc, cur, nonblock>>,
         \A d \in Cmd : "NONBLOCK" \in flags'[d] <=> "NONBLOCK" \in flags[d],
         \A d \in cmdHeap : "NONBLOCK" \notin flags[d] => d \in cmdHeap'
  PROVE  BlockingOwned'
<1>1. cmdHeap \subseteq Cmd
  BY DEF IInv, TypeOK
<1>2. \A t : InBlockingCall(t)' <=> InBlockingCall(t)
  BY DEF InBlockingCall
<1>3. \A t \in Task : InBlockingCall(t)' => cur'[t] \in cmdHeap' /\ "NONBLOCK" \notin flags'[cur'[t]]
  BY <1>1, <1>2 DEF BlockingOwned
<1>4. \A t, u \in Task : InBlockingCall(t)' /\ InBlockingCall(u)' /\ cur'[t] = cur'[u] => t = u
  BY <1>2 DEF BlockingOwned
<1> QED
  BY <1>3, <1>4 DEF BlockingOwned

(* A new command is nobody else's. *)
LEMMA OwnedQueueStep ==
  ASSUME IInv, BlockingOwned, NEW t \in Task, NEW r \in Request, NEW c \in Cmd,
         cmd_mgr_queue(t, r, c)
  PROVE  BlockingOwned'
<1>1. /\ pc \in [Task -> PC] /\ cur \in [Task -> Cmd \cup {NULL}]
      /\ nonblock \in [Task -> BOOLEAN] /\ flags \in [Cmd -> SUBSET Flag]
      /\ cmdHeap \subseteq Cmd
  BY DEF IInv, TypeOK
<1>2. /\ c \notin cmdHeap /\ cmdHeap' = cmdHeap \cup {c}
      /\ flags' = [flags EXCEPT ![c] = NewFlags(r)]
      /\ pc' = [pc EXCEPT ![t] = AfterQueue] /\ pc[t] = "idle"
      /\ cur' = [cur EXCEPT ![t] = c] /\ nonblock' = [nonblock EXCEPT ![t] = r.nonblock]
  BY DEF cmd_mgr_queue, FreeCell
<1>3. \A u \in Task : u # t =>
        (InBlockingCall(u)' <=> InBlockingCall(u)) /\ cur'[u] = cur[u]
  BY <1>1, <1>2 DEF InBlockingCall
<1>4. cur'[t] = c /\ (InBlockingCall(t)' => "NONBLOCK" \notin flags'[c])
  BY <1>1, <1>2 DEF InBlockingCall, NewFlags
<1>5. \A u \in Task : u # t /\ InBlockingCall(u)' =>
        cur'[u] \in cmdHeap /\ cur'[u] # c /\ "NONBLOCK" \notin flags'[cur'[u]]
  BY <1>1, <1>2, <1>3 DEF BlockingOwned
<1>6. \A u \in Task : InBlockingCall(u)' => cur'[u] \in cmdHeap' /\ "NONBLOCK" \notin flags'[cur'[u]]
  BY <1>2, <1>4, <1>5
<1>7. \A u, v \in Task : InBlockingCall(u)' /\ InBlockingCall(v)' /\ cur'[u] = cur'[v] => u = v
  BY <1>3, <1>4, <1>5 DEF BlockingOwned
<1> QED
  BY <1>6, <1>7 DEF BlockingOwned

(* A caller goes on or returns; wake frees the command of its own call. *)
LEMMA OwnedCallerStep ==
  ASSUME IInv, BlockingOwned, NEW t \in Task,
         UNCHANGED <<flags, cur, nonblock>>, pc[t] # "idle",
         NEW s \in PC, pc' = [pc EXCEPT ![t] = s],
         \A d \in cmdHeap : d \in cmdHeap' \/ (s = "idle" /\ InBlockingCall(t) /\ d = cur[t])
  PROVE  BlockingOwned'
<1>1. pc \in [Task -> PC]
  BY DEF IInv, TypeOK
<1>2. \A u \in Task : u # t => (InBlockingCall(u)' <=> InBlockingCall(u))
  BY <1>1 DEF InBlockingCall
<1>3. InBlockingCall(t)' <=> InBlockingCall(t) /\ s # "idle"
  BY <1>1 DEF InBlockingCall
<1>4. \A u \in Task : InBlockingCall(u)' => InBlockingCall(u) /\ (s = "idle" => u # t)
  BY <1>2, <1>3
<1>5. \A u \in Task : InBlockingCall(u)' => cur'[u] \in cmdHeap' /\ "NONBLOCK" \notin flags'[cur'[u]]
  BY <1>4 DEF BlockingOwned
<1>6. \A u, v \in Task : InBlockingCall(u)' /\ InBlockingCall(v)' /\ cur'[u] = cur'[v] => u = v
  BY <1>4 DEF BlockingOwned
<1> QED
  BY <1>5, <1>6 DEF BlockingOwned

(* Each action keeps BlockingOwned. *)
LEMMA NextOwned == IInv /\ CfmOrder /\ BlockingOwned /\ [Next]_vars => BlockingOwned'
<1> SUFFICES ASSUME IInv, CfmOrder, BlockingOwned, [Next]_vars PROVE BlockingOwned'
  OBVIOUS
<1>1. ASSUME NEW t \in Task, bl_send_msg(t) PROVE BlockingOwned'
  <2>1. CASE \E r \in Request, c \in Cmd : cmd_mgr_queue(t, r, c)
    BY <2>1, OwnedQueueStep
  <2>2. CASE \E r \in Request, c \in Cmd : cmd_mgr_queue_full(t, r, c)
    BY <2>2, OwnedKept DEF cmd_mgr_queue_full, listVars, taskVars
  <2>3. CASE bl_send_msg_nomem(t)
    BY <2>3, OwnedKept DEF bl_send_msg_nomem, vars
  <2> QED
    BY <1>1, <2>1, <2>2, <2>3 DEF bl_send_msg
<1>2. ASSUME NEW t \in Task, Caller(t) PROVE BlockingOwned'
  <2>1. pc \in [Task -> PC] /\ nonblock \in [Task -> BOOLEAN]
    BY DEF IInv, TypeOK
  <2>2. UNCHANGED <<flags, cur, nonblock>> /\ pc[t] # "idle"
    BY <1>2 DEF Caller, push, free_a2e_msg, test_nonblock, wake, no_wait, listVars
  <2>3. \E s \in PC :
          /\ pc' = [pc EXCEPT ![t] = s]
          /\ \A d \in cmdHeap : d \in cmdHeap' \/ (s = "idle" /\ InBlockingCall(t) /\ d = cur[t])
    <3>1. CASE push(t)
      BY <3>1 DEF push, heapVars, PC
    <3>2. CASE free_a2e_msg(t)
      BY <3>2 DEF free_a2e_msg, PC
    <3>3. CASE test_nonblock(t)
      BY <3>3 DEF test_nonblock, heapVars, PC
    <3>4. CASE wake(t)
      BY <3>4 DEF wake, PC, InBlockingCall
    <3>5. CASE no_wait(t)
      BY <3>5 DEF no_wait, heapVars, PC
    <3> QED
      BY <1>2, <3>1, <3>2, <3>3, <3>4, <3>5 DEF Caller
  <2> QED
    BY <2>2, <2>3, OwnedCallerStep
<1>3. CASE fw_take \/ ipc_host_msgack_handler \/ UNCHANGED vars
  <2>1. UNCHANGED <<pc, cur, nonblock, flags, cmdHeap>>
    BY <1>3 DEF fw_take, ipc_host_msgack_handler, vars, listVars, heapVars, taskVars
  <2> QED
    BY <2>1, OwnedKept
<1>4. ASSUME NEW k \in DOMAIN owed, cmd_mgr_msgind(k) PROVE BlockingOwned'
  <2>1. PICK gone \in SUBSET {owed[k].cmd} : MsgindTo(k, owed[k].cmd, gone)
    BY <1>4, MsgindEffect
  <2> QED
    BY <2>1, OwnedKept DEF MsgindTo
<1>5. CASE cmd_mgr_llind
  <2>1. PICK p \in DOMAIN cmds, gone \in SUBSET {acking} : LlindTo(p, gone)
    BY <1>5, LlindEffect
  <2> QED
    BY <2>1, OwnedKept DEF LlindTo
<1> QED
  BY <1>1, <1>2, <1>3, <1>4, <1>5 DEF Next, Firmware, BottomHalf

(* A blocking call owns its command: the command stays allocated until the *)
(* call returns, and no two calls share one.                               *)
THEOREM CommandsOwned == Spec => []BlockingOwned
<1>1. Init => BlockingOwned
  BY DEF Init, BlockingOwned, InBlockingCall
<1> QED
  BY <1>1, NextOwned, ConfirmationsInOrder, Invariance, PTL DEF Spec

(* A task in a blocking call uses its command through a live pointer,      *)
(* whatever the other callers and the firmware do.                         *)
THEOREM BlockingCallerSafe == Spec => []BlockingCallerOwnsCmd
<1>1. BlockingOwned => BlockingCallerOwnsCmd
  BY DEF BlockingOwned, BlockingCallerOwnsCmd, InBlockingCall
<1> QED
  BY <1>1, CommandsOwned, PTL

-----------------------------------------------------------------------------
(* The heap, when all requests are blocking and the tasks no more than the *)
(* list has room for.                                                      *)

BlockingOnly ==
  /\ \A r \in Request : r.nonblock = FALSE
  /\ IsFiniteSet(Task) /\ Cardinality(Task) <= MaxQueued

(* A command belongs to a task inside bl_send_msg; a message waits in the  *)
(* list, or for the task that pushes and frees it.                         *)
HeapOwned ==
  /\ \A c \in Cmd : "NONBLOCK" \notin flags[c]
  /\ \A t \in Task : pc[t] # "nowait" /\ nonblock[t] = FALSE
  /\ \A c \in cmdHeap : \E t \in Task : pc[t] # "idle" /\ cur[t] = c
  /\ \A c \in msgHeap : \/ \E i \in DOMAIN cmds : cmds[i] = c /\ WaitPush(c)
                        \/ \E t \in Task : pc[t] \in {"push", "free"} /\ cur[t] = c

(* Each listed command has a task of its own, and the caller is none of    *)
(* them: the list has room.                                                *)
LEMMA NeverFull ==
  ASSUME BlockingOnly, IInv, HeapOwned, NEW t \in Task, pc[t] = "idle"
  PROVE  ~QueueFull
<1>1. /\ cmds \in Seq(Cmd) /\ Len(cmds) \in Nat /\ DOMAIN cmds = 1..Len(cmds)
      /\ queue_sz = Len(cmds)
  BY DEF IInv, TypeOK
<1>2. \A i, j \in DOMAIN cmds : cmds[i] = cmds[j] => i = j
  BY DEF IInv, ListOrder
<1>3. \A i \in DOMAIN cmds : \E u \in Task : u # t /\ cur[u] = cmds[i]
  BY DEF IInv, ListIsLive, HeapOwned
<1> DEFINE f == [i \in 1..Len(cmds) |-> CHOOSE u \in Task : u # t /\ cur[u] = cmds[i]]
<1>4. \A i \in 1..Len(cmds) : f[i] \in Task \ {t} /\ cur[f[i]] = cmds[i]
  BY <1>1, <1>3
<1>5. f \in [1..Len(cmds) -> Task \ {t}]
  BY <1>4
<1>6. \A i, j \in 1..Len(cmds) : f[i] = f[j] => i = j
  BY <1>1, <1>2, <1>4
<1> HIDE DEF f
<1>7. f \in Injection(1..Len(cmds), Task \ {t})
  BY <1>5, <1>6 DEF Injection, IsInjective
<1>8. /\ IsFiniteSet(Task \ {t}) /\ Cardinality(Task \ {t}) = Cardinality(Task) - 1
      /\ Cardinality(Task) \in Nat
  BY FS_RemoveElement, FS_CardinalityType DEF BlockingOnly
<1>9. Cardinality(1..Len(cmds)) <= Cardinality(Task \ {t})
  BY <1>7, <1>8, FS_Injection, Zenon
<1>10. Cardinality(1..Len(cmds)) = Len(cmds)
  <2>1. PICK n \in Nat : n = Len(cmds)
    BY <1>1
  <2>2. Cardinality(1..n) = IF 1 > n THEN 0 ELSE n - 1 + 1
    BY FS_Interval
  <2> QED
    BY <2>1, <2>2
<1>11. Cardinality(Task) <= MaxQueued /\ MaxQueued \in Nat
  BY ConstantsAssumption DEF BlockingOnly
<1>12. Len(cmds) <= Cardinality(Task) - 1
  BY <1>8, <1>9, <1>10
<1>13. Len(cmds) # MaxQueued
  <2>1. PICK n \in Nat, m \in Nat, q \in Nat :
          n = Len(cmds) /\ m = Cardinality(Task) /\ q = MaxQueued
    BY <1>1, <1>8, <1>11
  <2>2. n <= m - 1 /\ m <= q
    BY <2>1, <1>11, <1>12
  <2>3. n # q
    BY <2>2
  <2> QED
    BY <2>1, <2>3
<1> QED
  BY <1>1, <1>13 DEF QueueFull

(* The new command and its message belong to the caller. *)
LEMMA HeapQueueStep ==
  ASSUME BlockingOnly, IInv, HeapOwned, NEW t \in Task, NEW r \in Request, NEW c \in Cmd,
         cmd_mgr_queue(t, r, c)
  PROVE  HeapOwned'
<1>1. /\ pc \in [Task -> PC] /\ cur \in [Task -> Cmd \cup {NULL}]
      /\ nonblock \in [Task -> BOOLEAN] /\ flags \in [Cmd -> SUBSET Flag]
      /\ cmds \in Seq(Cmd) /\ Len(cmds) \in Nat /\ DOMAIN cmds = 1..Len(cmds)
      /\ cmdHeap \subseteq Cmd
  BY DEF IInv, TypeOK
<1>2. /\ c \notin cmdHeap /\ cmdHeap' = cmdHeap \cup {c} /\ msgHeap' = msgHeap \cup {c}
      /\ cmds' = Append(cmds, c) /\ flags' = [flags EXCEPT ![c] = NewFlags(r)]
      /\ pc' = [pc EXCEPT ![t] = AfterQueue] /\ pc[t] = "idle"
      /\ cur' = [cur EXCEPT ![t] = c] /\ nonblock' = [nonblock EXCEPT ![t] = r.nonblock]
  BY DEF cmd_mgr_queue, FreeCell
<1>3. r.nonblock = FALSE
  BY DEF BlockingOnly
<1>4. \A d \in Cmd : "NONBLOCK" \notin flags'[d]
  BY <1>1, <1>2, <1>3 DEF HeapOwned, NewFlags
<1>5. /\ pc'[t] = AfterQueue /\ AfterQueue \in {"push", "test"} /\ cur'[t] = c
      /\ nonblock'[t] = FALSE
      /\ \A u \in Task : u # t => pc'[u] = pc[u] /\ cur'[u] = cur[u] /\ nonblock'[u] = nonblock[u]
  BY <1>1, <1>2, <1>3 DEF AfterQueue
<1>6. \A u \in Task : pc'[u] # "nowait" /\ nonblock'[u] = FALSE
  BY <1>5 DEF HeapOwned
<1>7. \A d \in cmdHeap' : \E u \in Task : pc'[u] # "idle" /\ cur'[u] = d
  <2> SUFFICES ASSUME NEW d \in cmdHeap' PROVE \E u \in Task : pc'[u] # "idle" /\ cur'[u] = d
    OBVIOUS
  <2>1. CASE d = c
    BY <2>1, <1>5
  <2>2. CASE d \in cmdHeap
    <3>1. PICK u \in Task : pc[u] # "idle" /\ cur[u] = d
      BY <2>2 DEF HeapOwned
    <3>2. u # t
      BY <3>1, <1>2
    <3> QED
      BY <3>1, <3>2, <1>5
  <2> QED
    BY <2>1, <2>2, <1>2
<1>8. /\ DOMAIN cmds' = DOMAIN cmds \cup {Len(cmds) + 1} /\ cmds'[Len(cmds) + 1] = c
      /\ \A i \in DOMAIN cmds : cmds'[i] = cmds[i]
  BY <1>1, <1>2
<1>9. \A d \in msgHeap' : \/ \E i \in DOMAIN cmds' : cmds'[i] = d /\ "WAIT_PUSH" \in flags'[d]
                          \/ \E u \in Task : pc'[u] \in {"push", "free"} /\ cur'[u] = d
  <2> SUFFICES ASSUME NEW d \in msgHeap'
               PROVE  \/ \E i \in DOMAIN cmds' : cmds'[i] = d /\ "WAIT_PUSH" \in flags'[d]
                      \/ \E u \in Task : pc'[u] \in {"push", "free"} /\ cur'[u] = d
    OBVIOUS
  <2>1. CASE d = c /\ MustDefer
    <3>1. "WAIT_PUSH" \in flags'[c]
      BY <2>1, <1>1, <1>2 DEF NewFlags
    <3> QED
      BY <2>1, <3>1, <1>8
  <2>2. CASE d = c /\ ~MustDefer
    <3>1. pc'[t] = "push" /\ cur'[t] = d
      BY <2>2, <1>5 DEF AfterQueue
    <3> QED
      BY <3>1
  <2>3. CASE d # c /\ \E i \in DOMAIN cmds : cmds[i] = d /\ WaitPush(d)
    <3>1. PICK i \in DOMAIN cmds : cmds[i] = d /\ WaitPush(d)
      BY <2>3
    <3>2. d \in Cmd
      BY <3>1, <1>1
    <3>3. "WAIT_PUSH" \in flags'[d]
      BY <2>3, <3>1, <3>2, <1>1, <1>2 DEF WaitPush
    <3> QED
      BY <3>1, <3>3, <1>8
  <2>4. CASE d # c /\ \E u \in Task : pc[u] \in {"push", "free"} /\ cur[u] = d
    <3>1. PICK u \in Task : pc[u] \in {"push", "free"} /\ cur[u] = d
      BY <2>4
    <3>2. u # t
      BY <3>1, <1>2
    <3> QED
      BY <3>1, <3>2, <1>5
  <2> QED
    BY <2>1, <2>2, <2>3, <2>4, <1>2 DEF HeapOwned
<1> QED
  BY <1>4, <1>6, <1>7, <1>9 DEF HeapOwned, WaitPush

(* A caller goes on: from "push" to "free" it keeps the message, after     *)
(* that it has freed it, and it returns only when it has freed its command. *)
LEMMA HeapCallerStep ==
  ASSUME IInv, HeapOwned, NEW t \in Task,
         UNCHANGED <<cmds, flags, cur, nonblock>>,
         NEW s \in PC, pc' = [pc EXCEPT ![t] = s], s # "nowait",
         cmdHeap' = IF s = "idle" THEN cmdHeap \ {cur[t]} ELSE cmdHeap,
         msgHeap' \subseteq msgHeap,
         pc[t] \in {"push", "free"} => s = "free" \/ cur[t] \notin msgHeap'
  PROVE  HeapOwned'
<1>1. pc \in [Task -> PC]
  BY DEF IInv, TypeOK
<1>2. pc'[t] = s /\ \A u \in Task : u # t => pc'[u] = pc[u]
  BY <1>1
<1>3. \A c \in Cmd : "NONBLOCK" \notin flags'[c]
  BY DEF HeapOwned
<1>4. \A u \in Task : pc'[u] # "nowait" /\ nonblock'[u] = FALSE
  BY <1>2 DEF HeapOwned
<1>5. \A c \in cmdHeap' : \E u \in Task : pc'[u] # "idle" /\ cur'[u] = c
  <2> SUFFICES ASSUME NEW c \in cmdHeap' PROVE \E u \in Task : pc'[u] # "idle" /\ cur'[u] = c
    OBVIOUS
  <2>1. c \in cmdHeap /\ (s = "idle" => c # cur[t])
    OBVIOUS
  <2>2. PICK u \in Task : pc[u] # "idle" /\ cur[u] = c
    BY <2>1 DEF HeapOwned
  <2> QED
    BY <2>1, <2>2, <1>2
<1>6. ASSUME NEW c \in msgHeap'
      PROVE  \/ \E i \in DOMAIN cmds : cmds[i] = c /\ WaitPush(c)
             \/ \E u \in Task : pc'[u] \in {"push", "free"} /\ cur[u] = c
  <2>1. CASE \E u \in Task : pc[u] \in {"push", "free"} /\ cur[u] = c
    <3>1. PICK u \in Task : pc[u] \in {"push", "free"} /\ cur[u] = c
      BY <2>1
    <3>2. u = t => s = "free"
      BY <3>1, <1>6
    <3> QED
      BY <3>1, <3>2, <1>2
  <2> QED
    BY <2>1, <1>6 DEF HeapOwned
<1>7. \A c \in msgHeap' : \/ \E i \in DOMAIN cmds' : cmds'[i] = c /\ WaitPush(c)'
                          \/ \E u \in Task : pc'[u] \in {"push", "free"} /\ cur'[u] = c
  BY <1>6 DEF WaitPush
<1> QED
  BY <1>3, <1>4, <1>5, <1>7 DEF HeapOwned

(* The list changes: what leaves it or is no longer deferred has no        *)
(* message left.                                                           *)
LEMMA HeapListStep ==
  ASSUME IInv, HeapOwned, UNCHANGED <<pc, cur, nonblock>>,
         NEW gone, NEW f, SubListBy(f, gone),
         \A d \in Cmd : "NONBLOCK" \in flags'[d] <=> "NONBLOCK" \in flags[d],
         cmdHeap' \subseteq cmdHeap, msgHeap' \subseteq msgHeap,
         \A i \in DOMAIN cmds : WaitPush(cmds[i]) /\ cmds[i] \in msgHeap' =>
             cmds[i] \notin gone /\ "WAIT_PUSH" \in flags'[cmds[i]]
  PROVE  HeapOwned'
<1>1. \A c \in Cmd : "NONBLOCK" \notin flags'[c]
  BY DEF HeapOwned
<1>2. \A t \in Task : pc'[t] # "nowait" /\ nonblock'[t] = FALSE
  BY DEF HeapOwned
<1>3. \A c \in cmdHeap' : \E t \in Task : pc'[t] # "idle" /\ cur'[t] = c
  BY DEF HeapOwned
<1>4. ASSUME NEW c \in msgHeap', NEW i \in DOMAIN cmds, cmds[i] = c, WaitPush(c)
      PROVE  \E j \in DOMAIN cmds' : cmds'[j] = c /\ "WAIT_PUSH" \in flags'[c]
  <2>1. c \notin gone /\ "WAIT_PUSH" \in flags'[c]
    BY <1>4
  <2>2. PICK j \in DOMAIN cmds' : f[j] = i
    BY <1>4, <2>1 DEF SubListBy
  <2> QED
    BY <1>4, <2>1, <2>2 DEF SubListBy
<1>5. \A c \in msgHeap' : \/ \E j \in DOMAIN cmds' : cmds'[j] = c /\ "WAIT_PUSH" \in flags'[c]
                          \/ \E t \in Task : pc'[t] \in {"push", "free"} /\ cur'[t] = c
  BY <1>4 DEF HeapOwned
<1> QED
  BY <1>1, <1>2, <1>3, <1>5 DEF HeapOwned, WaitPush

(* Each action keeps HeapOwned. *)
LEMMA NextHeap ==
  ASSUME BlockingOnly
  PROVE  IInv /\ CfmOrder /\ BlockingOwned /\ HeapOwned /\ [Next]_vars => HeapOwned'
<1> SUFFICES ASSUME IInv, CfmOrder, BlockingOwned, HeapOwned, [Next]_vars PROVE HeapOwned'
  OBVIOUS
<1>1. ASSUME NEW t \in Task, bl_send_msg(t) PROVE HeapOwned'
  <2>1. CASE \E r \in Request, c \in Cmd : cmd_mgr_queue(t, r, c)
    BY <2>1, HeapQueueStep
  <2>2. CASE \E r \in Request, c \in Cmd : cmd_mgr_queue_full(t, r, c)
    BY <2>2, NeverFull DEF cmd_mgr_queue_full
  <2>3. CASE bl_send_msg_nomem(t)
    BY <2>3 DEF bl_send_msg_nomem, vars, HeapOwned, WaitPush
  <2> QED
    BY <1>1, <2>1, <2>2, <2>3 DEF bl_send_msg
<1>2. ASSUME NEW t \in Task, Caller(t) PROVE HeapOwned'
  <2>1. UNCHANGED <<cmds, flags, cur, nonblock>>
    BY <1>2 DEF Caller, push, free_a2e_msg, test_nonblock, wake, no_wait, listVars
  <2>2. nonblock[t] = FALSE
    BY DEF HeapOwned
  <2>3. CASE push(t)
    BY <2>1, <2>3, HeapCallerStep DEF push, heapVars, PC
  <2>4. CASE free_a2e_msg(t)
    BY <2>1, <2>4, HeapCallerStep DEF free_a2e_msg, PC
  <2>5. CASE test_nonblock(t)
    <3>1. pc[t] = "test"
      BY <2>5 DEF test_nonblock
    <3>2. cur[t] \in Cmd
      BY <2>2, <3>1 DEF BlockingOwned, InBlockingCall, IInv, TypeOK
    <3>3. pc' = [pc EXCEPT ![t] = "wait"] /\ UNCHANGED <<cmdHeap, msgHeap>>
      BY <2>5, <3>2 DEF test_nonblock, heapVars, HeapOwned
    <3> QED
      BY <2>1, <3>1, <3>3, HeapCallerStep DEF PC
  <2>6. CASE wake(t)
    BY <2>1, <2>2, <2>6, HeapCallerStep DEF wake, PC
  <2>7. CASE no_wait(t)
    BY <2>7 DEF no_wait, HeapOwned
  <2> QED
    BY <1>2, <2>3, <2>4, <2>5, <2>6, <2>7 DEF Caller
<1>3. CASE fw_take \/ ipc_host_msgack_handler \/ UNCHANGED vars
  BY <1>3 DEF fw_take, ipc_host_msgack_handler, vars, listVars, heapVars, taskVars,
              HeapOwned, WaitPush
<1>4. ASSUME NEW k \in DOMAIN owed, cmd_mgr_msgind(k) PROVE HeapOwned'
  <2>1. PICK gone \in SUBSET {owed[k].cmd} : MsgindTo(k, owed[k].cmd, gone)
    BY <1>4, MsgindEffect
  <2>2. PICK f : SubListBy(f, gone)
    BY <2>1 DEF MsgindTo
  <2>3. \A i \in DOMAIN cmds : WaitPush(cmds[i]) =>
          cmds[i] \notin gone /\ "WAIT_PUSH" \in flags'[cmds[i]]
    <3> SUFFICES ASSUME NEW i \in DOMAIN cmds, WaitPush(cmds[i])
                 PROVE  cmds[i] \notin gone /\ "WAIT_PUSH" \in flags'[cmds[i]]
      OBVIOUS
    <3>1. "WAIT_ACK" \in flags[cmds[i]] /\ cmds[i] \in Cmd
      BY DEF IInv, ListOrder, TypeOK
    <3> QED
      BY <2>1, <3>1 DEF MsgindTo, WaitPush
  <2>4. /\ UNCHANGED <<pc, cur, nonblock>> /\ cmdHeap' \subseteq cmdHeap /\ msgHeap' \subseteq msgHeap
        /\ \A d \in Cmd : "NONBLOCK" \in flags'[d] <=> "NONBLOCK" \in flags[d]
    BY <2>1 DEF MsgindTo
  <2> QED
    BY <2>2, <2>3, <2>4, HeapListStep
<1>5. CASE cmd_mgr_llind
  <2>1. PICK p \in DOMAIN cmds, gone \in SUBSET {acking} : LlindTo(p, gone)
    BY <1>5, LlindEffect
  <2>2. PICK f : SubListBy(f, gone)
    BY <2>1 DEF LlindTo
  <2>3. cmds \in Seq(Cmd) /\ Len(cmds) \in Nat /\ DOMAIN cmds = 1..Len(cmds)
    BY DEF IInv, TypeOK
  <2>4. \A i \in DOMAIN cmds : WaitPush(cmds[i]) /\ cmds[i] \in msgHeap' =>
          cmds[i] \notin gone /\ "WAIT_PUSH" \in flags'[cmds[i]]
    <3> SUFFICES ASSUME NEW i \in DOMAIN cmds, WaitPush(cmds[i]), cmds[i] \in msgHeap'
                 PROVE  cmds[i] \notin gone /\ "WAIT_PUSH" \in flags'[cmds[i]]
      OBVIOUS
    <3>1. i > p /\ ~WaitPush(cmds[p]) /\ i # p + 1
      BY <2>1, <2>3 DEF LlindTo
    <3> QED
      BY <2>1, <2>3, <3>1 DEF LlindTo
  <2>5. /\ UNCHANGED <<pc, cur, nonblock>> /\ cmdHeap' \subseteq cmdHeap /\ msgHeap' \subseteq msgHeap
        /\ \A d \in Cmd : "NONBLOCK" \in flags'[d] <=> "NONBLOCK" \in flags[d]
    BY <2>1 DEF LlindTo
  <2> QED
    BY <2>2, <2>4, <2>5, HeapListStep
<1> QED
  BY <1>1, <1>2, <1>3, <1>4, <1>5 DEF Next, Firmware, BottomHalf

(* Nothing leaks as long as requests are blocking and the tasks fit in the *)
(* list: when all calls have returned the heap is empty.                   *)
THEOREM NothingLeaks ==
  ASSUME BlockingOnly
  PROVE  Spec => []QuietHeapIsEmpty
<1>1. Init => HeapOwned
  BY DEF Init, HeapOwned
<1>2. IInv /\ CfmOrder /\ BlockingOwned /\ HeapOwned /\ [Next]_vars => HeapOwned'
  BY NextHeap
<1>3. HeapOwned => QuietHeapIsEmpty
  BY DEF HeapOwned, QuietHeapIsEmpty
<1> QED
  BY <1>1, <1>2, <1>3, CommandsOwned, ConfirmationsInOrder, Invariance, PTL DEF Spec

==============================================================================
