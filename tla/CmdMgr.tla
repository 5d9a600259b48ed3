------------------------------- MODULE CmdMgr -------------------------------
(***************************************************************************)
(* The command manager of the bl60x Wi-Fi driver (bl_cmds.c) together with *)
(* the one-slot mailbox it drives (ipc_host.c) and the only client it has, *)
(* bl_send_msg (bl_msg_tx.c).                                              *)
(*                                                                         *)
(* A task that wants something from the firmware allocates a command and   *)
(* its message, appends the command to a list under the manager's mutex    *)
(* and, outside the mutex, writes the message to the mailbox - or leaves   *)
(* that to the acknowledgement handler when an earlier command still       *)
(* occupies the mailbox.  The firmware acknowledges each message and later *)
(* confirms it; a blocking caller sleeps until both have arrived.          *)
(*                                                                         *)
(* A section that holds the mutex is one action.  What the code does       *)
(* outside the mutex (push, free the message, wake up, the first half of   *)
(* the acknowledgement handler) is a step of its own.                      *)
(***************************************************************************)
EXTENDS Naturals, Sequences, SequencesExt

CONSTANTS
  Task,       \* tasks that call bl_send_msg
  Cmd,        \* heap cells: each holds a struct bl_cmd and its a2e_msg
  CfmId,      \* identifiers of confirmation messages (cmd->reqid)
  NoCfm,      \* the reqid of a request sent with reqcfm = 0
  Request,    \* the requests the tasks send: [nonblock, reqid]
  MaxQueued,  \* RWNX_CMD_MAX_QUEUED
  NULL        \* a null pointer

ASSUME ConstantsAssumption ==
  /\ MaxQueued \in Nat \ {0}
  /\ NoCfm \notin CfmId
  /\ NULL \notin Cmd
  /\ Request \subseteq [nonblock : BOOLEAN, reqid : CfmId \cup {NoCfm}]

VARIABLES
  cmds,       \* cmd_mgr->cmds, head first
  queue_sz,   \* cmd_mgr->queue_sz
  flags,      \* cmd->flags
  reqid,      \* cmd->reqid
  complete,   \* bit 0 of the event group cmd->complete
  cmdHeap,    \* cells whose struct bl_cmd is allocated
  msgHeap,    \* cells whose a2e_msg is allocated
  pc,         \* where each task is inside bl_send_msg
  cur,        \* the local variable cmd of each task
  nonblock,   \* the local variable nonblock of each task
  hostid,     \* ipc_env->msga2e_hostid
  bell,       \* IPC_IRQ_A2E_MSG raised towards the firmware
  ackirq,     \* IPC_IRQ_E2A_MSG_ACK raised towards the host
  acking,     \* hostid held by ipc_host_msgack_handler until llind is done
  owed        \* confirmations the firmware has still to send

taskVars == <<pc, cur, nonblock>>
listVars == <<cmds, queue_sz, flags, reqid>>
heapVars == <<cmdHeap, msgHeap>>
ipcVars  == <<hostid, bell, ackirq, acking>>
vars == <<cmds, queue_sz, flags, reqid, complete, cmdHeap, msgHeap,
          pc, cur, nonblock, hostid, bell, ackirq, acking, owed>>

Flag == {"NONBLOCK", "REQ_CFM", "WAIT_PUSH", "WAIT_ACK", "WAIT_CFM", "DONE"}
PC == {"idle", "push", "free", "test", "wait", "nowait"}
Confirmation == [cmd : Cmd, id : CfmId]

-----------------------------------------------------------------------------
(* Mutants: completion that forgets the ACK, or the CFM. *)
WaitComplete_ForgetsAck(f) == f \cap {"WAIT_CFM"} = {}
WaitComplete_ForgetsCfm(f) == f \cap {"WAIT_ACK"} = {}

(* RWNX_CMD_WAIT_COMPLETE: neither an ACK nor a CFM is outstanding. *)
WaitComplete(f) == f \cap {"WAIT_ACK", "WAIT_CFM"} = {}

WaitPush(c) == "WAIT_PUSH" \in flags[c]

(* Write a command's message to the mailbox and ring the firmware. *)
ipc_host_msg_push(c) ==
  /\ hostid' = c
  /\ bell' = TRUE

(* Mutants: the command is freed although its caller waits for it; the     *)
(* queue counter is not decremented.                                       *)
cmd_complete_FreesBlocking(c) ==
  /\ queue_sz' = queue_sz - 1
  /\ \E i \in DOMAIN cmds : cmds[i] = c /\ cmds' = RemoveAt(cmds, i)
  /\ cmdHeap' = cmdHeap \ {c}
  /\ UNCHANGED complete
cmd_complete_Uncounted(c) ==
  /\ \E i \in DOMAIN cmds : cmds[i] = c /\ cmds' = RemoveAt(cmds, i)
  /\ complete' = [complete EXCEPT ![c] = TRUE]
  /\ UNCHANGED <<queue_sz, cmdHeap>>

(* Unlink a finished command; free it or wake the caller that waits. *)
cmd_complete(c) ==
  /\ queue_sz' = queue_sz - 1
  /\ \E i \in DOMAIN cmds : cmds[i] = c /\ cmds' = RemoveAt(cmds, i)
  /\ IF "NONBLOCK" \in flags[c]
       THEN cmdHeap' = cmdHeap \ {c} /\ UNCHANGED complete
       ELSE complete' = [complete EXCEPT ![c] = TRUE] /\ UNCHANGED cmdHeap

-----------------------------------------------------------------------------
(* The caller: bl_send_msg and cmd_mgr_queue. *)

QueueFull == cmds # <<>> /\ queue_sz = MaxQueued

(* Mutant: the first command decides instead of the last. *)
MustDefer_LooksAtHead ==
  cmds # <<>> /\ flags[cmds[1]] \cap {"WAIT_ACK", "WAIT_PUSH"} # {}

(* The last command queued has not left the mailbox yet. *)
MustDefer ==
  cmds # <<>> /\ flags[cmds[Len(cmds)]] \cap {"WAIT_ACK", "WAIT_PUSH"} # {}

NewFlags(r) ==
  (IF r.nonblock THEN {"NONBLOCK"} ELSE {})
    \cup (IF r.reqid # NoCfm THEN {"REQ_CFM", "WAIT_CFM"} ELSE {})
    \cup (IF MustDefer THEN {"WAIT_PUSH"} ELSE {})
    \cup {"WAIT_ACK"}

FreeCell == Cmd \ (cmdHeap \cup msgHeap)

(* Where cmd_mgr_queue goes after the locked section. *)
AfterQueue == IF MustDefer THEN "test" ELSE "push"

(* The locked section of cmd_mgr_queue: the command joins the list. *)
cmd_mgr_queue(t, r, c) ==
  /\ pc[t] = "idle"
  /\ c \in FreeCell
  /\ ~QueueFull
  /\ cmds' = Append(cmds, c)
  /\ queue_sz' = queue_sz + 1
  /\ flags' = [flags EXCEPT ![c] = NewFlags(r)]
  /\ reqid' = [reqid EXCEPT ![c] = r.reqid]
  /\ complete' = [complete EXCEPT ![c] = FALSE]
  /\ cmdHeap' = cmdHeap \cup {c}
  /\ msgHeap' = msgHeap \cup {c}
  /\ cur' = [cur EXCEPT ![t] = c]
  /\ nonblock' = [nonblock EXCEPT ![t] = r.nonblock]
  /\ pc' = [pc EXCEPT ![t] = AfterQueue]
  /\ UNCHANGED <<ipcVars, owed>>

(* The list is full: -ENOMEM.  bl_send_msg frees a blocking command, and   *)
(* neither the message nor a non-blocking command is freed by anyone.      *)
cmd_mgr_queue_full(t, r, c) ==
  /\ pc[t] = "idle"
  /\ c \in FreeCell
  /\ QueueFull
  /\ msgHeap' = msgHeap \cup {c}
  /\ cmdHeap' = IF r.nonblock THEN cmdHeap \cup {c} ELSE cmdHeap
  /\ UNCHANGED <<listVars, taskVars, ipcVars, complete, owed>>

(* No memory for the command: bl_send_msg frees the message, -ENOMEM. *)
bl_send_msg_nomem(t) ==
  /\ pc[t] = "idle"
  /\ FreeCell = {}
  /\ UNCHANGED vars

(* Push outside the mutex. *)
push(t) ==
  /\ pc[t] = "push"
  /\ ipc_host_msg_push(cur[t])
  /\ pc' = [pc EXCEPT ![t] = "free"]
  /\ UNCHANGED <<listVars, heapVars, complete, cur, nonblock, ackirq, acking, owed>>

(* bflb_os_free(cmd->a2e_msg), through the pointer cmd. *)
free_a2e_msg(t) ==
  /\ pc[t] = "free"
  /\ msgHeap' = msgHeap \ {cur[t]}
  /\ pc' = [pc EXCEPT ![t] = "test"]
  /\ UNCHANGED <<listVars, ipcVars, complete, cmdHeap, cur, nonblock, owed>>

(* cmd->flags chooses to wait or not: whatever the cell holds by now. *)
test_nonblock(t) ==
  /\ pc[t] = "test"
  /\ pc' = [pc EXCEPT ![t] = IF "NONBLOCK" \in flags[cur[t]] THEN "nowait" ELSE "wait"]
  /\ UNCHANGED <<listVars, heapVars, ipcVars, complete, cur, nonblock, owed>>

(* Mutant: bl_send_msg forgets to free a blocking command. *)
wake_Leaks(t) ==
  /\ pc[t] = "wait"
  /\ complete[cur[t]]
  /\ complete' = [complete EXCEPT ![cur[t]] = FALSE]
  /\ pc' = [pc EXCEPT ![t] = "idle"]
  /\ UNCHANGED <<listVars, heapVars, ipcVars, cur, nonblock, owed>>

(* The event group fires: delete it, return, free a blocking command. *)
wake(t) ==
  /\ pc[t] = "wait"
  /\ complete[cur[t]]
  /\ complete' = [complete EXCEPT ![cur[t]] = FALSE]
  /\ cmdHeap' = IF nonblock[t] THEN cmdHeap ELSE cmdHeap \ {cur[t]}
  /\ pc' = [pc EXCEPT ![t] = "idle"]
  /\ UNCHANGED <<listVars, ipcVars, msgHeap, cur, nonblock, owed>>

(* A non-blocking caller writes and reads cmd->result and returns. *)
no_wait(t) ==
  /\ pc[t] = "nowait"
  /\ pc' = [pc EXCEPT ![t] = "idle"]
  /\ UNCHANGED <<listVars, heapVars, ipcVars, complete, cur, nonblock, owed>>

-----------------------------------------------------------------------------
(* The firmware, as the driver sees it.  It copies the message out of the  *)
(* mailbox and raises the acknowledgement; it sends the confirmations it   *)
(* owes later, those with the same identifier in order.                    *)
fw_take ==
  /\ bell
  /\ bell' = FALSE
  /\ ackirq' = TRUE
  /\ owed' = IF reqid[hostid] = NoCfm THEN owed
             ELSE Append(owed, [cmd |-> hostid, id |-> reqid[hostid]])
  /\ UNCHANGED <<listVars, heapVars, taskVars, complete, hostid, acking>>

(* Confirmation k may be the next one sent. *)
Sendable(k) == \A j \in 1..(k - 1) : owed[j].id # owed[k].id

-----------------------------------------------------------------------------
(* Acknowledgements. *)

ipc_host_msgack_handler ==
  /\ ackirq /\ acking = NULL
  /\ ackirq' = FALSE
  /\ acking' = hostid
  /\ hostid' = NULL
  /\ UNCHANGED <<listVars, heapVars, taskVars, complete, bell, owed>>

(* The list walk of cmd_mgr_llind.  It finds the acknowledged command c    *)
(* unless a deferred one stands before it, and the first deferred command  *)
(* other than c.  Tokens are unique, so tkn equality is identity.          *)
AckFound(c) ==
  \E i \in DOMAIN cmds : /\ cmds[i] = c
                         /\ \A j \in 1..(i - 1) : ~WaitPush(cmds[j])

(* Mutants: no deferred command is looked for; the last one is taken. *)
FirstDeferred_None(c) == {}
FirstDeferred_Last(c) ==
  {cmds[i] : i \in {i \in DOMAIN cmds :
       /\ cmds[i] # c /\ WaitPush(cmds[i])
       /\ \A j \in DOMAIN cmds : j > i => ~WaitPush(cmds[j])}}

FirstDeferred(c) ==
  {cmds[i] : i \in {i \in DOMAIN cmds :
       /\ cmds[i] # c /\ WaitPush(cmds[i])
       /\ \A j \in 1..(i - 1) : cmds[j] # c => ~WaitPush(cmds[j])}}

cmd_mgr_llind ==
  /\ acking # NULL
  /\ LET next  == FirstDeferred(acking)
         found == AckFound(acking)
         left  == flags[acking] \ {"WAIT_ACK"}
     IN /\ flags' = [c \in Cmd |->
              CASE c = acking /\ found -> IF WaitComplete(left) THEN left \cup {"DONE"}
                                          ELSE left
                [] c \in next -> flags[c] \ {"WAIT_PUSH"}
                [] OTHER -> flags[c]]
        /\ IF found /\ WaitComplete(left) THEN cmd_complete(acking)
           ELSE UNCHANGED <<cmds, queue_sz, complete, cmdHeap>>
        /\ \/ next = {} /\ UNCHANGED <<hostid, bell>>
           \/ \E n \in next : ipc_host_msg_push(n)
        /\ msgHeap' = msgHeap \ next
  /\ acking' = NULL
  /\ UNCHANGED <<reqid, taskVars, ackirq, owed>>

-----------------------------------------------------------------------------
(* Confirmations: the first listed command that waits for this identifier. *)

CfmMatches(i, id) == reqid[cmds[i]] = id /\ "WAIT_CFM" \in flags[cmds[i]]

(* Mutant: the newest command that waits for the identifier. *)
IsCfmMatch_Newest(i, id) ==
  CfmMatches(i, id) /\ \A j \in DOMAIN cmds : j > i => ~CfmMatches(j, id)

IsCfmMatch(i, id) ==
  CfmMatches(i, id) /\ \A j \in 1..(i - 1) : ~CfmMatches(j, id)

cmd_mgr_msgind(k) ==
  /\ Sendable(k)
  /\ owed' = RemoveAt(owed, k)
  /\ LET match == {cmds[i] : i \in {i \in DOMAIN cmds : IsCfmMatch(i, owed[k].id)}}
         left(c) == flags[c] \ {"WAIT_CFM"}
         done  == {c \in match : WaitComplete(left(c))}
     IN /\ flags' = [c \in Cmd |-> CASE c \in done -> left(c) \cup {"DONE"}
                                     [] c \in match \ done -> left(c)
                                     [] OTHER -> flags[c]]
        /\ IF done # {} THEN \E c \in done : cmd_complete(c)
           ELSE UNCHANGED <<cmds, queue_sz, complete, cmdHeap>>
  /\ UNCHANGED <<reqid, msgHeap, taskVars, ipcVars>>

-----------------------------------------------------------------------------
(* bl_cmd_mgr_init and ipc_host_init. *)
Init ==
  /\ cmds = <<>>
  /\ queue_sz = 0
  /\ flags = [c \in Cmd |-> {}]
  /\ reqid = [c \in Cmd |-> NoCfm]
  /\ complete = [c \in Cmd |-> FALSE]
  /\ cmdHeap = {} /\ msgHeap = {}
  /\ pc = [t \in Task |-> "idle"]
  /\ cur = [t \in Task |-> NULL]
  /\ nonblock = [t \in Task |-> FALSE]
  /\ hostid = NULL /\ bell = FALSE /\ ackirq = FALSE /\ acking = NULL
  /\ owed = <<>>

bl_send_msg(t) ==
  \/ \E r \in Request, c \in Cmd : cmd_mgr_queue(t, r, c) \/ cmd_mgr_queue_full(t, r, c)
  \/ bl_send_msg_nomem(t)

Caller(t) == push(t) \/ free_a2e_msg(t) \/ test_nonblock(t) \/ wake(t) \/ no_wait(t)

Firmware == fw_take \/ \E k \in DOMAIN owed : cmd_mgr_msgind(k)
BottomHalf == ipc_host_msgack_handler \/ cmd_mgr_llind

Next == (\E t \in Task : bl_send_msg(t) \/ Caller(t)) \/ Firmware \/ BottomHalf

Spec == Init /\ [][Next]_vars

(* The scheduler runs every task that is ready, the firmware takes every   *)
(* message and in the end sends the oldest confirmation it owes, and the   *)
(* interrupt bottom half runs when raised.  Nothing obliges a task to call. *)
Fairness ==
  /\ \A t \in Task : WF_vars(Caller(t))
  /\ WF_vars(fw_take)
  /\ WF_vars(owed # <<>> /\ cmd_mgr_msgind(1))
  /\ WF_vars(BottomHalf)

FairSpec == Spec /\ Fairness

-----------------------------------------------------------------------------
(* Types; queue_sz counts the list and never exceeds max_queue_sz. *)
TypeOK ==
  /\ cmds \in Seq(Cmd)
  /\ queue_sz = Len(cmds) /\ queue_sz <= MaxQueued
  /\ flags \in [Cmd -> SUBSET Flag]
  /\ reqid \in [Cmd -> CfmId \cup {NoCfm}]
  /\ complete \in [Cmd -> BOOLEAN]
  /\ cmdHeap \subseteq Cmd /\ msgHeap \subseteq Cmd
  /\ pc \in [Task -> PC]
  /\ cur \in [Task -> Cmd \cup {NULL}]
  /\ nonblock \in [Task -> BOOLEAN]
  /\ hostid \in Cmd \cup {NULL} /\ acking \in Cmd \cup {NULL}
  /\ bell \in BOOLEAN /\ ackirq \in BOOLEAN
  /\ owed \in Seq(Confirmation)

-----------------------------------------------------------------------------
(* ASSERT_ERR(!env->msga2e_hostid) in ipc_host_msg_push never fires, and   *)
(* no two writers race for the mailbox: whoever is about to push outside   *)
(* the mutex, the message in the mailbox and the acknowledgement being     *)
(* handled (which pushes the next command) exclude one another.            *)
MailboxExclusive ==
  /\ \A t \in Task : pc[t] = "push" => /\ hostid = NULL /\ acking = NULL
                                       /\ \A u \in Task : pc[u] = "push" => u = t
  /\ acking # NULL => hostid = NULL

(* The message whose acknowledgement cmd_mgr_llind handles is found in the *)
(* list: the branch "acked cmd not found", which would leave its caller    *)
(* asleep for ever, is never taken.                                        *)
AckFinds == acking # NULL => AckFound(acking)

(* A deferred command is never orphaned: while one is in the list some     *)
(* earlier command is on its way through the mailbox, and its              *)
(* acknowledgement will push the deferred one.                             *)
DeferredHasPusher ==
  (\E i \in DOMAIN cmds : WaitPush(cmds[i])) =>
    hostid # NULL \/ acking # NULL \/ \E t \in Task : pc[t] = "push"

(* cmd_mgr_msgind matches by identifier only, yet the confirmation the     *)
(* firmware sends next reaches the very command it answers, also when      *)
(* several commands wait for the same identifier (denoise and power saving *)
(* both wait for MM_SET_PS_MODE_CFM).                                      *)
CfmAnswersItsCmd ==
  \A k \in DOMAIN owed : Sendable(k) =>
    \E i \in DOMAIN cmds : cmds[i] = owed[k].cmd /\ IsCfmMatch(i, owed[k].id)

(* The list, the mailbox and the acknowledgement handler never hold a      *)
(* pointer to a freed command, although the caller frees it as soon as it  *)
(* wakes up.                                                               *)
NoDanglingCmd == (ToSet(cmds) \cup ({hostid, acking} \ {NULL})) \subseteq cmdHeap

(* A caller is woken only when nothing can reach its command any more: it  *)
(* is off the list, acknowledged, and confirmed if it asked for that.      *)
WokenIsFinished ==
  \A c \in Cmd : complete[c] =>
    /\ c \notin ToSet(cmds) \cup {hostid, acking}
    /\ \A k \in DOMAIN owed : owed[k].cmd # c

(* A task inside bl_send_msg uses its command through a live pointer. *)
CallerOwnsCmd == \A t \in Task : pc[t] # "idle" => cur[t] \in cmdHeap

(* The same, for the tasks that sent a blocking request. *)
BlockingCallerOwnsCmd ==
  \A t \in Task : pc[t] # "idle" /\ ~nonblock[t] => cur[t] \in cmdHeap

(* Nothing is leaked: with the list empty and every task outside           *)
(* bl_send_msg, all commands and messages have been freed.  It holds when  *)
(* there are no more tasks than MaxQueued; a rejected call leaks.          *)
QuietHeapIsEmpty ==
  cmds = <<>> /\ (\A t \in Task : pc[t] = "idle") => cmdHeap = {} /\ msgHeap = {}

(* Requests reach the firmware in the order in which cmd_mgr_queue         *)
(* accepted them, although some are pushed by their callers outside the    *)
(* mutex and others by the acknowledgement handler: whatever is pushed was *)
(* queued after every command that is still waiting.                       *)
PushedInOrder ==
  [][hostid' \notin {hostid, NULL} =>
       \E i \in DOMAIN cmds :
          /\ cmds[i] = hostid'
          /\ \A j \in 1..(i - 1) : "WAIT_ACK" \in flags[cmds[j]] => cmds[j] = acking]_vars

(* Every call of bl_send_msg returns: no lost wake-up, no lost deferred    *)
(* push, no two commands waiting for each other's answers.                 *)
CallReturns == \A t \in Task : pc[t] # "idle" ~> pc[t] = "idle"

-----------------------------------------------------------------------------
(* The inductive invariant behind MailboxExclusive, AckFinds,              *)
(* DeferredHasPusher and NoDanglingCmd.                                    *)

(* A command that has left the list of deferred ones and whose             *)
(* acknowledgement has not been handled: there is at most one.             *)
Unacked(c) == "WAIT_ACK" \in flags[c] /\ ~WaitPush(c)

InFlight(c) == hostid = c \/ acking = c \/ \E t \in Task : pc[t] = "push" /\ cur[t] = c

(* The list is acknowledged commands, then the unacknowledged one, then    *)
(* the deferred ones, which exist only behind an unacknowledged one.       *)
ListOrder ==
  /\ \A i, j \in DOMAIN cmds : cmds[i] = cmds[j] => i = j
  /\ \A i, j \in DOMAIN cmds : i < j /\ "WAIT_ACK" \in flags[cmds[i]] => WaitPush(cmds[j])
  /\ \A i \in DOMAIN cmds : WaitPush(cmds[i]) => "WAIT_ACK" \in flags[cmds[i]]
  /\ \A j \in DOMAIN cmds : WaitPush(cmds[j]) => \E i \in DOMAIN cmds : Unacked(cmds[i])

(* The unacknowledged command is the one that is being pushed, is in the   *)
(* mailbox, or is held by the acknowledgement handler.                     *)
InFlightIsUnacked ==
  /\ \A t \in Task : pc[t] = "push" => cur[t] # NULL
  /\ \A c \in Cmd : InFlight(c) => \E i \in DOMAIN cmds : cmds[i] = c /\ Unacked(c)
  /\ \A i \in DOMAIN cmds : Unacked(cmds[i]) => InFlight(cmds[i])

(* One interrupt per message: the bell until the firmware takes it, then   *)
(* the acknowledgement.                                                    *)
Interrupts == (bell \/ ackirq => hostid # NULL) /\ ~(bell /\ ackirq)

ListIsLive == \A i \in DOMAIN cmds : cmds[i] \in cmdHeap /\ ~complete[cmds[i]]

(* See ListOrder, InFlightIsUnacked, Interrupts, ListIsLive: the shape of  *)
(* the list and its agreement with the mailbox, the handler and the heap.  *)
IInv ==
  /\ TypeOK /\ ListOrder /\ InFlightIsUnacked
  /\ MailboxExclusive /\ Interrupts /\ ListIsLive

=============================================================================
