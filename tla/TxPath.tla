------------------------------- MODULE TxPath -------------------------------
(***************************************************************************)
(* The transmit path of the bl60x Wi-Fi driver (bl_tx.c), the descriptor   *)
(* lists of ipc_host.c it feeds, and the link indications of bl_rx.c that  *)
(* open and close the station entries it queues packets on.                *)
(*                                                                         *)
(* Two tasks share it.  The TCP/IP task calls bl_output: it looks up a     *)
(* station without a lock and then, in a critical section, queues the      *)
(* packet and sets the station's trigger bit.  The Wi-Fi task runs the     *)
(* firmware and, between two firmware events, bl_main_event_handle: the    *)
(* bottom half confirms packets, then bl_tx_try_flush samples the trigger  *)
(* bits and moves queued packets to free descriptors, station by station.  *)
(* The firmware throttles a station (power save) or an interface (off      *)
(* channel) by handing packets back, and later releases it.                *)
(*                                                                         *)
(* The build is the one without bounce buffers (every chip but BL808 and   *)
(* BL606P): descriptors point into the pbuf.  Station entries are indices, *)
(* the firmware draws those of peers from one pool for both interfaces.    *)
(***************************************************************************)
EXTENDS Naturals, Sequences, SequencesExt, FiniteSets, FiniteSetsExt

CONSTANTS
  NSta,       \* NX_REMOTE_STA_STORE_MAX, entries of sta_table
  BcmcIdx,    \* entry of the AP's broadcast/multicast station
  Mac,        \* addresses of stations that join the AP
  NoMac,      \* the all-zero address of an entry never given one
  ViaSta,     \* destination of a packet sent on the station interface
  Bcast,      \* group destination on the AP interface
  Pkt,        \* packets the TCP/IP task sends, each once
  TxDescCnt,  \* NX_TXDESC_CNT0
  MaxRepush   \* hand-backs after which a packet is dropped (3)

Sta == 0 .. NSta - 1
Vif == {"STA", "AP"}
Dest == Mac \cup {ViaSta, Bcast}

ASSUME ConstantsAssumption ==
  /\ NSta \in Nat \ {0} /\ TxDescCnt \in Nat \ {0} /\ MaxRepush \in Nat
  /\ BcmcIdx \in Sta
  /\ NoMac \notin Mac /\ ViaSta \notin Mac /\ Bcast \notin Mac /\ ViaSta # Bcast

VARIABLES
  is_used, sta_addr, vif_idx,   \* sta_table[i]
  fc_ps,                        \* sta_table[i].fc_ps
  waiting_list, pending_list,   \* sta_table[i], packets head first
  links_num, fixed_sta_idx,     \* vif_table[v]
  fc_chan,                      \* vif_table[v].fc_chan
  dest, sta_id, repush,         \* the ethernet header and bl_txhdr of a packet
  ref,                          \* references the driver holds on a pbuf
  sta_trigger,                  \* tx_cntrl_sta_trigger
  trigger_pending,              \* tx_cntrl_sta_trigger_pending
  irq,                          \* bl_irq_handler or TXCFM raised
  list_free,                    \* number of free descriptors
  list_ongoing,                 \* packets of the descriptors given to the firmware
  list_cfm,                     \* [pkt, status] of the completed descriptors
  out,                          \* packet bl_output has looked up, not yet queued
  pc, trig, walk,               \* Wi-Fi task: its place, local sta_trigger, i
  fw_ps, fw_chan,               \* releases the firmware owes (external)
  stale                         \* history: packets whose link went down under them

staVars == <<is_used, sta_addr, vif_idx, fc_ps>>
vifVars == <<links_num, fixed_sta_idx, fc_chan>>
hdrVars == <<dest, sta_id, repush, ref>>
descVars == <<list_free, list_ongoing, list_cfm>>
trigVars == <<sta_trigger, trigger_pending, irq>>
taskVars == <<pc, trig, walk>>
fwVars == <<fw_ps, fw_chan, stale>>
vars == <<is_used, sta_addr, vif_idx, fc_ps, waiting_list, pending_list,
          links_num, fixed_sta_idx, fc_chan, dest, sta_id, repush, ref,
          sta_trigger, trigger_pending, irq, list_free, list_ongoing,
          list_cfm, out, pc, trig, walk, fw_ps, fw_chan, stale>>

(* The bits of the status word the firmware leaves in a packet's header,   *)
(* as the combinations it reports; {} is the status 0 of a packet that was *)
(* never handled.                                                          *)
TxStatus == {{"DESC_DONE", "FRAME_SUCCESSFUL"}, {"DESC_DONE", "RETRY_LIMIT_REACHED"},
             {"FRAME_REPUSHABLE_CHAN"}, {"FRAME_REPUSHABLE_PS"}, {}}

Init ==
  /\ is_used = [i \in Sta |-> FALSE]
  /\ sta_addr = [i \in Sta |-> NoMac]
  /\ vif_idx = [i \in Sta |-> IF i = BcmcIdx THEN "AP" ELSE "STA"]
  /\ fc_ps = [i \in Sta |-> FALSE]
  /\ waiting_list = [i \in Sta |-> <<>>]
  /\ pending_list = [i \in Sta |-> <<>>]
  /\ links_num = [v \in Vif |-> 0]
  /\ fixed_sta_idx = [v \in Vif |-> IF v = "AP" THEN BcmcIdx ELSE 0]
  /\ fc_chan = [v \in Vif |-> FALSE]
  /\ dest = [p \in Pkt |-> ViaSta]
  /\ sta_id = [p \in Pkt |-> NSta]
  /\ repush = [p \in Pkt |-> 0]
  /\ ref = [p \in Pkt |-> 0]
  /\ sta_trigger = {} /\ trigger_pending = {} /\ irq = FALSE
  /\ list_free = TxDescCnt /\ list_ongoing = <<>> /\ list_cfm = <<>>
  /\ out = {}
  /\ pc = "fw" /\ trig = {} /\ walk = 0
  /\ fw_ps = {} /\ fw_chan = {} /\ stale = {}

bl_tx_cntrl_check_fc(i) == ~fc_ps[i] /\ ~fc_chan[vif_idx[i]]

Queued(i) == ToSet(pending_list[i]) \cup ToSet(waiting_list[i])

-----------------------------------------------------------------------------
(* The TCP/IP task. *)

(* Entries bl_tx_cntrl_get_sta_id may return for a destination, at most one. *)
bl_tx_cntrl_get_sta_id(d) ==
  LET Fixed(v) == {i \in {fixed_sta_idx[v]} : links_num[v] > 0 /\ is_used[i]}
      Unicast  == {i \in Sta : links_num["AP"] > 0 /\ is_used[i] /\ sta_addr[i] = d}
  IN CASE d = ViaSta -> Fixed("STA")
       [] d = Bcast  -> Fixed("AP")
       [] OTHER      -> IF Unicast = {} THEN {} ELSE {Min(Unicast)}

(* bl_output up to the critical section: the station is looked up and the  *)
(* header filled in.  A packet without a station is refused (ERR_IF) and   *)
(* changes nothing.                                                        *)
bl_output(p, d) ==
  /\ out = {} /\ sta_id[p] = NSta
  /\ \E i \in bl_tx_cntrl_get_sta_id(d) : sta_id' = [sta_id EXCEPT ![p] = i]
  /\ dest' = [dest EXCEPT ![p] = d]
  /\ ref' = [ref EXCEPT ![p] = @ + 1]
  /\ out' = out \cup {p}
  /\ UNCHANGED <<staVars, waiting_list, pending_list, vifVars, repush, trigVars,
                 descVars, taskVars, fwVars>>

(* The critical section of bl_output. *)
bl_output_queue(p) ==
  LET i == sta_id[p] IN
  /\ p \in out
  /\ out' = out \ {p}
  /\ waiting_list' = [waiting_list EXCEPT ![i] = Append(@, p)]
  /\ sta_trigger' = sta_trigger \cup {i}
  /\ irq' = (irq \/ bl_tx_cntrl_check_fc(i))
  /\ UNCHANGED <<staVars, pending_list, vifVars, hdrVars, trigger_pending,
                 descVars, taskVars, fwVars>>

-----------------------------------------------------------------------------
(* The Wi-Fi task: bl_main_event_handle. *)

(* The event loop runs the handler for a raised interrupt (param = 0). *)
bl_main_event_handle ==
  /\ pc = "fw" /\ irq
  /\ irq' = FALSE
  /\ pc' = "bh"
  /\ trig' = {}
  /\ UNCHANGED <<staVars, waiting_list, pending_list, vifVars, hdrVars, sta_trigger,
                 trigger_pending, descVars, out, walk, fwVars>>

bl_tx_check_ret(p, value) ==
  \/ "FRAME_SUCCESSFUL" \in value
  \/ dest[p] = Bcast /\ "DESC_DONE" \in value

(* Mutant: a packet is handed over again without limit. *)
Repushed_NoLimit(p, value) ==
  LET i == sta_id[p] IN
  /\ ~bl_tx_check_ret(p, value)
  /\ links_num[vif_idx[i]] > 0 /\ is_used[i]
  /\ value \cap {"RETRY_LIMIT_REACHED", "FRAME_REPUSHABLE_CHAN", "FRAME_REPUSHABLE_PS"} # {}

(* bl_tx_cfm puts the packet on the pending list instead of releasing it. *)
Repushed(p, value) ==
  LET i == sta_id[p] IN
  /\ ~bl_tx_check_ret(p, value)
  /\ repush[p] < MaxRepush /\ links_num[vif_idx[i]] > 0 /\ is_used[i]
  /\ value \cap {"RETRY_LIMIT_REACHED", "FRAME_REPUSHABLE_CHAN", "FRAME_REPUSHABLE_PS"} # {}

(* The first completed descriptor becomes free. *)
desc_to_free ==
  /\ list_cfm' = Tail(list_cfm)
  /\ list_free' = list_free + 1

(* Mutant: a packet that goes again is released too. *)
bl_tx_cfm_ReleasesRepushed ==
  LET p == Head(list_cfm).pkt
      value == Head(list_cfm).status
      i == sta_id[p]
  IN
  /\ pc = "bh" /\ list_cfm # <<>>
  /\ desc_to_free
  /\ ref' = [ref EXCEPT ![p] = @ - 1]
  /\ trigger_pending' = trigger_pending \cup {i}
  /\ \/ /\ Repushed(p, value)
        /\ repush' = [repush EXCEPT ![p] = @ + 1]
        /\ pending_list' = [pending_list EXCEPT ![i] = Append(@, p)]
     \/ ~Repushed(p, value) /\ UNCHANGED <<repush, pending_list>>
  /\ UNCHANGED <<staVars, waiting_list, vifVars, dest, sta_id, sta_trigger, irq,
                 list_ongoing, out, taskVars, fwVars>>

(* One turn of ipc_host_tx_cfm_handler's loop: the confirmation of the     *)
(* first completed descriptor, which then becomes free.                    *)
bl_tx_cfm ==
  LET p == Head(list_cfm).pkt
      value == Head(list_cfm).status
      i == sta_id[p]
      again == Repushed(p, value)
      retry == "RETRY_LIMIT_REACHED" \in value
      chan == ~retry /\ "FRAME_REPUSHABLE_CHAN" \in value
  IN
  /\ pc = "bh" /\ list_cfm # <<>>
  /\ desc_to_free
  /\ \/ /\ again
        /\ repush' = [repush EXCEPT ![p] = @ + 1]
        /\ pending_list' = [pending_list EXCEPT ![i] = Append(@, p)]
        /\ trigger_pending' = trigger_pending \cup (IF retry THEN {i} ELSE {})
        /\ fc_chan' = [fc_chan EXCEPT ![vif_idx[i]] = @ \/ chan]
        /\ fc_ps' = [fc_ps EXCEPT ![i] = @ \/ (~retry /\ ~chan)]
        /\ UNCHANGED ref
     \/ /\ ~again
        /\ ref' = [ref EXCEPT ![p] = @ - 1]
        /\ trigger_pending' = trigger_pending \cup {i}
        /\ UNCHANGED <<repush, pending_list, fc_chan, fc_ps>>
  /\ UNCHANGED <<is_used, sta_addr, vif_idx, waiting_list, links_num, fixed_sta_idx,
                 dest, sta_id, sta_trigger, irq, list_ongoing, out, taskVars, fwVars>>

(* Mutant: the release triggers no station. *)
bl_tx_cntrl_update_fc_NoTrigger(v, chan, ps) ==
  LET fixed == fixed_sta_idx[v] IN
  /\ fc_chan' = [fc_chan EXCEPT ![v] = @ /\ ~chan]
  /\ fc_ps' = [fc_ps EXCEPT ![fixed] = @ /\ (v = "AP" \/ ps = {})]
  /\ trig' = {}
  /\ pc' = "flush"
  /\ UNCHANGED <<is_used, sta_addr, vif_idx, waiting_list, pending_list, links_num,
                 fixed_sta_idx, hdrVars, trigVars, descVars, out, walk>>

(* bl_tx_cntrl_update_fc, when the event loop hands over a release of the  *)
(* firmware (param # 0) for interface v: the bottom half is skipped.       *)
bl_tx_cntrl_update_fc(v, chan, ps) ==
  LET fixed == fixed_sta_idx[v] IN
  /\ fc_chan' = [fc_chan EXCEPT ![v] = @ /\ ~chan]
  /\ \/ /\ v = "STA"
        /\ fc_ps' = [fc_ps EXCEPT ![fixed] = @ /\ ps = {}]
        /\ trig' = {fixed}
     \/ /\ v = "AP"
        /\ trig' = (IF chan THEN {fixed} ELSE {}) \cup ps
        /\ UNCHANGED fc_ps
  /\ pc' = "flush"
  /\ UNCHANGED <<is_used, sta_addr, vif_idx, waiting_list, pending_list, links_num,
                 fixed_sta_idx, hdrVars, trigVars, descVars, out, walk>>

(* bl_tx_try_flush takes both sets of trigger bits and clears them. *)
sample_trigger ==
  /\ \/ pc = "bh" /\ list_cfm = <<>>
     \/ pc = "flush"
  /\ trig' = trig \cup trigger_pending \cup sta_trigger
  /\ trigger_pending' = {}
  /\ sta_trigger' = {}
  /\ pc' = "walk"
  /\ walk' = 0
  /\ UNCHANGED <<staVars, waiting_list, pending_list, vifVars, hdrVars, irq,
                 descVars, out, fwVars>>

(* Mutant: a station that ran out of descriptors is forgotten. *)
Deferred_Never(i, left) == {}

(* Entry i is triggered again later: packets were repushed, or the         *)
(* descriptors ran out.                                                    *)
Deferred(i, left) ==
  IF pending_list[i] # <<>> \/ (waiting_list[i] # <<>> /\ left = 0) THEN {i} ELSE {}

(* One turn of bl_tx_try_flush's loop over the stations: repushed packets  *)
(* first, then new ones, as far as the free descriptors last.  A triggered *)
(* station under flow control is skipped and its trigger forgotten.        *)
flush_sta ==
  LET i == walk
      n == Min({list_free, Len(pending_list[i])})
      m == Min({list_free - n, Len(waiting_list[i])})
      left == list_free - n - m
  IN
  /\ pc = "walk"
  /\ IF i = NSta - 1 THEN pc' = "fw" /\ walk' = 0 /\ trig' = {}
                    ELSE walk' = walk + 1 /\ UNCHANGED <<pc, trig>>
  /\ \/ /\ i \in trig /\ bl_tx_cntrl_check_fc(i)
        /\ pending_list' = [pending_list EXCEPT ![i] = SubSeq(@, n + 1, Len(@))]
        /\ waiting_list' = [waiting_list EXCEPT ![i] = SubSeq(@, m + 1, Len(@))]
        /\ list_ongoing' = list_ongoing \o SubSeq(pending_list[i], 1, n)
                                        \o SubSeq(waiting_list[i], 1, m)
        /\ list_free' = left
        /\ trigger_pending' = trigger_pending \cup Deferred(i, left)
     \/ /\ ~(i \in trig /\ bl_tx_cntrl_check_fc(i))
        /\ UNCHANGED <<pending_list, waiting_list, list_ongoing, list_free,
                       trigger_pending>>
  /\ UNCHANGED <<staVars, vifVars, hdrVars, sta_trigger, irq, list_cfm, out, fwVars>>

-----------------------------------------------------------------------------
(* Link indications, delivered by the firmware in the Wi-Fi task. *)

(* Entries whose lists bl_tx_cntrl_purge_check finds not empty. *)
Purged(S) == {i \in S : Queued(i) # {}}

(* Packets the driver holds for the entries S. *)
Held(S) == {p \in Pkt : ref[p] > 0 /\ sta_id[p] \in S}

(* Mutant: what is queued on the entries is left there. *)
bl_tx_cntrl_link_down_NoPurge(S) == UNCHANGED trigVars

(* bl_tx_cntrl_link_down for the entries S. *)
bl_tx_cntrl_link_down(S) ==
  /\ sta_trigger' = sta_trigger \cup Purged(S)
  /\ irq' = (irq \/ Purged(S) # {})
  /\ UNCHANGED trigger_pending

(* The entry i is free in the firmware: nothing it still works on uses it. *)
FwFree(i) ==
  /\ i # BcmcIdx /\ ~is_used[i]
  /\ \A p \in ToSet(list_ongoing) \cup {c.pkt : c \in ToSet(list_cfm)} : sta_id[p] # i

bl_rx_sm_sta_add_ind(i) ==
  /\ pc = "fw" /\ FwFree(i)
  /\ links_num["STA"] = 0
  /\ links_num' = [links_num EXCEPT !["STA"] = 1]
  /\ fc_chan' = [fc_chan EXCEPT !["STA"] = FALSE]
  /\ fixed_sta_idx' = [fixed_sta_idx EXCEPT !["STA"] = i]
  /\ vif_idx' = [vif_idx EXCEPT ![i] = "STA"]
  /\ fc_ps' = [fc_ps EXCEPT ![i] = FALSE]
  /\ is_used' = [is_used EXCEPT ![i] = TRUE]
  /\ UNCHANGED <<sta_addr, waiting_list, pending_list, hdrVars, trigVars, descVars,
                 out, taskVars, fwVars>>

(* bl_rx_sm_disconnect_ind, and bl_rx_sm_connect_ind with a status code    *)
(* while a link is up.                                                     *)
bl_rx_sm_disconnect_ind ==
  LET i == fixed_sta_idx["STA"] IN
  /\ pc = "fw"
  /\ links_num["STA"] > 0 /\ is_used[i]
  /\ links_num' = [links_num EXCEPT !["STA"] = @ - 1]
  /\ fc_chan' = [fc_chan EXCEPT !["STA"] = FALSE]
  /\ is_used' = [is_used EXCEPT ![i] = FALSE]
  /\ bl_tx_cntrl_link_down({i})
  /\ fw_ps' = fw_ps \ {i}
  /\ stale' = stale \cup Held({i})
  /\ UNCHANGED <<sta_addr, vif_idx, fc_ps, waiting_list, pending_list, fixed_sta_idx,
                 hdrVars, descVars, out, taskVars, fw_chan>>

bl_rx_apm_sta_add_ind(i, m) ==
  LET first == links_num["AP"] = 0
      fixed == IF first THEN {fixed_sta_idx["AP"]} ELSE {}
  IN
  /\ pc = "fw" /\ FwFree(i)
  /\ \A j \in Sta : is_used[j] /\ vif_idx[j] = "AP" => sta_addr[j] # m
  /\ sta_addr' = [sta_addr EXCEPT ![i] = m]
  /\ vif_idx' = [vif_idx EXCEPT ![i] = "AP"]
  /\ fc_ps' = [j \in Sta |-> IF j \in {i} \cup fixed THEN FALSE ELSE fc_ps[j]]
  /\ is_used' = [j \in Sta |-> IF j \in {i} \cup fixed THEN TRUE ELSE is_used[j]]
  /\ fc_chan' = [fc_chan EXCEPT !["AP"] = @ /\ ~first]
  /\ links_num' = [links_num EXCEPT !["AP"] = @ + 1]
  /\ UNCHANGED <<waiting_list, pending_list, fixed_sta_idx, hdrVars, trigVars,
                 descVars, out, taskVars, fwVars>>

(* Mutant: the group station stays in use when the last station leaves. *)
GoesDown_PeerOnly(i) == {i}

(* The entries that go down with station i: the group station goes with    *)
(* the last one.                                                           *)
GoesDown(i) == {i} \cup IF links_num["AP"] = 1 THEN {fixed_sta_idx["AP"]} ELSE {}

bl_rx_apm_sta_del_ind(i) ==
  LET last == links_num["AP"] = 1
      down == GoesDown(i)
  IN
  /\ pc = "fw"
  /\ i # BcmcIdx /\ is_used[i] /\ vif_idx[i] = "AP"
  /\ links_num["AP"] > 0
  /\ is_used' = [j \in Sta |-> is_used[j] /\ j \notin down]
  /\ links_num' = [links_num EXCEPT !["AP"] = @ - 1]
  /\ fc_chan' = [fc_chan EXCEPT !["AP"] = @ /\ ~last]
  /\ bl_tx_cntrl_link_down(down)
  /\ fw_ps' = fw_ps \ down
  /\ stale' = stale \cup Held(down)
  /\ UNCHANGED <<sta_addr, vif_idx, fc_ps, waiting_list, pending_list, fixed_sta_idx,
                 hdrVars, descVars, out, taskVars, fw_chan>>

-----------------------------------------------------------------------------
(* The firmware (external). *)

(* It completes any packet it was given.  It hands a packet back for power *)
(* save only while the peer is linked, and never a group packet; whatever  *)
(* it hands back it owes a release for.                                    *)
fw_complete(k, value) ==
  LET p == list_ongoing[k]
      i == sta_id[p]
  IN
  /\ pc = "fw"
  /\ "FRAME_REPUSHABLE_PS" \in value => is_used[i] /\ i # BcmcIdx
  /\ list_ongoing' = RemoveAt(list_ongoing, k)
  /\ list_cfm' = Append(list_cfm, [pkt |-> p, status |-> value])
  /\ irq' = TRUE
  /\ fw_ps' = fw_ps \cup (IF "FRAME_REPUSHABLE_PS" \in value THEN {i} ELSE {})
  /\ fw_chan' = fw_chan \cup (IF "FRAME_REPUSHABLE_CHAN" \in value THEN {vif_idx[i]} ELSE {})
  /\ UNCHANGED <<staVars, waiting_list, pending_list, vifVars, hdrVars, sta_trigger,
                 trigger_pending, list_free, out, taskVars, stale>>

(* Packets handed back for a reason whose confirmation the host has still  *)
(* to handle.                                                              *)
HandedBack(bit) == {c.pkt : c \in {x \in ToSet(list_cfm) : bit \in x.status}}

(* It releases interface v from chan, or peers ps of v from power save,    *)
(* after the host has handled the packets it handed back for that reason.  *)
fw_release(v, chan, ps) ==
  /\ pc = "fw"
  /\ chan \/ ps # {}
  /\ chan => /\ v \in fw_chan
             /\ \A p \in HandedBack("FRAME_REPUSHABLE_CHAN") : vif_idx[sta_id[p]] # v
  /\ ps \subseteq {i \in fw_ps : vif_idx[i] = v}
  /\ \A p \in HandedBack("FRAME_REPUSHABLE_PS") : sta_id[p] \notin ps
  /\ fw_chan' = fw_chan \ (IF chan THEN {v} ELSE {})
  /\ fw_ps' = fw_ps \ ps
  /\ UNCHANGED stale
  /\ bl_tx_cntrl_update_fc(v, chan, ps)

-----------------------------------------------------------------------------
WifiTask ==
  bl_main_event_handle \/ bl_tx_cfm \/ sample_trigger \/ flush_sta

Complete == \E k \in 1 .. Len(list_ongoing), value \in TxStatus : fw_complete(k, value)

Release(v) == \E chan \in BOOLEAN, ps \in SUBSET fw_ps : fw_release(v, chan, ps)

Link ==
  \/ \E i \in Sta : bl_rx_sm_sta_add_ind(i) \/ bl_rx_apm_sta_del_ind(i)
  \/ \E i \in Sta, m \in Mac : bl_rx_apm_sta_add_ind(i, m)
  \/ bl_rx_sm_disconnect_ind

Next ==
  \/ \E p \in Pkt, d \in Dest : bl_output(p, d)
  \/ \E p \in Pkt : bl_output_queue(p)
  \/ WifiTask
  \/ Complete
  \/ \E v \in Vif : Release(v)
  \/ Link

Spec == Init /\ [][Next]_vars

(* Both tasks keep running; the firmware completes what it was given and   *)
(* gives the releases it owes, whatever else its event loop handles.       *)
FairSpec ==
  /\ Spec
  /\ WF_vars(WifiTask)
  /\ \A p \in Pkt : WF_vars(bl_output_queue(p))
  /\ SF_vars(Complete)
  /\ \A v \in Vif : SF_vars(Release(v))

-----------------------------------------------------------------------------
(* Properties. *)

StaOK ==
  /\ is_used \in [Sta -> BOOLEAN] /\ sta_addr \in [Sta -> Mac \cup {NoMac}]
  /\ vif_idx \in [Sta -> Vif] /\ fc_ps \in [Sta -> BOOLEAN]
  /\ links_num \in [Vif -> Nat] /\ fixed_sta_idx \in [Vif -> Sta]
  /\ fc_chan \in [Vif -> BOOLEAN]

ListOK ==
  /\ waiting_list \in [Sta -> Seq(Pkt)] /\ pending_list \in [Sta -> Seq(Pkt)]
  /\ list_free \in 0 .. TxDescCnt /\ list_ongoing \in Seq(Pkt)
  /\ list_cfm \in Seq([pkt : Pkt, status : TxStatus])

PktOK ==
  /\ dest \in [Pkt -> Dest] /\ sta_id \in [Pkt -> 0 .. NSta]
  /\ repush \in [Pkt -> 0 .. MaxRepush] /\ ref \in [Pkt -> {0, 1}]
  /\ out \subseteq Pkt /\ stale \subseteq Pkt

TaskOK ==
  /\ sta_trigger \subseteq Sta /\ trigger_pending \subseteq Sta /\ irq \in BOOLEAN
  /\ pc \in {"fw", "bh", "flush", "walk"} /\ trig \subseteq Sta /\ walk \in Sta
  /\ fw_ps \subseteq Sta /\ fw_chan \subseteq Vif

(* Every variable has its type. *)
TypeOK == StaOK /\ ListOK /\ PktOK /\ TaskOK

(* The packets of the completed descriptors. *)
CfmPkts == [k \in DOMAIN list_cfm |-> list_cfm[k].pkt]

(* The positions of packet p: in bl_output, in a list of some station, in  *)
(* a descriptor.                                                           *)
At(seq, p) == {k \in DOMAIN seq : seq[k] = p}

Places(p) ==
  {<<"out", 0, 0>> : q \in out \cap {p}}
    \cup (UNION {{<<"pending", i, k>> : k \in At(pending_list[i], p)} : i \in Sta})
    \cup (UNION {{<<"waiting", i, k>> : k \in At(waiting_list[i], p)} : i \in Sta})
    \cup {<<"ongoing", 0, k>> : k \in At(list_ongoing, p)}
    \cup {<<"cfm", 0, k>> : k \in At(CfmPkts, p)}

(* No descriptor is lost or doubled between ipc_host_txdesc_push, the      *)
(* firmware and ipc_host_tx_cfm_handler.                                   *)
DescAccounted == list_free + Len(list_ongoing) + Len(list_cfm) = TxDescCnt

(* A packet bl_output accepted is in exactly one list while the driver     *)
(* holds its reference and in none afterwards, so bl_tx_cfm releases every *)
(* pbuf and calls its confirmation callback exactly once, whether packets  *)
(* are completed, handed back, purged or overtaken by a link change; it    *)
(* stays with the station entry it was looked up for, and the descriptors  *)
(* add up.                                                                 *)
OnePlace ==
  /\ \A p \in Pkt : Cardinality(Places(p)) = ref[p]
  /\ \A i \in Sta, p \in Pkt : p \in Queued(i) => sta_id[p] = i
  /\ DescAccounted

(* Flow control never outlives its release: an interface the host holds    *)
(* back, and the linked access point it holds back, are ones the firmware  *)
(* has still to release.                                                   *)
FcReleasable ==
  /\ \A v \in Vif : fc_chan[v] => v \in fw_chan
  /\ \A i \in Sta : is_used[i] /\ vif_idx[i] = "STA" /\ fc_ps[i] => i \in fw_ps

Recovers(i) == i = fixed_sta_idx[vif_idx[i]]

(* The flush will come to entry i: its trigger bit is set together with an *)
(* interrupt, or deferred with packets in flight whose confirmation will   *)
(* act on it.                                                              *)
WillFlush(i) ==
  \/ i \in sta_trigger \cup trigger_pending /\ irq
  \/ i \in trigger_pending /\ list_ongoing # <<>>

(* The wake-up of bl_output is never lost on the entries whose flow        *)
(* control the firmware's release reaches (the access point and the AP's   *)
(* group station): between two events, a packet queued on an entry that    *)
(* may send is announced, and an entry that may not send waits for a       *)
(* release that is still to come.                                          *)
TriggerNotLost ==
  /\ pc = "fw" =>
       \A i \in Sta : Recovers(i) /\ Queued(i) \ stale # {} /\ bl_tx_cntrl_check_fc(i) =>
         WillFlush(i)
  /\ FcReleasable

(* Purging reaches everything: between two events, whatever is queued on   *)
(* an entry that has gone down is announced, the packets bl_output had     *)
(* looked up before and queued afterwards included.  Excepted are an entry *)
(* that went down in power save and one the station has left for another   *)
(* entry: no release reaches those.                                        *)
PurgeNotLost ==
  pc = "fw" =>
    \A i \in Sta : Recovers(i) /\ ~is_used[i] /\ ~fc_ps[i] /\ Queued(i) # {} => WillFlush(i)

(* The linked peers of interface v. *)
Peers(v) == {i \in Sta \ {BcmcIdx} : is_used[i] /\ vif_idx[i] = v}

(* links_num counts the linked peers of each interface, the group station  *)
(* is in use exactly while the AP has one, and an access point is linked   *)
(* only through fixed_sta_idx.                                             *)
LinksMatch ==
  /\ \A v \in Vif : links_num[v] = Cardinality(Peers(v))
  /\ is_used[BcmcIdx] = (Peers("AP") # {})
  /\ Peers("STA") \subseteq {fixed_sta_idx["STA"]}

(* A packet accepted for the access point or for the AP's group station is *)
(* eventually released, sent or given up, unless its link goes down first: *)
(* neither flow control, nor a shortage of descriptors, nor any order of   *)
(* bl_output, confirmations and releases leaves it behind.                 *)
Delivered ==
  \A p \in Pkt :
    (ref[p] = 1 /\ dest[p] \in {ViaSta, Bcast}) ~> (ref[p] = 0 \/ p \in stale)

(* A release reaches the interface and the stations it names: what is      *)
(* queued for a station of the AP is eventually released or its link goes  *)
(* down.                                                                   *)
RemoteDelivered ==
  \A p \in Pkt :
    (ref[p] = 1 /\ dest[p] \in Mac) ~> (ref[p] = 0 \/ p \in stale)

=============================================================================
