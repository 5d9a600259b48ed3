------------------------------ MODULE WifiMgmr ------------------------------
(***************************************************************************)
(* The Wi-Fi manager (wifi_mgmr.c): a task that takes messages from a      *)
(* bounded queue and runs a hierarchical state machine (stateMachine.c)    *)
(* over them, with the profiles (wifi_mgmr_profile.c), the pending-task    *)
(* bits, two one-shot timers, and the station and access-point interfaces. *)
(*                                                                         *)
(* Everyone else only posts messages, sets pending bits or, for the retry  *)
(* timer, prepares the profile to reconnect with: the applications, the    *)
(* firmware's indications (wifi_mgmr_event.c), the TCP/IP thread through   *)
(* netif_status_callback (wifi.c) and the timer task.                      *)
(*                                                                         *)
(* The manager handles one message per step: guard, exit action, action,   *)
(* entry action and the new state.  What others do while it sleeps or      *)
(* waits for the firmware inside a handler commutes with the step, since   *)
(* they only append to the queue and set bits.  The pending bits are       *)
(* looked at after each message, in steps of their own.                    *)
(***************************************************************************)
EXTENDS Integers, Sequences, SequencesExt

CONSTANTS
  Profile,      \* connect requests: [net, dhcp, ttl], ttl -1 for AP_INFO_TYPE_PRESIST
  NoProfile,    \* an unused entry of profiles[]
  StaticIp,     \* addresses an application may configure
  AppOp,        \* operations the applications call
  ShortLease,   \* whether a lease may be lost before the manager has seen it
  MqCount,      \* WIFI_MGMR_MQ_MSG_COUNT
  MaxCalls,     \* bound: calls by the applications
  MaxTriggers   \* bound: delayed denoise triggers outstanding at a time

Op == {"CONNECT", "DISCONNECT", "IDLE", "ENABLE", "DISABLE", "SCAN", "IP_SET", "IP_UNSET",
       "SNIFFER", "PHY_UP", "AP_START", "AP_STOP", "DENOISE_ON", "DENOISE_OFF", "OTHER"}

ASSUME MgmrAssumption ==
  /\ NoProfile \notin Profile
  /\ \A p \in Profile : p.dhcp \in BOOLEAN /\ p.ttl \in Int /\ p.ttl >= -1
  /\ StaticIp \cap {"none", "dhcp"} = {}
  /\ AppOp \subseteq Op
  /\ ShortLease \in BOOLEAN
  /\ MqCount \in Nat \ {0} /\ MaxCalls \in Nat /\ MaxTriggers \in Nat

VARIABLES
  state,        \* wifiMgmr.m.currentState
  mq,           \* wifiMgmr.mq
  mpc,          \* the manager: "recv" at the queue, "pending" in handle_pending_task
  pending,      \* wifiMgmr.pending_task
  noauto,       \* wifiMgmr.disable_autoreconnect
  profiles,     \* wifiMgmr.profiles
  active,       \* wifiMgmr.profile_active_index
  ttl,          \* wifiMgmr.ap_info_ttl_curr
  retryMsg,     \* stateDisconnect_data.profile_msg
  retryTimer,   \* stateDisconnect_data.timer is running
  ipTimer,      \* stateConnectedIPNo_data.timer is running
  fw,           \* the firmware's station: off, joining, up, leaving, gone
  target,       \* the profile of the last bl_main_connect
  fwVif,        \* the firmware's interfaces by inst_nbr
  staIdx,       \* vif_table[BL_VIF_STA].vif_idx
  apIdx,        \* vif_table[BL_VIF_AP].vif_idx
  ap,           \* wifiMgmr.inf_ap_enabled
  addr,         \* the station's address: none, dhcp or a static one
  dhcp,         \* wlan_sta.dhcp_started
  ipv4,         \* wlan_sta.ipv4.ip: "none" when zero
  auto_repeat,  \* auto_repeat of the denoise hack
  triggers,     \* delayed actions that will run trigger_auto_denoise
  calls,        \* history: calls made by the applications
  lost,         \* history: an internal message was dropped at a full queue
  stray         \* history: the access point was stopped while it did not run

profVars == <<profiles, active, ttl>>
fwVars == <<fw, target>>
vifVars == <<fwVif, staIdx, apIdx, ap, stray>>
ipVars == <<addr, dhcp>>
denoiseVars == <<auto_repeat, triggers>>
vars == <<state, mq, mpc, pending, noauto, profiles, active, ttl, retryMsg, retryTimer, ipTimer,
          fw, target, fwVif, staIdx, apIdx, ap, addr, dhcp, ipv4, auto_repeat, triggers,
          calls, lost, stray>>

State == {"IfaceDown", "Idle", "Sniffer", "Connecting", "IPNo", "IPYes", "Disconnect"}
Msg(ev) == [ev |-> ev]
Internal == {"IND_CONNECTED", "IND_DISCONNECT", "FW_DISCONNECT", "RECONNECT"}
Message == [ev : (Op \ {"CONNECT", "IP_SET", "IP_UNSET"}) \cup Internal \cup {"WAKEUP", "TRIGGER"}]
             \cup [ev : {"CONNECT"}, prof : Profile]
Queued(ev) == \E i \in DOMAIN mq : mq[i].ev = ev

-----------------------------------------------------------------------------
(* Mutant: one message too many. *)
Full_OffByOne(q) == Len(q) > MqCount

(* Posting: bflb_os_queue_send without waiting; a full queue drops it. *)
Full(q) == Len(q) >= MqCount

Post(q, m) == IF Full(q) THEN q ELSE Append(q, m)

(* The internal message m joins q; losing one is remembered. *)
wifi_mgmr_event_notify(q, m) ==
  /\ mq' = Post(q, m)
  /\ lost' = (lost \/ Full(q))

(* n wake-ups join q.  Their loss does no harm: the bits stay set. *)
Wakeups(q, n) == CASE n = 0 -> q
                   [] n = 1 -> Post(q, Msg("WAKEUP"))
                   [] n = 2 -> Post(Post(q, Msg("WAKEUP")), Msg("WAKEUP"))

(* Receive a message with event ev. *)
Recv(ev) == mpc = "recv" /\ mq # <<>> /\ Head(mq).ev = ev /\ mpc' = "pending"

(* Receive it and post nothing. *)
RecvOnly(ev) == Recv(ev) /\ mq' = Tail(mq) /\ UNCHANGED <<lost, calls, ipv4>>

-----------------------------------------------------------------------------
(* Profiles. *)

(* ap_info_ttl_curr when disconnect_retry takes over the pending profile. *)
ReconnectTtl == -1

(* Mutant: the two cases of disconnect_retry are exchanged. *)
RetryIndex_Swapped == IF "CONNECT" \in pending THEN 0 ELSE 1

(* The profile disconnect_retry reconnects with: the pending one first. *)
RetryIndex == IF "CONNECT" \in pending THEN 1 ELSE 0

(* wifi_mgmr_profile_add_by_idx: the request is stored in entry i. *)
profile_add(i, p) == [profiles EXCEPT ![i] = p]

(* Mutant: the pending profile does not become the default. *)
NewDefault_NotCopied(i) == profiles

(* profiles[] once disconnect_retry has chosen profile i. *)
NewDefault(i) == profile_add(0, profiles[i])

(* wifi_mgmr_profile_set_active_by_idx(1, _): it makes profiles[1] the     *)
(* active index whenever that entry is used, also to deactivate it.        *)
set_active_1(act) == IF profiles[1] # NoProfile THEN 1 ELSE act

(* use_dhcp as stateConnectedIPNoEnter reads it. *)
UseDhcp == IF active \in 0..1 /\ profiles[active] # NoProfile THEN profiles[active].dhcp ELSE TRUE

-----------------------------------------------------------------------------
(* The driver calls and lwIP, as the manager uses them. *)

bl_main_connect(p) == fw' = "joining" /\ target' = p

bl_main_disconnect == fw' = (IF fw = "up" THEN "leaving" ELSE fw) /\ UNCHANGED target

bl_main_connect_abort == fw' = (IF fw = "joining" THEN "leaving" ELSE fw) /\ UNCHANGED target

(* The firmware adds an interface at a free index. *)
bl_main_if_add(kind, idx) == fwVif[idx] = "none" /\ fwVif' = [fwVif EXCEPT ![idx] = kind]

(* Mutant: the index in vif_table instead of the firmware's. *)
bl_main_if_remove_sta_TableIndex ==
  /\ fwVif' = [fwVif EXCEPT ![0] = "none"]
  /\ staIdx' = 0
  /\ UNCHANGED <<apIdx, ap, stray>>

(* bl_main_if_remove(BL_VIF_STA): the index goes, the table entry is zeroed. *)
bl_main_if_remove_sta ==
  /\ fwVif' = [fwVif EXCEPT ![staIdx] = "none"]
  /\ staIdx' = 0
  /\ UNCHANGED <<apIdx, ap, stray>>

(* Mutant: the DHCP client keeps running. *)
ClearAddress_KeepsDhcp == addr' = "none" /\ UNCHANGED dhcp

(* wifi_netif_dhcp_stop and netifapi_netif_set_addr(NULL), which call      *)
(* netif_status_callback when the address changes.                         *)
ClearAddress == dhcp' = FALSE /\ addr' = "none"
ClearBits == IF addr # "none" THEN {"IP_UPDATE"} ELSE {}

(* __sta_setup_ip: a static address, else DHCP unless it already runs.     *)
(* The address changes to none when DHCP stops, then to the static one.    *)
AddrAfterStop == IF dhcp THEN "none" ELSE addr

sta_setup_ip ==
  IF ipv4 # "none" THEN dhcp' = FALSE /\ addr' = ipv4
  ELSE dhcp' = (dhcp \/ UseDhcp) /\ UNCHANGED addr

SetupBits ==
  IF ipv4 = "none" THEN {}
  ELSE (IF AddrAfterStop # addr THEN {"IP_UPDATE"} ELSE {})
         \cup (IF AddrAfterStop # ipv4 THEN {"IP_GOT"} ELSE {})

-----------------------------------------------------------------------------
(* The common exit action: the scan that was pending is sent. *)
stateExit == pending' = pending \ {"SCAN"}

(* Entry actions.  q is the queue without the message being handled. *)

(* A pending connect disconnects again; otherwise an address is sought. *)
stateConnectedIPNoEnter(q, bits) ==
  /\ state' = "IPNo"
  /\ IF "CONNECT" \in pending
       THEN /\ wifi_mgmr_event_notify(q, Msg("DISCONNECT"))
            /\ pending' = bits
            /\ UNCHANGED <<ipTimer, ipVars>>
       ELSE /\ ipTimer' = UseDhcp
            /\ sta_setup_ip
            /\ pending' = bits \cup SetupBits
            /\ mq' = Wakeups(q, (IF "IP_UPDATE" \in SetupBits THEN 1 ELSE 0)
                                  + (IF "IP_GOT" \in SetupBits THEN 1 ELSE 0))
            /\ UNCHANGED lost

(* Retry later, or ask to become idle; send the scan that was pending. *)
stateDisconnect_enter(q, bits) ==
  /\ state' = "Disconnect"
  /\ pending' = bits \ {"SCAN"}
  /\ IF ~noauto \/ "CONNECT" \in pending
       THEN retryTimer' = TRUE /\ mq' = q /\ UNCHANGED lost
       ELSE wifi_mgmr_event_notify(q, Msg("IDLE")) /\ UNCHANGED retryTimer

-----------------------------------------------------------------------------
(* The manager: connecting. *)

(* Busy: end the present connection and remember the request. *)
connect_pending ==
  /\ Recv("CONNECT")
  /\ state \in {"Connecting", "IPNo", "IPYes"}
  /\ IF state = "Connecting"
       THEN bl_main_connect_abort /\ mq' = Tail(mq) /\ UNCHANGED lost
       ELSE wifi_mgmr_event_notify(Tail(mq), Msg("DISCONNECT")) /\ UNCHANGED fwVars
  /\ profiles' = profile_add(1, Head(mq).prof)
  /\ pending' = pending \cup {"CONNECT"}
  /\ UNCHANGED <<state, noauto, active, ttl, retryMsg, retryTimer, ipTimer, vifVars, ipVars,
                 ipv4, denoiseVars, calls>>

(* Mutant: the retry timer survives the exit from Disconnect. *)
CancelRetry_Forgotten == UNCHANGED retryTimer

(* stateDisconnect_exit deletes the timer. *)
CancelRetry == retryTimer' = FALSE

(* From idle, once the interface is added, or from disconnect. *)
connect_start ==
  /\ RecvOnly("CONNECT")
  /\ \/ /\ state = "Idle"
        /\ \E i \in DOMAIN fwVif : bl_main_if_add("STA", i) /\ staIdx' = i
        /\ stateExit
        /\ UNCHANGED <<apIdx, ap, stray, retryTimer>>
     \/ /\ state = "Disconnect"
        /\ CancelRetry
        /\ UNCHANGED <<vifVars, pending>>
  /\ state' = "Connecting"
  /\ profiles' = profile_add(0, Head(mq).prof)
  /\ active' = set_active_1(0)
  /\ ttl' = -1
  /\ bl_main_connect(Head(mq).prof)
  /\ UNCHANGED <<noauto, retryMsg, ipTimer, ipVars, denoiseVars>>

(* No state for it, or the interface could not be added. *)
connect_refused ==
  /\ RecvOnly("CONNECT")
  /\ state \in {"IfaceDown", "Sniffer", "Idle"}
  /\ UNCHANGED <<state, pending, noauto, profVars, retryMsg, retryTimer, ipTimer, fwVars,
                 vifVars, ipVars, denoiseVars>>

ind_connected ==
  /\ Recv("IND_CONNECTED")
  /\ state = "Connecting"
  /\ stateConnectedIPNoEnter(Tail(mq), pending \ {"SCAN"})
  /\ UNCHANGED <<noauto, profVars, retryMsg, retryTimer, fwVars, vifVars, ipv4, denoiseVars, calls>>

(* Mutant: the transition is missing from one table. *)
LinkedStates_NotIPYes == {"IPNo"}

(* The connected states with a transition for FW_IND_DISCONNECT. *)
LinkedStates == {"IPNo", "IPYes"}

(* Leaving IPYes stops denoising. *)
stateConnectedIPYes_exit == auto_repeat' = FALSE

(* A join has failed, or was aborted. *)
ind_join_failed ==
  /\ Recv("IND_DISCONNECT")
  /\ state = "Connecting"
  /\ stateDisconnect_enter(Tail(mq), pending)
  /\ UNCHANGED <<noauto, profVars, retryMsg, ipTimer, fwVars, vifVars, ipVars, ipv4, denoiseVars,
                 calls>>

(* A link has ended: leave IPNo or IPYes, and give up the address. *)
ind_link_lost ==
  /\ Recv("IND_DISCONNECT")
  /\ state \in LinkedStates
  /\ ipTimer' = FALSE
  /\ IF state = "IPYes" THEN stateConnectedIPYes_exit ELSE UNCHANGED auto_repeat
  /\ ClearAddress
  /\ stateDisconnect_enter(Wakeups(Tail(mq), IF ClearBits = {} THEN 0 ELSE 1),
                           pending \cup ClearBits)
  /\ UNCHANGED <<noauto, profVars, retryMsg, fwVars, vifVars, ipv4, triggers, calls>>

(* The hint (bssid, channel) is used ap_info_ttl times, then no more. *)
reconnect ==
  /\ RecvOnly("RECONNECT")
  /\ state = "Disconnect"
  /\ CancelRetry
  /\ LET curr == IF ttl = -1 THEN retryMsg.ttl ELSE ttl
     IN ttl' = CASE retryMsg.ttl = -1 -> ttl
                 [] retryMsg.ttl # -1 /\ curr = 0 -> curr
                 [] retryMsg.ttl # -1 /\ curr # 0 -> curr - 1
  /\ bl_main_connect(retryMsg)
  /\ state' = "Connecting"
  /\ UNCHANGED <<pending, noauto, profiles, active, retryMsg, ipTimer, vifVars, ipVars,
                 denoiseVars>>

(* The firmware is told; the state changes when its indication arrives. *)
disconnect_joining ==
  /\ RecvOnly("DISCONNECT")
  /\ state = "Connecting"
  /\ bl_main_connect_abort
  /\ UNCHANGED <<state, pending, noauto, profVars, retryMsg, retryTimer, ipTimer, vifVars,
                 ipVars, denoiseVars>>

disconnect_linked ==
  /\ RecvOnly("DISCONNECT")
  /\ state \in {"IPNo", "IPYes"}
  /\ bl_main_disconnect
  /\ UNCHANGED <<state, pending, noauto, profVars, retryMsg, retryTimer, ipTimer, vifVars,
                 ipVars, denoiseVars>>

(* In every state: the firmware is told to disconnect. *)
fw_disconnect ==
  /\ RecvOnly("FW_DISCONNECT")
  /\ bl_main_disconnect
  /\ UNCHANGED <<state, pending, noauto, profVars, retryMsg, retryTimer, ipTimer, vifVars,
                 ipVars, denoiseVars>>

(* APP_IDLE ends sniffing, or a disconnected station's interface. *)
idle ==
  /\ RecvOnly("IDLE")
  /\ \/ state = "Sniffer" /\ stateExit /\ UNCHANGED <<retryTimer, vifVars>>
     \/ state = "Disconnect" /\ CancelRetry /\ bl_main_if_remove_sta /\ UNCHANGED pending
  /\ state' = "Idle"
  /\ UNCHANGED <<noauto, profVars, retryMsg, ipTimer, fwVars, ipVars, denoiseVars>>

(* Disabling in Disconnect gives up at once, without setting the flag. *)
disable_autoreconnect ==
  /\ RecvOnly("DISABLE")
  /\ IF state = "Disconnect"
       THEN CancelRetry /\ bl_main_if_remove_sta /\ state' = "Idle" /\ UNCHANGED noauto
       ELSE noauto' = TRUE /\ UNCHANGED <<state, retryTimer, vifVars>>
  /\ UNCHANGED <<pending, profVars, retryMsg, ipTimer, fwVars, ipVars, denoiseVars>>

enable_autoreconnect ==
  /\ RecvOnly("ENABLE")
  /\ noauto' = FALSE
  /\ UNCHANGED <<state, pending, profVars, retryMsg, retryTimer, ipTimer, fwVars, vifVars,
                 ipVars, denoiseVars>>

-----------------------------------------------------------------------------
(* The manager: scanning, sniffing, the access point, denoise. *)

fw_scan ==
  /\ RecvOnly("SCAN")
  /\ pending' = IF state \in {"Connecting", "IPNo", "Disconnect"} THEN pending \cup {"SCAN"}
                ELSE pending
  /\ UNCHANGED <<state, noauto, profVars, retryMsg, retryTimer, ipTimer, fwVars, vifVars, ipVars,
                 denoiseVars>>

sniffer ==
  /\ RecvOnly("SNIFFER")
  /\ state = "Idle"
  /\ state' = "Sniffer"
  /\ stateExit
  /\ UNCHANGED <<noauto, profVars, retryMsg, retryTimer, ipTimer, fwVars, vifVars, ipVars,
                 denoiseVars>>

phy_up ==
  /\ RecvOnly("PHY_UP")
  /\ state = "IfaceDown"
  /\ state' = "Idle"
  /\ stateExit
  /\ UNCHANGED <<noauto, profVars, retryMsg, retryTimer, ipTimer, fwVars, vifVars, ipVars,
                 denoiseVars>>

ap_start ==
  /\ RecvOnly("AP_START")
  /\ ~ap
  /\ \E i \in DOMAIN fwVif : bl_main_if_add("AP", i) /\ apIdx' = i
  /\ ap' = TRUE
  /\ UNCHANGED <<state, pending, noauto, profVars, retryMsg, retryTimer, ipTimer, fwVars, staIdx,
                 stray, ipVars, denoiseVars>>

(* Whether or not the access point runs. *)
ap_stop ==
  /\ RecvOnly("AP_STOP")
  /\ fwVif' = [fwVif EXCEPT ![apIdx] = "none"]
  /\ apIdx' = 0
  /\ ap' = FALSE
  /\ stray' = (stray \/ ~ap)
  /\ UNCHANGED <<state, pending, noauto, profVars, retryMsg, retryTimer, ipTimer, fwVars, staIdx,
                 ipVars, denoiseVars>>

(* Enabled by an application or by the trigger, with IP only; the first    *)
(* time starts a chain of delayed triggers.                                *)
denoise ==
  /\ \/ \E ev \in {"DENOISE_ON", "TRIGGER"} :
          /\ RecvOnly(ev)
          /\ IF state = "IPYes" /\ ~auto_repeat
               THEN /\ triggers < MaxTriggers
                    /\ auto_repeat' = TRUE
                    /\ triggers' = triggers + 1
               ELSE UNCHANGED <<auto_repeat, triggers>>
     \/ /\ RecvOnly("DENOISE_OFF")
        /\ auto_repeat' = FALSE
        /\ UNCHANGED triggers
  /\ UNCHANGED <<state, pending, noauto, profVars, retryMsg, retryTimer, ipTimer, fwVars, vifVars,
                 ipVars>>

(* Requests the manager only forwards to the driver: power saving, raw     *)
(* frames, channel, configuration, temperature.                            *)
forward ==
  /\ RecvOnly("OTHER")
  /\ UNCHANGED <<state, pending, noauto, profVars, retryMsg, retryTimer, ipTimer, fwVars, vifVars,
                 ipVars, denoiseVars>>

(* An event no guard of the current state or of stateGlobal accepts; a     *)
(* second access point, or one whose interface could not be added.         *)
Ignored(m) ==
  \/ m.ev = "WAKEUP"
  \/ m.ev = "DISCONNECT" /\ state \notin {"Connecting", "IPNo", "IPYes"}
  \/ m.ev = "IND_CONNECTED" /\ state # "Connecting"
  \/ m.ev = "IND_DISCONNECT" /\ state \notin {"Connecting"} \cup LinkedStates
  \/ m.ev = "RECONNECT" /\ state # "Disconnect"
  \/ m.ev = "IDLE" /\ state \notin {"Sniffer", "Disconnect"}
  \/ m.ev = "SNIFFER" /\ state # "Idle"
  \/ m.ev = "PHY_UP"
  \/ m.ev = "AP_START"

ignore ==
  /\ mpc = "recv" /\ mq # <<>> /\ Ignored(Head(mq))
  /\ mpc' = "pending"
  /\ mq' = Tail(mq)
  /\ UNCHANGED <<state, pending, noauto, profVars, retryMsg, retryTimer, ipTimer, fwVars, vifVars,
                 ipVars, ipv4, denoiseVars, calls, lost>>

-----------------------------------------------------------------------------
(* handle_pending_task, after every message. *)

(* A pending connect discards what is known about addresses. *)
pending_connect ==
  /\ "CONNECT" \in pending
  /\ pending' = pending \ {"IP_UPDATE", "IP_GOT"}
  /\ mpc' = "recv"
  /\ UNCHANGED <<state, mq, ipTimer, ipVars, auto_repeat, lost>>

pending_ip_update ==
  /\ "CONNECT" \notin pending
  /\ "IP_UPDATE" \in pending
  /\ LET bits == pending \ {"IP_UPDATE"}
     IN IF state = "IPYes"
          THEN stateConnectedIPYes_exit /\ stateConnectedIPNoEnter(mq, bits)
          ELSE pending' = bits /\ UNCHANGED <<state, mq, ipTimer, ipVars, auto_repeat, lost>>
  /\ UNCHANGED mpc

(* stateConnectedIPYes_enter: the scan that was pending is sent. *)
pending_ip_got ==
  /\ pending \cap {"CONNECT", "IP_UPDATE"} = {}
  /\ "IP_GOT" \in pending
  /\ IF state = "IPNo"
       THEN /\ state' = "IPYes"
            /\ ipTimer' = FALSE
            /\ pending' = pending \ {"IP_GOT", "SCAN"}
       ELSE pending' = pending \ {"IP_GOT"} /\ UNCHANGED <<state, ipTimer>>
  /\ UNCHANGED <<mpc, mq, ipVars, auto_repeat, lost>>

pending_none ==
  /\ pending \cap {"CONNECT", "IP_UPDATE", "IP_GOT"} = {}
  /\ mpc' = "recv"
  /\ UNCHANGED <<state, mq, pending, ipTimer, ipVars, auto_repeat, lost>>

handle_pending_task ==
  /\ mpc = "pending"
  /\ pending_connect \/ pending_ip_update \/ pending_ip_got \/ pending_none
  /\ UNCHANGED <<noauto, profVars, retryMsg, retryTimer, fwVars, vifVars, ipv4, triggers,
                 calls>>

-----------------------------------------------------------------------------
(* The timer task. *)

ip_obtaining_timeout ==
  /\ ipTimer
  /\ ipTimer' = FALSE
  /\ wifi_mgmr_event_notify(mq, Msg("FW_DISCONNECT"))
  /\ UNCHANGED <<state, mpc, pending, noauto, profVars, retryMsg, retryTimer, fwVars, vifVars,
                 ipVars, ipv4, denoiseVars, calls>>

(* Choose the profile to reconnect with: the pending one, which becomes    *)
(* the default, or the default one.  A missing profile aborts the retry.   *)
disconnect_retry ==
  /\ retryTimer
  /\ retryTimer' = FALSE
  /\ LET i == RetryIndex
     IN /\ pending' = pending \ {"CONNECT"}
        /\ IF profiles[i] = NoProfile
             THEN UNCHANGED <<profiles, active, ttl, retryMsg, mq, lost>>
             ELSE /\ retryMsg' = profiles[i]
                  /\ profiles' = NewDefault(i)
                  /\ active' = IF i = 1 THEN set_active_1(active) ELSE active
                  /\ ttl' = IF i = 1 THEN ReconnectTtl ELSE ttl
                  /\ wifi_mgmr_event_notify(mq, Msg("RECONNECT"))
  /\ UNCHANGED <<state, mpc, noauto, ipTimer, fwVars, vifVars, ipVars, ipv4, denoiseVars,
                 calls>>

trigger_auto_denoise ==
  /\ triggers > 0
  /\ IF auto_repeat THEN mq' = Post(mq, Msg("TRIGGER")) /\ UNCHANGED triggers
     ELSE triggers' = triggers - 1 /\ UNCHANGED mq
  /\ UNCHANGED <<state, mpc, pending, noauto, profVars, retryMsg, retryTimer, ipTimer, fwVars,
                 vifVars, ipVars, ipv4, auto_repeat, calls, lost>>

-----------------------------------------------------------------------------
(* The firmware's station and the TCP/IP thread. *)

(* A join succeeds or fails, a link is lost or ended: one indication each. *)
cb_connect_ind ==
  /\ fw = "joining"
  /\ \/ fw' = "up" /\ wifi_mgmr_event_notify(mq, Msg("IND_CONNECTED"))
     \/ fw' = "off" /\ wifi_mgmr_event_notify(mq, Msg("IND_DISCONNECT"))
  /\ UNCHANGED <<state, mpc, pending, noauto, profVars, retryMsg, retryTimer, ipTimer, target,
                 vifVars, ipVars, ipv4, denoiseVars, calls>>

(* The link has ended: first the manager is told, and then, in a step of   *)
(* its own, the address is reset.                                          *)
cb_disconnect_ind ==
  /\ fw \in {"up", "leaving"}
  /\ fw' = "gone"
  /\ wifi_mgmr_event_notify(mq, Msg("IND_DISCONNECT"))
  /\ UNCHANGED <<state, mpc, pending, noauto, profVars, retryMsg, retryTimer, ipTimer, target,
                 vifVars, ipVars, ipv4, denoiseVars, calls>>

(* Mutant: the callback forgets to wake the manager. *)
netif_status_callback_Silent(bit) == pending' = pending \cup {bit} /\ UNCHANGED mq

(* Mutant: only addresses are reported, not their loss. *)
netif_status_callback_OnlyGot(bit) ==
  /\ pending' = pending \cup ({bit} \cap {"IP_GOT"})
  /\ mq' = Wakeups(mq, 1)

(* netif_status_callback: set the bit, wake the manager. *)
netif_status_callback(bit) ==
  /\ pending' = pending \cup {bit}
  /\ mq' = Wakeups(mq, 1)

(* bl_rx_sm_disconnect_ind after the callback: the link goes down and the  *)
(* address is reset, which is reported if there was one; DHCP goes on.     *)
(* The same task confirms the next bl_main_connect, so a join that finds   *)
(* the station "gone" (there is no address then) has waited for this.      *)
rx_sm_disconnect_ind ==
  /\ fw = "gone"
  /\ fw' = "off"
  /\ addr' = "none"
  /\ IF addr # "none" THEN netif_status_callback("IP_UPDATE") ELSE UNCHANGED <<pending, mq>>
  /\ UNCHANGED <<state, mpc, noauto, profVars, retryMsg, retryTimer, ipTimer, target, vifVars,
                 dhcp, ipv4, denoiseVars, calls, lost>>

(* An answer may still be handled when the link has already ended. *)
dhcp_bound ==
  /\ dhcp /\ addr # "dhcp"
  /\ addr' = "dhcp"
  /\ netif_status_callback("IP_GOT")
  /\ UNCHANGED <<state, mpc, noauto, profVars, retryMsg, retryTimer, ipTimer, fwVars, vifVars,
                 dhcp, ipv4, denoiseVars, calls, lost>>

dhcp_lease_lost ==
  /\ dhcp /\ addr = "dhcp"
  /\ ShortLease \/ "IP_GOT" \notin pending
  /\ addr' = "none"
  /\ netif_status_callback("IP_UPDATE")
  /\ UNCHANGED <<state, mpc, noauto, profVars, retryMsg, retryTimer, ipTimer, fwVars, vifVars,
                 dhcp, ipv4, denoiseVars, calls, lost>>

-----------------------------------------------------------------------------
(* The applications. *)

(* wifi_mgmr_sta_ip_set and wifi_mgmr_sta_ip_unset. *)
sta_ip_set(ip) ==
  /\ ipv4' = ip
  /\ pending' = pending \cup {"IP_UPDATE"}
  /\ mq' = Wakeups(mq, 1)

sta_connect(p) ==
  /\ mq' = Post(mq, [ev |-> "CONNECT", prof |-> p])
  /\ UNCHANGED <<ipv4, pending>>

(* wifi_mgmr_api_common and wifi_mgmr_api_common_msg. *)
api_common(op) ==
  /\ mq' = Post(mq, Msg(op))
  /\ UNCHANGED <<ipv4, pending>>

App(op) ==
  /\ calls < MaxCalls
  /\ calls' = calls + 1
  /\ CASE op = "IP_SET" -> \E ip \in StaticIp : sta_ip_set(ip)
       [] op = "IP_UNSET" -> sta_ip_set("none")
       [] op = "CONNECT" -> \E p \in Profile : sta_connect(p)
       [] OTHER -> api_common(op)
  /\ UNCHANGED <<state, mpc, noauto, profVars, retryMsg, retryTimer, ipTimer, fwVars, vifVars,
                 ipVars, denoiseVars, lost>>

Init ==
  /\ state = "IfaceDown" /\ mpc = "recv"
  /\ mq = <<Msg("PHY_UP")>>
  /\ pending = {} /\ noauto = FALSE
  /\ profiles = [i \in 0..1 |-> NoProfile]
  /\ active = 0 /\ ttl = -1
  /\ retryMsg = NoProfile /\ retryTimer = FALSE /\ ipTimer = FALSE
  /\ fw = "off" /\ target = NoProfile
  /\ fwVif = [i \in 0..1 |-> "none"]
  /\ staIdx = 0 /\ apIdx = 0 /\ ap = FALSE
  /\ addr = "none" /\ dhcp = FALSE /\ ipv4 = "none"
  /\ auto_repeat = FALSE /\ triggers = 0
  /\ calls = 0
  /\ lost = FALSE /\ stray = FALSE

Manager ==
  \/ connect_pending \/ connect_start \/ connect_refused \/ ind_connected \/ ind_join_failed
  \/ ind_link_lost \/ reconnect \/ disconnect_joining \/ disconnect_linked \/ fw_disconnect
  \/ idle \/ disable_autoreconnect \/ enable_autoreconnect \/ fw_scan \/ sniffer \/ phy_up \/ ap_start \/ ap_stop \/ denoise
  \/ forward \/ ignore \/ handle_pending_task

Timers == ip_obtaining_timeout \/ disconnect_retry \/ trigger_auto_denoise
Station == cb_connect_ind \/ cb_disconnect_ind \/ rx_sm_disconnect_ind
TcpIp == dhcp_bound \/ dhcp_lease_lost

Next == Manager \/ Timers \/ Station \/ TcpIp \/ \E op \in AppOp : App(op)

Spec == Init /\ [][Next]_vars

(* The scheduler runs the manager, timers expire, and the firmware ends    *)
(* what it was asked to do: a join, and a disconnection.                   *)
FairSpec ==
  /\ Spec
  /\ WF_vars(Manager)
  /\ WF_vars(ip_obtaining_timeout) /\ WF_vars(disconnect_retry)
  /\ WF_vars(cb_connect_ind) /\ WF_vars(fw = "leaving" /\ cb_disconnect_ind)

-----------------------------------------------------------------------------
FlagsOK ==
  /\ noauto \in BOOLEAN /\ retryTimer \in BOOLEAN /\ ipTimer \in BOOLEAN
  /\ ap \in BOOLEAN /\ dhcp \in BOOLEAN /\ auto_repeat \in BOOLEAN
  /\ lost \in BOOLEAN /\ stray \in BOOLEAN

QueueOK == mq \in Seq(Message) /\ Len(mq) <= MqCount

DataOK ==
  /\ state \in State /\ mpc \in {"recv", "pending"}
  /\ pending \subseteq {"CONNECT", "SCAN", "IP_UPDATE", "IP_GOT"}
  /\ profiles \in [0..1 -> Profile \cup {NoProfile}] /\ active \in 0..1
  /\ ttl \in Int /\ ttl >= -1
  /\ retryMsg \in Profile \cup {NoProfile} /\ target \in Profile \cup {NoProfile}
  /\ fw \in {"off", "joining", "up", "leaving", "gone"}
  /\ fwVif \in [0..1 -> {"none", "STA", "AP"}] /\ staIdx \in 0..1 /\ apIdx \in 0..1
  /\ addr \in StaticIp \cup {"none", "dhcp"} /\ ipv4 \in StaticIp \cup {"none"}
  /\ triggers \in 0..MaxTriggers /\ calls \in 0..MaxCalls

(* Types; the queue holds no more than WIFI_MGMR_MQ_MSG_COUNT messages. *)
TypeOK == QueueOK /\ DataOK /\ FlagsOK

(* The manager's state and the firmware's station never drift apart, as    *)
(* long as the queue has dropped no indication: where they differ, the     *)
(* indication that reconciles them is in the queue.                        *)
StateFollowsFw ==
  ~lost =>
    /\ fw = "joining" => state = "Connecting"
    /\ fw = "up" => state \in {"IPNo", "IPYes"} \/ Queued("IND_CONNECTED")
    /\ fw = "leaving" => state \in {"Connecting", "IPNo", "IPYes"}
    /\ fw \in {"gone", "off"} /\ state \in {"Connecting", "IPNo", "IPYes"} =>
         Queued("IND_DISCONNECT")

(* stateDisconnect_exit and stateConnectedIPNoExit leave no timer behind   *)
(* that would fire in another state and act on its behalf.                 *)
TimersMatchState == (ipTimer => state = "IPNo") /\ (retryTimer => state = "Disconnect")

(* Something always takes the manager out of Disconnect: the retry timer,  *)
(* the reconnect it posted, or the request to become idle; "retry Abort"   *)
(* in disconnect_retry is never reached.                                   *)
NeverStranded ==
  state = "Disconnect" /\ ~lost => retryTimer \/ Queued("RECONNECT") \/ Queued("IDLE")

(* ap_info_ttl_curr counts down the hint of the profile in use, never what *)
(* was left of another one's.                                              *)
TtlFresh == ttl # -1 => ttl <= profiles[0].ttl

(* What the timer task prepared is still right when the manager reconnects *)
(* with it, whatever it has handled in between: the profile it copied is   *)
(* the default one, and the hint's counter is that profile's.              *)
RetryUsesDefault ==
  /\ state = "Disconnect" /\ Queued("RECONNECT") => retryMsg = profiles[0]
  /\ TtlFresh

(* The address and the DHCP client outlive no connection, nor does         *)
(* denoising the address: "only enable denoise with IP OK".                *)
EndsWithLink ==
  /\ addr # "none" \/ dhcp => state \in {"IPNo", "IPYes"}
  /\ auto_repeat => state = "IPYes"

(* The manager says "got IP" only with an address, unless it is            *)
(* disconnecting or what will correct it is on its way: the bit, or, when  *)
(* the reset at the end of the link overtook the report of the address,    *)
(* the indication of that end (or it was dropped at a full queue).         *)
IPYesHasAddress ==
  state = "IPYes" /\ "CONNECT" \notin pending =>
    \/ addr # "none" \/ "IP_UPDATE" \in pending
    \/ fw = "off" /\ (Queued("IND_DISCONNECT") \/ lost)

(* A bit set by another task is never left without a message that makes    *)
(* the manager look at it, even when the wake-up met a full queue.         *)
WakeupNotLost ==
  pending \cap {"IP_UPDATE", "IP_GOT"} # {} => mq # <<>> \/ mpc = "pending"

(* The interfaces the manager relies on exist in the firmware at the       *)
(* recorded indices, and an idle manager has left no station behind.       *)
VifIntact ==
  /\ state \in {"Connecting", "IPNo", "IPYes", "Disconnect"} => fwVif[staIdx] = "STA"
  /\ state \in {"Idle", "Sniffer"} => \A i \in 0..1 : fwVif[i] # "STA"
  /\ ap => fwVif[apIdx] = "AP"

(* They do as long as the access point is stopped only while it runs. *)
VifIntactUnlessStray == stray \/ VifIntact

(* A connect request that had to wait for the end of the present           *)
(* connection is carried out, unless the queue drops an internal message   *)
(* or an application makes the manager idle before its retry timer fires:  *)
(* the bit then stays set, since only disconnect_retry clears it.          *)
PendingConnectServed ==
  "CONNECT" \in pending ~> "CONNECT" \notin pending \/ lost \/ state = "Idle"

(* Auto-reconnect: a disconnected station tries again, unless the queue    *)
(* drops an internal message or holds a request to give up, made by an     *)
(* application or by the manager where auto-reconnect is disabled.         *)
Reconnects ==
  state = "Disconnect" ~> state = "Connecting" \/ lost \/ Queued("IDLE") \/ Queued("DISABLE")

=============================================================================
