----------------------------- MODULE ScanTable ------------------------------
(***************************************************************************)
(* The table of scan results (wifi_mgmr.c, wifi_mgmr_scan_beacon_save):    *)
(* a fixed array that every beacon indication cleans, updates and sorts    *)
(* under a mutex, and that applications read without it.                   *)
(*                                                                         *)
(* Saving a beacon is one step, since all writers hold the mutex.  Looking *)
(* up a network takes two: the index is found, and later used.  The clock  *)
(* is the 32-bit millisecond counter and wraps.                            *)
(***************************************************************************)
EXTENDS Integers, FiniteSetsExt

CONSTANTS
  Ap,           \* access points: a bssid with its ssid
  NoAp,         \* an empty slot's access point
  Hidden,       \* those that hide their ssid
  Ssid,         \* names, and the name of each access point
  SsidOf,
  Rssi,         \* signal strengths
  Channel,      \* channels of received beacons
  Countries,    \* channel_num of the supported countries
  Slots,        \* WIFI_MGMR_SCAN_ITEMS_MAX
  Limit,        \* SCAN_UPDATE_LIMIT_TIME_MS
  Timeout,      \* WIFI_MGMR_CONFIG_SCAN_ITEM_TIMEOUT
  ClockMod,     \* 2^32
  Start,        \* the time of initialisation
  MaxTime       \* bound: the time at which behaviours end

ASSUME ScanAssumption ==
  /\ NoAp \notin Ap /\ Hidden \subseteq Ap
  /\ SsidOf \in [Ap -> Ssid]
  /\ Rssi \subseteq Int /\ Channel \subseteq Nat /\ Countries \subseteq Nat \ {0}
  /\ {Slots, Limit, Timeout, ClockMod} \subseteq Nat \ {0}
  /\ Start \in Nat /\ MaxTime \in Nat /\ MaxTime - Start \in 0 .. ClockMod - 1

VARIABLES
  scan_items,   \* wifiMgmr.scan_items
  channel_nums, \* wifiMgmr.channel_nums
  saveHidden,   \* WIFI_MGMR_FEATURES_SCAN_SAVE_HIDDEN_SSID
  now,          \* time; the code sees its residue
  lookup        \* the index wifi_mgmr_scan_ap has found, 0 outside of it

vars == <<scan_items, channel_nums, saveHidden, now, lookup>>

Slot == 1..Slots
Beacon == [ap : Ap, channel : Channel, rssi : Rssi]

(* wifi_mgmr_scan_item_t. *)
Item == [is_used : BOOLEAN, ap : Ap \cup {NoAp}, channel : Channel \cup {0},
         rssi : Rssi \cup {0}, lastseen : 0 .. ClockMod - 1]

(* A slot after memset. *)
Empty == [is_used |-> FALSE, ap |-> NoAp, channel |-> 0, rssi |-> 0, lastseen |-> 0]

(* bflb_os_get_time_ms. *)
TimeMs == now % ClockMod

(* Mutant: signed ages, wrong when the counter wraps. *)
Age_Signed(item) == TimeMs - item.lastseen

(* The difference of two unsigned counters. *)
Age(item) == (TimeMs - item.lastseen) % ClockMod

-----------------------------------------------------------------------------
(* wifi_mgmr_scan_beacon_save. *)

(* The slots whose items are dropped before anything else. *)
Dropped(item) ==
  \/ item.channel > channel_nums
  \/ item.is_used /\ Age(item) > Limit

Cleaned == [i \in Slot |-> IF Dropped(scan_items[i]) THEN Empty ELSE scan_items[i]]

(* pos_empty, pos_same_ssid and pos_rssi over cleaned items. *)
Free(items) == {i \in Slot : ~items[i].is_used}
Same(items, b) == {i \in Slot : items[i].is_used /\ items[i].ap = b.ap}
Weaker(x, y) == x.rssi < y.rssi \/ (x.rssi = y.rssi /\ x.lastseen < y.lastseen)
Weakest(items) ==
  CHOOSE i \in Slot : \A j \in Slot \ {i} :
    \/ Weaker(items[i], items[j])
    \/ i < j /\ ~Weaker(items[j], items[i])

NewItem(b) ==
  [is_used |-> TRUE, ap |-> b.ap, channel |-> b.channel, rssi |-> b.rssi, lastseen |-> TimeMs]

(* Update the item of the same access point if the beacon is as strong;    *)
(* else take an empty slot; else the weakest one's if it is stronger.      *)
Stored(items, b) ==
  CASE Same(items, b) # {} ->
         LET i == Max(Same(items, b))
         IN IF b.rssi >= items[i].rssi THEN [items EXCEPT ![i] = NewItem(b)] ELSE items
    [] Same(items, b) = {} /\ Free(items) # {} ->
         [items EXCEPT ![Max(Free(items))] = NewItem(b)]
    [] Same(items, b) = {} /\ Free(items) = {} ->
         LET i == Weakest(items)
         IN IF b.rssi > items[i].rssi THEN [items EXCEPT ![i] = NewItem(b)] ELSE items

OutOfOrder(x, y) == y.is_used /\ (~x.is_used \/ x.rssi < y.rssi)

(* The bubble sort: pass i orders the first Slots - i pairs. *)
SwapIfNeeded(items, j) ==
  IF OutOfOrder(items[j], items[j + 1])
    THEN [items EXCEPT ![j] = items[j + 1], ![j + 1] = items[j]]
    ELSE items

(* Mutant: one pair too few in each pass. *)
BubblePass_Short(items, i) ==
  LET after[j \in 0 .. Slots - i - 1] ==
        IF j = 0 THEN items ELSE SwapIfNeeded(after[j - 1], j)
  IN after[Slots - i - 1]

BubblePass(items, i) ==
  LET after[j \in 0 .. Slots - i] ==
        IF j = 0 THEN items ELSE SwapIfNeeded(after[j - 1], j)
  IN after[Slots - i]

Sort(items) ==
  LET after[i \in 0 .. Slots - 1] ==
        IF i = 0 THEN items ELSE BubblePass(after[i - 1], i)
  IN after[Slots - 1]

(* A beacon is taken on a permitted channel, and hidden only if wanted. *)
Accepted(b) == b.channel \in 1..channel_nums /\ (b.ap \in Hidden => saveHidden)

wifi_mgmr_scan_beacon_save(b) ==
  /\ Accepted(b)
  /\ scan_items' = Sort(Stored(Cleaned, b))
  /\ UNCHANGED <<channel_nums, saveHidden, now, lookup>>

-----------------------------------------------------------------------------
(* Configuration, in the manager and in any task. *)

set_country_code(n) ==
  /\ n \in Countries
  /\ channel_nums' = n
  /\ UNCHANGED <<scan_items, saveHidden, now, lookup>>

scan_filter_hidden_ssid(filter) ==
  /\ saveHidden' = ~filter
  /\ UNCHANGED <<scan_items, channel_nums, now, lookup>>

(* Readers, without the mutex. *)

wifi_mgmr_scan_item_is_timeout(item) == Age(item) >= Timeout

Listed(i) == scan_items[i].is_used /\ ~wifi_mgmr_scan_item_is_timeout(scan_items[i])

Matches(ssid) == {i \in Slot : Listed(i) /\ SsidOf[scan_items[i].ap] = ssid}

(* The loop breaks at the first match. *)
FirstMatch(ssid) == IF Matches(ssid) = {} THEN 0 ELSE Min(Matches(ssid))

(* wifi_mgmr_scan_ap, up to the end of its loop. *)
scan_ap_find(ssid) ==
  /\ lookup = 0
  /\ lookup' = FirstMatch(ssid)
  /\ UNCHANGED <<scan_items, channel_nums, saveHidden, now>>

(* It copies scan_items[index] as it is by now and returns. *)
scan_ap_copy ==
  /\ lookup # 0
  /\ lookup' = 0
  /\ UNCHANGED <<scan_items, channel_nums, saveHidden, now>>

Tick ==
  /\ now < MaxTime
  /\ now' = now + 1
  /\ UNCHANGED <<scan_items, channel_nums, saveHidden, lookup>>

Init ==
  /\ scan_items = [i \in Slot |-> Empty]
  /\ channel_nums \in Countries
  /\ saveHidden = FALSE
  /\ now = Start
  /\ lookup = 0

Next ==
  \/ \E b \in Beacon : wifi_mgmr_scan_beacon_save(b)
  \/ \E n \in Countries : set_country_code(n)
  \/ \E filter \in BOOLEAN : scan_filter_hidden_ssid(filter)
  \/ \E ssid \in Ssid : scan_ap_find(ssid)
  \/ scan_ap_copy
  \/ Tick

Spec == Init /\ [][Next]_vars

-----------------------------------------------------------------------------
(* Types. *)
TypeOK ==
  /\ scan_items \in [Slot -> Item]
  /\ channel_nums \in Countries /\ saveHidden \in BOOLEAN
  /\ now \in Start..MaxTime
  /\ lookup \in 0..Slots

(* "sort scan results according to rssi. The empty item placed in the end  *)
(* of the list": after every beacon, whatever was dropped or overwritten,  *)
(* and no access point has two items.                                      *)
Ranked ==
  \A i, j \in Slot : i < j /\ scan_items[j].is_used =>
    /\ scan_items[i].is_used
    /\ scan_items[i].rssi >= scan_items[j].rssi
    /\ scan_items[i].ap # scan_items[j].ap

(* "found ap with better rssi": the first match, where a look-up stops, is *)
(* the strongest access point of that name that has not timed out.         *)
FindsStrongest ==
  \A ssid \in Ssid : \A i \in Matches(ssid) :
    scan_items[i].rssi <= scan_items[FirstMatch(ssid)].rssi

(* What readers of the table rely on between two beacons, although they    *)
(* take no mutex: used items come first, strongest first, each access      *)
(* point once, and the first match of a name is the one to take.           *)
WellFormed == TypeOK /\ Ranked /\ FindsStrongest

(* The array with its slots, its order and its wrapping timestamps is the  *)
(* set of entries that ScanSet describes.                                  *)
Known ==
  {[ap |-> x.ap, channel |-> x.channel, rssi |-> x.rssi, seen |-> now - Age(x)] :
     x \in {scan_items[i] : i \in {k \in Slot : scan_items[k].is_used}}}

Abstract == INSTANCE ScanSet WITH
  known <- Known, nums <- channel_nums, Capacity <- Slots, MaxAge <- Limit

(* The table implements the set of best recent beacons. *)
ImplementsScanSet == Abstract!Spec

=============================================================================
