------------------------------ MODULE ScanSet -------------------------------
(***************************************************************************)
(* What the scan table promises, without slots, order or a wrapping clock: *)
(* the access points heard recently on a permitted channel, at most        *)
(* Capacity of them, each with its best recent beacon; when there are      *)
(* more, a weakest one makes room for a stronger one.                      *)
(***************************************************************************)
EXTENDS Integers, FiniteSets

CONSTANTS
  Beacon,     \* beacons: [ap, channel, rssi]
  Capacity,   \* entries kept
  MaxAge      \* age after which an entry is forgotten

VARIABLES
  known,      \* entries: [ap, channel, rssi, seen]
  now,        \* time
  nums        \* channels 1..nums are permitted

vars == <<known, now, nums>>

Entry(b) == [ap |-> b.ap, channel |-> b.channel, rssi |-> b.rssi, seen |-> now]

(* What is left when the old and the forbidden entries are gone. *)
Live == {x \in known : now - x.seen <= MaxAge /\ x.channel <= nums}

(* A known access point: only a beacon as strong as the best one counts. *)
Refresh(live, b) ==
  \E x \in live :
    /\ x.ap = b.ap
    /\ known' = IF b.rssi >= x.rssi THEN (live \ {x}) \cup {Entry(b)} ELSE live

Add(live, b) ==
  /\ Cardinality(live) < Capacity
  /\ known' = live \cup {Entry(b)}

(* No room: a weakest entry goes, if the new one is stronger. *)
Replace(live, b) ==
  /\ Cardinality(live) = Capacity
  /\ \E x \in live :
       /\ \A y \in live : x.rssi <= y.rssi
       /\ known' = IF b.rssi > x.rssi THEN (live \ {x}) \cup {Entry(b)} ELSE live

Hear ==
  /\ UNCHANGED <<now, nums>>
  /\ LET live == Live
     IN \E b \in Beacon :
          /\ b.channel \in 1..nums
          /\ IF \E x \in live : x.ap = b.ap THEN Refresh(live, b)
             ELSE Add(live, b) \/ Replace(live, b)

(* Time passes; the permitted channels change. *)
Environment == known' = known /\ now' >= now

Init == known = {} /\ now \in Nat /\ nums \in Nat

Next == Hear \/ Environment

Spec == Init /\ [][Next]_vars

=============================================================================
