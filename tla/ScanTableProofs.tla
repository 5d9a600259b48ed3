--------------------------- MODULE ScanTableProofs ---------------------------
(***************************************************************************)
(* Proofs about ScanTable, for any number of slots, access points,         *)
(* strengths, channels and countries and any clock.  The sort is two       *)
(* nested recursions; what they compute is shown by induction over sets of *)
(* numbers, each of which has a least element.                             *)
(***************************************************************************)
EXTENDS ScanTable, TLAPS, FiniteSetTheorems, WellFoundedInduction

-----------------------------------------------------------------------------
(* Induction and recursion up to a bound. *)

(* A nonempty set of naturals has a least element. *)
LEMMA LeastNat ==
  ASSUME NEW S \in SUBSET Nat, S # {}
  PROVE  \E x \in S : \A y \in S : x <= y
<1>1. PICK x \in S : \A y \in S : ~(<<y, x>> \in OpToRel(<, Nat))
  BY NatLessThanWellFounded, WFMin
<1>2. ASSUME NEW y \in S PROVE x <= y
  <2>1. y < x => <<y, x>> \in OpToRel(<, Nat)
    BY DEF OpToRel
  <2>2. ~(y < x)
    BY <1>1, <2>1, Zenon
  <2> QED
    BY <2>2
<1> QED
  BY <1>2

(* A set that holds 0 and each number with its predecessor holds them all. *)
LEMMA UpTo ==
  ASSUME NEW n \in Nat, NEW S, 0 \in S, \A j \in 1 .. n : j - 1 \in S => j \in S
  PROVE  \A j \in 0 .. n : j \in S
<1> DEFINE T == {j \in 0 .. n : j \notin S}
<1> SUFFICES ASSUME T # {} PROVE FALSE
  OBVIOUS
<1>1. PICK x \in T : \A y \in T : x <= y
  <2>1. T \in SUBSET Nat
    OBVIOUS
  <2> QED
    BY <2>1, LeastNat
<1>2. x \in 1 .. n /\ x - 1 \in 0 .. n /\ ~(x <= x - 1)
  <2>1. x \in 0 .. n /\ x # 0
    BY <1>1
  <2> QED
    BY <2>1
<1>3. x - 1 \in S
  BY <1>1, <1>2
<1> QED
  BY <1>1, <1>2, <1>3

(* g takes k steps of F from a. *)
Solves(g, k, a, F) == g[0] = a /\ \A j \in 1 .. k : g[j] = F[<<j, g[j - 1]>>]

(* A recursion up to a bound has a solution. *)
LEMMA Recursion ==
  ASSUME NEW n \in Nat, NEW T, NEW a \in T, NEW F \in [(1 .. n) \X T -> T]
  PROVE  \E g \in [0 .. n -> T] : Solves(g, n, a, F)
<1> DEFINE S == {k \in 0 .. n : \E g \in [0 .. k -> T] : Solves(g, k, a, F)}
<1>1. 0 \in S
  <2> DEFINE g == [j \in 0 .. 0 |-> a]
  <2>1. g \in [0 .. 0 -> T] /\ g[0] = a
    OBVIOUS
  <2> HIDE DEF g
  <2>2. \A j \in 1 .. 0 : g[j] = F[<<j, g[j - 1]>>]
    OBVIOUS
  <2> QED
    BY <2>1, <2>2 DEF Solves
<1>2. ASSUME NEW k \in 1 .. n, k - 1 \in S PROVE k \in S
  <2>1. PICK g \in [0 .. k - 1 -> T] : Solves(g, k - 1, a, F)
    BY <1>2
  <2>2. F[<<k, g[k - 1]>>] \in T
    OBVIOUS
  <2> DEFINE h == [j \in 0 .. k |-> IF j = k THEN F[<<k, g[k - 1]>>] ELSE g[j]]
  <2>3. \A j \in 0 .. k : h[j] = IF j = k THEN F[<<k, g[k - 1]>>] ELSE g[j]
    OBVIOUS
  <2>4. h \in [0 .. k -> T]
    BY <2>2
  <2> HIDE DEF h
  <2>5. h[0] = a
    BY <2>1, <2>3 DEF Solves
  <2>6. ASSUME NEW j \in 1 .. k PROVE h[j] = F[<<j, h[j - 1]>>]
    <3>1. j - 1 \in 0 .. k /\ j - 1 # k /\ h[j - 1] = g[j - 1]
      BY <2>3
    <3>2. CASE j = k
      BY <2>3, <3>1, <3>2
    <3>3. CASE j # k
      <4>1. j \in 1 .. k - 1
        BY <3>3
      <4> QED
        BY <2>1, <2>3, <3>1, <4>1 DEF Solves
    <3> QED
      BY <3>2, <3>3
  <2>7. Solves(h, k, a, F)
    BY <2>5, <2>6 DEF Solves
  <2> QED
    BY <2>4, <2>7
<1> HIDE DEF S
<1>3. n \in S
  BY <1>1, <1>2, UpTo
<1> QED
  BY <1>3 DEF S

-----------------------------------------------------------------------------
(* The sort. *)

Items == [Slot -> Item]

(* f goes from items by one step after the other. *)
Swaps(f, items, n) ==
  /\ f \in [0 .. n -> Items] /\ f[0] = items
  /\ \A j \in 1 .. n : f[j] = SwapIfNeeded(f[j - 1], j)

(* Swapping two items gives items again. *)
LEMMA SwapItems ==
  ASSUME NEW items \in Items, NEW j \in Slot, j + 1 \in Slot
  PROVE  SwapIfNeeded(items, j) \in Items
  BY DEF SwapIfNeeded, Items

(* A pass is its swaps, one after the other. *)
LEMMA PassIs ==
  ASSUME NEW items \in Items, NEW i \in 1 .. Slots - 1
  PROVE  \E f : Swaps(f, items, Slots - i) /\ BubblePass(items, i) = f[Slots - i]
<1> DEFINE n == Slots - i
           after[j \in 0 .. n] == IF j = 0 THEN items ELSE SwapIfNeeded(after[j - 1], j)
<1>1. n \in Nat /\ \A j \in 1 .. n : j \in Slot /\ j + 1 \in Slot
  BY ScanAssumption DEF Slot
<1>2. BubblePass(items, i) = after[n]
  BY DEF BubblePass
<1>3. PICK F : F = [p \in (1 .. n) \X Items |-> SwapIfNeeded(p[2], p[1])]
  OBVIOUS
<1>4. \A j \in 1 .. n, x \in Items : F[<<j, x>>] = SwapIfNeeded(x, j)
  BY <1>3
<1>5. F \in [(1 .. n) \X Items -> Items]
  <2>1. ASSUME NEW p \in (1 .. n) \X Items PROVE SwapIfNeeded(p[2], p[1]) \in Items
    BY <1>1, SwapItems
  <2> QED
    BY <1>3, <2>1
<1> HIDE DEF n
<1>6. PICK g \in [0 .. n -> Items] : Solves(g, n, items, F)
  BY <1>1, <1>5, Recursion
<1>7. \A j \in 1 .. n : g[j] = SwapIfNeeded(g[j - 1], j)
  <2> SUFFICES ASSUME NEW j \in 1 .. n PROVE g[j] = SwapIfNeeded(g[j - 1], j)
    OBVIOUS
  <2>1. j - 1 \in 0 .. n
    BY <1>1
  <2> QED
    BY <1>4, <1>6, <2>1 DEF Solves
<1>8. g = [j \in 0 .. n |-> IF j = 0 THEN items ELSE SwapIfNeeded(g[j - 1], j)]
  BY <1>1, <1>6, <1>7 DEF Solves
<1>9. after = [j \in 0 .. n |-> IF j = 0 THEN items ELSE SwapIfNeeded(after[j - 1], j)]
  BY <1>8
<1> HIDE DEF after
<1>10. after[0] = items /\ \A j \in 1 .. n : after[j] = SwapIfNeeded(after[j - 1], j)
  BY <1>1, <1>9
<1>11. \A j \in 0 .. n : after[j] \in Items
  <2> DEFINE S == {j \in 0 .. n : after[j] \in Items}
  <2>1. 0 \in S
    BY <1>1, <1>10
  <2>2. ASSUME NEW j \in 1 .. n, j - 1 \in S PROVE j \in S
    BY <1>1, <1>10, <2>2, SwapItems
  <2> HIDE DEF S
  <2>3. \A j \in 0 .. n : j \in S
    BY <1>1, <2>1, <2>2, UpTo
  <2> QED
    BY <2>3 DEF S
<1>12. after \in [0 .. n -> Items]
  BY <1>9, <1>11
<1> QED
  BY <1>2, <1>10, <1>12 DEF Swaps, n

-----------------------------------------------------------------------------
(* The order. *)

(* x may stand before y. *)
Above(x, y) == ~OutOfOrder(x, y)

(* Empty items come last, weaker ones behind stronger ones: a total order  *)
(* up to equal strengths.                                                  *)
LEMMA AboveOrder ==
  ASSUME NEW x \in Item, NEW y \in Item, NEW z \in Item
  PROVE  /\ Above(x, x) /\ (Above(x, y) \/ Above(y, x))
         /\ Above(x, y) /\ Above(y, z) => Above(x, z)
<1>1. x.rssi \in Int /\ y.rssi \in Int /\ z.rssi \in Int
  <2>1. \A v \in Item : v.rssi \in Rssi \cup {0}
    BY DEF Item
  <2>2. \A r \in Rssi \cup {0} : r \in Int
    <3>1. Rssi \subseteq Int
      BY ScanAssumption, Zenon
    <3> QED
      BY <3>1
  <2> QED
    BY <2>1, <2>2
<1>2. /\ ~(x.rssi < x.rssi) /\ ~(x.rssi < y.rssi /\ y.rssi < x.rssi)
      /\ x.rssi < z.rssi => x.rssi < y.rssi \/ y.rssi < z.rssi
  BY <1>1
<1> QED
  BY <1>2, Zenon DEF Above, OutOfOrder

Unique(items) ==
  \A k, l \in Slot : items[k].is_used /\ items[l].is_used /\ items[k].ap = items[l].ap => k = l

(* The same items in other places. *)
Alike(new, items) ==
  /\ \A k \in Slot : \E l \in Slot : new[k] = items[l]
  /\ \A k \in Slot : \E l \in Slot : items[k] = new[l]
  /\ Unique(items) => Unique(new)

(* Slot q has the last item of the first q. *)
Lowest(items, q) == \A k \in 1 .. q : Above(items[k], items[q])

(* The slots after q have their final items. *)
Settled(items, q) == \A p, k \in Slot : p > q /\ k < p => Above(items[k], items[p])

(* What a comparison and its swap leave. *)
Swapped(new, items, j) ==
  /\ new \in Items
  /\ \A k \in Slot \ {j, j + 1} : new[k] = items[k]
  /\ \/ new[j] = items[j] /\ new[j + 1] = items[j + 1]
     \/ new[j] = items[j + 1] /\ new[j + 1] = items[j]
  /\ Above(new[j], new[j + 1])

(* A comparison and its swap put the two items in order. *)
LEMMA SwapIs ==
  ASSUME NEW items \in Items, NEW j \in Slot, j + 1 \in Slot
  PROVE  Swapped(SwapIfNeeded(items, j), items, j)
<1>1. PICK new : new = SwapIfNeeded(items, j)
  OBVIOUS
<1>2. j # j + 1 /\ items[j] \in Item /\ items[j + 1] \in Item
  BY DEF Items, Slot
<1>3. CASE OutOfOrder(items[j], items[j + 1])
  <2>1. new = [items EXCEPT ![j] = items[j + 1], ![j + 1] = items[j]]
    BY <1>1, <1>3 DEF SwapIfNeeded
  <2>2. /\ new \in Items /\ \A k \in Slot \ {j, j + 1} : new[k] = items[k]
        /\ new[j] = items[j + 1] /\ new[j + 1] = items[j]
    BY <1>2, <2>1 DEF Items
  <2>3. Above(items[j + 1], items[j])
    BY <1>2, <1>3, AboveOrder DEF Above
  <2> QED
    BY <1>1, <2>2, <2>3 DEF Swapped
<1>4. CASE ~OutOfOrder(items[j], items[j + 1])
  BY <1>1, <1>4 DEF SwapIfNeeded, Swapped, Above
<1> QED
  BY <1>3, <1>4

(* A swap moves items and keeps them. *)
LEMMA SwapAlike ==
  ASSUME NEW items \in Items, NEW j \in Slot, j + 1 \in Slot, NEW new, Swapped(new, items, j)
  PROVE  Alike(new, items)
<1>1. j # j + 1
  BY DEF Slot
<1>2. ASSUME NEW k \in Slot PROVE \E l \in Slot : new[k] = items[l]
  BY DEF Swapped
<1>3. ASSUME NEW k \in Slot PROVE \E l \in Slot : items[k] = new[l]
  BY DEF Swapped
<1>4. ASSUME Unique(items) PROVE Unique(new)
  <2> SUFFICES ASSUME NEW k \in Slot, NEW l \in Slot, new[k].is_used, new[l].is_used,
                      new[k].ap = new[l].ap
               PROVE  k = l
    BY DEF Unique
  <2> DEFINE at(m) == IF new[j] = items[j] /\ new[j + 1] = items[j + 1] THEN m
                      ELSE IF m = j THEN j + 1 ELSE IF m = j + 1 THEN j ELSE m
  <2>1. \A m \in Slot : at(m) \in Slot /\ new[m] = items[at(m)]
    BY <1>1 DEF Swapped
  <2>2. at(k) = at(l)
    <3> HIDE DEF at
    <3> QED
      BY <1>4, <2>1 DEF Unique
  <2> QED
    BY <1>1, <2>2
<1> QED
  BY <1>2, <1>3, <1>4 DEF Alike

(* One comparison carries the lowest item one slot on. *)
LEMMA SwapStep ==
  ASSUME NEW items \in Items, NEW j \in Slot, j + 1 \in Slot, NEW new, Swapped(new, items, j),
         NEW q \in Slot, j + 1 <= q, Settled(items, q), Lowest(items, j)
  PROVE  Settled(new, q) /\ Lowest(new, j + 1)
<1>1. Slots \in Nat /\ Slot = 1 .. Slots
  BY ScanAssumption DEF Slot
<1>2. \A k \in Slot : items[k] \in Item /\ new[k] \in Item
  BY DEF Swapped, Items
<1>3. ASSUME NEW p \in Slot, NEW k \in Slot, p > q, k < p PROVE Above(new[k], new[p])
  <2>1. new[p] = items[p] /\ j < p /\ j + 1 < p
    BY <1>1, <1>3 DEF Swapped
  <2>2. \A l \in Slot : l < p => Above(items[l], items[p])
    BY <1>3 DEF Settled
  <2>3. \E l \in Slot : l < p /\ new[k] = items[l]
    BY <1>3, <2>1 DEF Swapped
  <2> QED
    BY <2>1, <2>2, <2>3
<1>4. ASSUME NEW k \in 1 .. j + 1 PROVE Above(new[k], new[j + 1])
  <2>1. CASE k = j + 1
    BY <1>2, <2>1, AboveOrder
  <2>2. CASE k = j
    BY <2>2 DEF Swapped
  <2>3. CASE k \in 1 .. j /\ k # j
    <3>1. k \in Slot /\ k \notin {j, j + 1} /\ new[k] = items[k]
      BY <1>1, <2>3 DEF Swapped
    <3>2. Above(items[k], items[j])
      BY <2>3 DEF Lowest
    <3>3. CASE new[j + 1] = items[j]
      BY <3>1, <3>2, <3>3
    <3>4. CASE new[j] = items[j] /\ new[j + 1] = items[j + 1]
      <4>1. Above(items[j], items[j + 1])
        BY <3>4 DEF Swapped
      <4> QED
        BY <1>2, <3>1, <3>2, <3>4, <4>1, AboveOrder
    <3> QED
      BY <3>3, <3>4 DEF Swapped
  <2> QED
    BY <1>1, <2>1, <2>2, <2>3
<1> QED
  BY <1>3, <1>4 DEF Settled, Lowest

(* Being alike is transitive. *)
LEMMA AlikeTrans ==
  ASSUME NEW a, NEW b, NEW c, Alike(a, b), Alike(b, c)
  PROVE  Alike(a, c)
<1>1. ASSUME NEW k \in Slot PROVE \E l \in Slot : a[k] = c[l]
  BY DEF Alike
<1>2. ASSUME NEW k \in Slot PROVE \E l \in Slot : c[k] = a[l]
  BY DEF Alike
<1> QED
  BY <1>1, <1>2 DEF Alike

(* A pass settles one more slot. *)
LEMMA PassSettles ==
  ASSUME NEW items \in Items, NEW i \in 1 .. Slots - 1, Settled(items, Slots - i + 1)
  PROVE  /\ BubblePass(items, i) \in Items
         /\ Settled(BubblePass(items, i), Slots - i)
         /\ Alike(BubblePass(items, i), items)
<1>1. Slots \in Nat /\ Slot = 1 .. Slots
  BY ScanAssumption DEF Slot
<1>2. PICK f : Swaps(f, items, Slots - i) /\ BubblePass(items, i) = f[Slots - i]
  BY PassIs
<1>3. PICK n \in Nat : n = Slots - i
  BY <1>1
<1>4. n + 1 \in Slot /\ n \in Slot /\ \A j \in 1 .. n : j \in Slot /\ j + 1 \in Slot /\ j + 1 <= n + 1
  BY <1>1, <1>3
<1>5. /\ f \in [0 .. n -> Items] /\ f[0] = items
      /\ \A j \in 1 .. n : f[j] = SwapIfNeeded(f[j - 1], j)
  BY <1>2, <1>3 DEF Swaps
<1> DEFINE Good(j) == Settled(f[j], n + 1) /\ Lowest(f[j], j + 1) /\ Alike(f[j], items)
           S == {j \in 0 .. n : Good(j)}
<1>6. 0 \in S
  <2>1. Settled(f[0], n + 1)
    BY <1>3, <1>5
  <2>2. Lowest(f[0], 1)
    <3>1. items[1] \in Item
      BY <1>1, <1>4 DEF Items
    <3> QED
      BY <1>5, <3>1, AboveOrder DEF Lowest
  <2>3. Alike(f[0], items)
    BY <1>5 DEF Alike
  <2> QED
    BY <2>1, <2>2, <2>3
<1>7. ASSUME NEW j \in 1 .. n, j - 1 \in S PROVE j \in S
  <2>1. j - 1 \in 0 .. n /\ f[j - 1] \in Items /\ (j - 1) + 1 = j
    BY <1>5
  <2>2. PICK x \in Items : x = f[j - 1] /\ Settled(x, n + 1) /\ Lowest(x, j) /\ Alike(x, items)
    BY <1>7, <2>1
  <2>3. PICK y : y = f[j] /\ y = SwapIfNeeded(x, j)
    BY <1>5, <2>2
  <2>4. Swapped(y, x, j)
    BY <1>4, <2>2, <2>3, SwapIs
  <2>5. Settled(y, n + 1) /\ Lowest(y, j + 1)
    BY <1>4, <2>2, <2>4, SwapStep
  <2>6. Alike(y, items)
    BY <1>4, <2>2, <2>4, SwapAlike, AlikeTrans
  <2>7. j \in 0 .. n
    OBVIOUS
  <2> QED
    BY <2>3, <2>5, <2>6, <2>7
<1> HIDE DEF S
<1>8. \A j \in 0 .. n : j \in S
  BY <1>6, <1>7, UpTo
<1>9. Good(n)
  BY <1>8 DEF S
<1>10. Settled(f[n], n)
  <2> SUFFICES ASSUME NEW p \in Slot, NEW k \in Slot, p > n, k < p PROVE Above(f[n][k], f[n][p])
    BY DEF Settled
  <2>1. p = n + 1 \/ p > n + 1
    BY <1>1
  <2>2. p = n + 1 => k \in 1 .. n + 1
    BY <1>1
  <2> QED
    BY <1>9, <2>1, <2>2 DEF Settled, Lowest
<1> QED
  BY <1>2, <1>3, <1>5, <1>9, <1>10

(* f goes from items by one pass after the other. *)
Passes(f, items) ==
  /\ f \in [0 .. Slots - 1 -> Items] /\ f[0] = items
  /\ \A i \in 1 .. Slots - 1 : f[i] = BubblePass(f[i - 1], i)

(* A pass gives items again. *)
LEMMA PassItems ==
  ASSUME NEW items \in Items, NEW i \in 1 .. Slots - 1
  PROVE  BubblePass(items, i) \in Items
<1>1. Slots - i \in 0 .. Slots - i
  BY ScanAssumption
<1> QED
  BY <1>1, PassIs DEF Swaps

(* The sort is its passes, one after the other. *)
LEMMA SortIs ==
  ASSUME NEW items \in Items
  PROVE  \E f : Passes(f, items) /\ Sort(items) = f[Slots - 1]
<1> DEFINE n == Slots - 1
           after[i \in 0 .. n] == IF i = 0 THEN items ELSE BubblePass(after[i - 1], i)
<1>1. n \in Nat
  BY ScanAssumption
<1>2. Sort(items) = after[n]
  BY DEF Sort
<1>3. PICK F : F = [p \in (1 .. n) \X Items |-> BubblePass(p[2], p[1])]
  OBVIOUS
<1>4. \A i \in 1 .. n, x \in Items : F[<<i, x>>] = BubblePass(x, i)
  BY <1>3
<1>5. F \in [(1 .. n) \X Items -> Items]
  <2>1. ASSUME NEW p \in (1 .. n) \X Items PROVE BubblePass(p[2], p[1]) \in Items
    BY PassItems
  <2> QED
    BY <1>3, <2>1
<1>6. \A x \in Items, i \in 1 .. n : BubblePass(x, i) \in Items
  BY PassItems
<1> HIDE DEF n
<1>7. PICK g \in [0 .. n -> Items] : Solves(g, n, items, F)
  BY <1>1, <1>5, Recursion
<1>8. \A i \in 1 .. n : g[i] = BubblePass(g[i - 1], i)
  <2> SUFFICES ASSUME NEW i \in 1 .. n PROVE g[i] = BubblePass(g[i - 1], i)
    OBVIOUS
  <2>1. i - 1 \in 0 .. n
    BY <1>1
  <2> QED
    BY <1>4, <1>7, <2>1 DEF Solves
<1>9. g = [i \in 0 .. n |-> IF i = 0 THEN items ELSE BubblePass(g[i - 1], i)]
  BY <1>1, <1>7, <1>8 DEF Solves
<1>10. after = [i \in 0 .. n |-> IF i = 0 THEN items ELSE BubblePass(after[i - 1], i)]
  BY <1>9
<1> HIDE DEF after
<1>11. after[0] = items /\ \A i \in 1 .. n : after[i] = BubblePass(after[i - 1], i)
  BY <1>1, <1>10
<1>12. \A i \in 0 .. n : after[i] \in Items
  <2> DEFINE S == {i \in 0 .. n : after[i] \in Items}
  <2>1. 0 \in S
    BY <1>1, <1>11
  <2>2. ASSUME NEW i \in 1 .. n, i - 1 \in S PROVE i \in S
    BY <1>1, <1>6, <1>11, <2>2
  <2> HIDE DEF S
  <2>3. \A i \in 0 .. n : i \in S
    BY <1>1, <2>1, <2>2, UpTo
  <2> QED
    BY <2>3 DEF S
<1>13. after \in [0 .. n -> Items]
  BY <1>10, <1>12
<1> QED
  BY <1>2, <1>11, <1>13 DEF Passes, n

(* The bubble sort of wifi_mgmr_scan_beacon_save keeps the items and       *)
(* leaves each slot above the later ones, for any number of slots.         *)
THEOREM SortSorts ==
  ASSUME NEW items \in Items
  PROVE  /\ Sort(items) \in Items
         /\ Alike(Sort(items), items)
         /\ \A k, p \in Slot : k < p => Above(Sort(items)[k], Sort(items)[p])
<1>1. Slots \in Nat \ {0} /\ Slot = 1 .. Slots
  BY ScanAssumption DEF Slot
<1>2. PICK n \in Nat : n = Slots - 1
  BY <1>1
<1>3. PICK f : Passes(f, items) /\ Sort(items) = f[n]
  BY <1>2, SortIs
<1>4. /\ f \in [0 .. n -> Items] /\ f[0] = items
      /\ \A i \in 1 .. n : f[i] = BubblePass(f[i - 1], i)
  BY <1>2, <1>3 DEF Passes
<1> DEFINE S == {i \in 0 .. n : Settled(f[i], Slots - i) /\ Alike(f[i], items)}
<1>5. 0 \in S
  <2>1. Settled(f[0], Slots - 0)
    BY <1>1 DEF Settled
  <2>2. Alike(f[0], items)
    BY <1>4 DEF Alike
  <2> QED
    BY <2>1, <2>2
<1>6. ASSUME NEW i \in 1 .. n, i - 1 \in S PROVE i \in S
  <2>1. i - 1 \in 0 .. n /\ Slots - (i - 1) = Slots - i + 1 /\ i \in 1 .. Slots - 1
    BY <1>1, <1>2
  <2>2. PICK x \in Items : x = f[i - 1] /\ Settled(x, Slots - i + 1) /\ Alike(x, items)
    BY <1>4, <1>6, <2>1
  <2>3. PICK y : y = f[i] /\ y = BubblePass(x, i)
    BY <1>4, <2>2
  <2>4. Settled(y, Slots - i) /\ Alike(y, x)
    BY <2>1, <2>2, <2>3, PassSettles
  <2>5. Alike(y, items)
    BY <2>2, <2>4, AlikeTrans
  <2>6. i \in 0 .. n
    OBVIOUS
  <2> QED
    BY <2>3, <2>4, <2>5, <2>6
<1> HIDE DEF S
<1>7. \A i \in 0 .. n : i \in S
  BY <1>5, <1>6, UpTo
<1>8. Settled(f[n], Slots - n) /\ Alike(f[n], items)
  BY <1>7 DEF S
<1>9. Slots - n = 1 /\ \A k, p \in Slot : k < p => p > 1
  BY <1>1, <1>2
<1> QED
  BY <1>3, <1>4, <1>8, <1>9 DEF Settled

-----------------------------------------------------------------------------
(* Storing a beacon. *)

(* A nonempty set of slots has a highest and a lowest one. *)
LEMMA Extremes ==
  ASSUME NEW S \in SUBSET Slot, S # {}
  PROVE  Max(S) \in S /\ Min(S) \in S /\ \A y \in S : Min(S) <= y
<1>1. Slots \in Nat /\ Slot = 1 .. Slots
  BY ScanAssumption DEF Slot
<1>2. PICK x \in S : \A y \in S : x <= y
  BY <1>1, LeastNat
<1>3. Min(S) \in S /\ \A y \in S : Min(S) <= y
  BY <1>2 DEF Min
<1> DEFINE T == {Slots - y : y \in S}
<1>4. PICK z \in S : TRUE
  OBVIOUS
<1>5. T \in SUBSET Nat /\ Slots - z \in T
  BY <1>1, <1>4
<1>6. PICK t \in T : \A y \in T : t <= y
  BY <1>5, LeastNat
<1>7. PICK m \in S : t = Slots - m
  BY <1>6
<1>8. ASSUME NEW y \in S PROVE m >= y
  <2>1. Slots - m <= Slots - y
    BY <1>6, <1>7
  <2> QED
    BY <1>1, <2>1
<1>9. Max(S) \in S
  BY <1>8 DEF Max
<1> QED
  BY <1>3, <1>9

(* Strengths and stamps are integers. *)
LEMMA ItemFields == \A x \in Item : x.rssi \in Int /\ x.lastseen \in Int
<1>1. Rssi \subseteq Int
  BY ScanAssumption, Zenon
<1>2. \A x \in Item : x.rssi \in Rssi \cup {0} /\ x.lastseen \in 0 .. ClockMod - 1
  BY DEF Item
<1>3. \A n \in 0 .. ClockMod - 1 : n \in Int
  OBVIOUS
<1>4. \A r \in Rssi \cup {0} : r \in Int
  BY <1>1
<1> QED
  BY <1>2, <1>3, <1>4, Zenon

(* Being weaker is an order. *)
LEMMA WeakerOrder ==
  ASSUME NEW x \in Item, NEW y \in Item, NEW z \in Item
  PROVE  /\ Weaker(x, y) /\ (Weaker(y, z) \/ ~Weaker(z, y)) => Weaker(x, z)
         /\ Weaker(x, y) \/ ~Weaker(y, x) => x.rssi <= y.rssi
  BY ItemFields DEF Weaker

(* Slot i is the weakest of the first n + 1. *)
WeakestOf(items, n, i) ==
  \A j \in (1 .. n + 1) \ {i} : \/ Weaker(items[i], items[j])
                                \/ i < j /\ ~Weaker(items[j], items[i])

(* The loop of the code finds a weakest item. *)
LEMMA WeakestIs ==
  ASSUME NEW items \in Items
  PROVE  /\ Weakest(items) \in Slot
         /\ \A j \in Slot : items[Weakest(items)].rssi <= items[j].rssi
<1>1. Slots \in Nat \ {0} /\ Slot = 1 .. Slots
  BY ScanAssumption DEF Slot
<1>2. PICK n \in Nat : n = Slots - 1
  BY <1>1
<1>3. Slot = 1 .. n + 1 /\ \A j \in Slot : items[j] \in Item
  BY <1>1, <1>2 DEF Items
<1> DEFINE S == {k \in 0 .. n : \E i \in 1 .. k + 1 : WeakestOf(items, k, i)}
<1>4. 0 \in S
  BY DEF WeakestOf
<1>5. ASSUME NEW k \in 1 .. n, k - 1 \in S PROVE k \in S
  <2>1. (k - 1) + 1 = k /\ k \in Slot /\ k + 1 \in Slot
    BY <1>3
  <2>2. PICK i \in 1 .. k : WeakestOf(items, k - 1, i)
    BY <1>5, <2>1
  <2>3. \A j \in (1 .. k) \ {i} : \/ Weaker(items[i], items[j])
                                  \/ i < j /\ ~Weaker(items[j], items[i])
    BY <2>1, <2>2 DEF WeakestOf
  <2>4. i \in Slot /\ i \in 1 .. k + 1 /\ 1 .. k \subseteq Slot
    BY <1>3
  <2>5. CASE Weaker(items[k + 1], items[i])
    <3>1. ASSUME NEW j \in (1 .. k + 1) \ {k + 1} PROVE Weaker(items[k + 1], items[j])
      <4>1. j \in 1 .. k /\ j \in Slot
        BY <1>3
      <4>2. items[j] \in Item /\ items[i] \in Item /\ items[k + 1] \in Item
        BY <1>3, <2>1, <2>4, <4>1
      <4>3. j = i \/ Weaker(items[i], items[j]) \/ ~Weaker(items[j], items[i])
        BY <2>3, <4>1
      <4> QED
        BY <2>5, <4>2, <4>3, WeakerOrder
    <3>2. WeakestOf(items, k, k + 1)
      BY <3>1 DEF WeakestOf
    <3> QED
      BY <2>1, <3>2
  <2>6. CASE ~Weaker(items[k + 1], items[i])
    <3>1. ASSUME NEW j \in (1 .. k + 1) \ {i}
          PROVE  Weaker(items[i], items[j]) \/ (i < j /\ ~Weaker(items[j], items[i]))
      <4>1. j \in (1 .. k) \ {i} \/ (j = k + 1 /\ i < j)
        OBVIOUS
      <4> QED
        BY <2>3, <2>6, <4>1
    <3>2. WeakestOf(items, k, i)
      BY <3>1 DEF WeakestOf
    <3> QED
      BY <2>4, <3>2
  <2> QED
    BY <2>5, <2>6
<1> HIDE DEF S
<1>6. \A k \in 0 .. n : k \in S
  BY <1>4, <1>5, UpTo
<1>7. \E i \in 1 .. n + 1 : WeakestOf(items, n, i)
  BY <1>6 DEF S
<1>8. PICK w : w = Weakest(items)
  OBVIOUS
<1>9. w \in Slot /\ WeakestOf(items, n, w)
  BY <1>3, <1>7, <1>8 DEF Weakest, WeakestOf
<1>10. ASSUME NEW j \in Slot PROVE items[w].rssi <= items[j].rssi
  <2>1. items[w] \in Item /\ items[j] \in Item
    BY <1>3, <1>9
  <2>2. j = w \/ Weaker(items[w], items[j]) \/ ~Weaker(items[j], items[w])
    BY <1>3, <1>9 DEF WeakestOf
  <2>3. j = w => items[w].rssi <= items[j].rssi
    BY <2>1, ItemFields
  <2> QED
    BY <2>1, <2>2, <2>3, WeakerOrder
<1> QED
  BY <1>8, <1>9, <1>10

(* A new item is an item of the beacon's access point. *)
LEMMA NewItemIs ==
  ASSUME NEW b \in Beacon, now \in Nat
  PROVE  /\ TimeMs \in 0 .. ClockMod - 1
         /\ NewItem(b) \in Item /\ NewItem(b).is_used /\ NewItem(b).ap = b.ap
         /\ NewItem(b).rssi = b.rssi /\ b.rssi \in Int
<1>1. ClockMod \in Nat /\ ClockMod # 0
  BY ScanAssumption
<1>2. TimeMs \in 0 .. ClockMod - 1
  BY <1>1 DEF TimeMs
<1>3. b.rssi \in Rssi /\ b.ap \in Ap /\ b.channel \in Channel
  BY DEF Beacon
<1>4. Rssi \subseteq Int
  BY ScanAssumption, Zenon
<1> QED
  BY <1>2, <1>3, <1>4 DEF NewItem, Item

(* new is items with b in slot i. *)
Puts(new, items, b, i) ==
  new \in Items /\ new[i] = NewItem(b) /\ \A k \in Slot \ {i} : new[k] = items[k]

(* The three ways of storing a beacon, by what slot i holds. *)
Updates(new, items, b, i) ==
  /\ items[i].is_used /\ items[i].ap = b.ap
  /\ IF b.rssi >= items[i].rssi THEN Puts(new, items, b, i) ELSE new = items

Fills(new, items, b, i) ==
  /\ Same(items, b) = {} /\ ~items[i].is_used
  /\ Puts(new, items, b, i)

Replaces(new, items, b, i) ==
  /\ Same(items, b) = {} /\ \A k \in Slot : items[k].is_used /\ items[i].rssi <= items[k].rssi
  /\ IF b.rssi > items[i].rssi THEN Puts(new, items, b, i) ELSE new = items

(* A beacon is stored in one of these ways. *)
LEMMA StoredIs ==
  ASSUME NEW items \in Items, NEW b \in Beacon, now \in Nat
  PROVE  \E i \in Slot : \/ Updates(Stored(items, b), items, b, i)
                         \/ Fills(Stored(items, b), items, b, i)
                         \/ Replaces(Stored(items, b), items, b, i)
<1>1. PICK new : new = Stored(items, b)
  OBVIOUS
<1>2. ASSUME NEW i \in Slot PROVE Puts([items EXCEPT ![i] = NewItem(b)], items, b, i)
  BY NewItemIs DEF Puts, Items
<1>3. CASE Same(items, b) # {}
  <2>1. PICK i : i = Max(Same(items, b))
    OBVIOUS
  <2>2. Same(items, b) \in SUBSET Slot
    BY DEF Same
  <2>3. i \in Same(items, b)
    BY <1>3, <2>1, <2>2, Extremes
  <2>4. i \in Slot /\ items[i].is_used /\ items[i].ap = b.ap
    BY <2>3 DEF Same
  <2>5. new = IF b.rssi >= items[i].rssi THEN [items EXCEPT ![i] = NewItem(b)] ELSE items
    BY <1>1, <1>3, <2>1 DEF Stored
  <2>6. Updates(new, items, b, i)
    BY <1>2, <2>4, <2>5 DEF Updates
  <2> QED
    BY <1>1, <2>4, <2>6
<1>4. CASE Same(items, b) = {} /\ Free(items) # {}
  <2>1. PICK i : i = Max(Free(items))
    OBVIOUS
  <2>2. Free(items) \in SUBSET Slot
    BY DEF Free
  <2>3. i \in Free(items)
    BY <1>4, <2>1, <2>2, Extremes
  <2>4. i \in Slot /\ ~items[i].is_used
    BY <2>3 DEF Free
  <2>5. new = [items EXCEPT ![i] = NewItem(b)]
    BY <1>1, <1>4, <2>1 DEF Stored
  <2>6. Fills(new, items, b, i)
    BY <1>2, <1>4, <2>4, <2>5 DEF Fills
  <2> QED
    BY <1>1, <2>4, <2>6
<1>5. CASE Same(items, b) = {} /\ Free(items) = {}
  <2>1. PICK i : i = Weakest(items)
    OBVIOUS
  <2>2. i \in Slot /\ \A k \in Slot : items[i].rssi <= items[k].rssi
    BY <2>1, WeakestIs
  <2>3. \A k \in Slot : items[k].is_used
    BY <1>5 DEF Free
  <2>4. new = IF b.rssi > items[i].rssi THEN [items EXCEPT ![i] = NewItem(b)] ELSE items
    BY <1>1, <1>5, <2>1 DEF Stored
  <2>5. Replaces(new, items, b, i)
    BY <1>2, <1>5, <2>2, <2>3, <2>4 DEF Replaces
  <2> QED
    BY <1>1, <2>2, <2>5
<1> QED
  BY <1>3, <1>4, <1>5

(* A new item for an access point that no other slot has keeps them apart. *)
LEMMA PutsUnique ==
  ASSUME NEW items \in Items, NEW b \in Beacon, now \in Nat, NEW i \in Slot, NEW new,
         Puts(new, items, b, i), Unique(items),
         \A k \in Slot \ {i} : ~(items[k].is_used /\ items[k].ap = b.ap)
  PROVE  Unique(new)
<1> SUFFICES ASSUME NEW k \in Slot, NEW l \in Slot, new[k].is_used, new[l].is_used,
                    new[k].ap = new[l].ap, k # l
             PROVE  FALSE
  BY DEF Unique
<1>1. new[i].ap = b.ap
  BY NewItemIs DEF Puts
<1> QED
  BY <1>1 DEF Puts, Unique

(* Storing a beacon keeps the access points apart. *)
LEMMA StoredItems ==
  ASSUME NEW items \in Items, NEW b \in Beacon, now \in Nat
  PROVE  Stored(items, b) \in Items /\ (Unique(items) => Unique(Stored(items, b)))
<1>1. PICK new : new = Stored(items, b)
  OBVIOUS
<1>2. PICK i \in Slot : \/ Updates(new, items, b, i)
                        \/ Fills(new, items, b, i)
                        \/ Replaces(new, items, b, i)
  BY <1>1, StoredIs
<1>3. new = items \/ Puts(new, items, b, i)
  BY <1>2 DEF Updates, Fills, Replaces
<1>4. new \in Items
  BY <1>3 DEF Puts
<1>5. ASSUME Unique(items), Puts(new, items, b, i) PROVE Unique(new)
  <2>1. \A k \in Slot \ {i} : ~(items[k].is_used /\ items[k].ap = b.ap)
    <3>1. CASE items[i].is_used /\ items[i].ap = b.ap
      BY <1>5, <3>1 DEF Unique
    <3>2. CASE Same(items, b) = {}
      BY <3>2 DEF Same
    <3> QED
      BY <1>2, <3>1, <3>2 DEF Updates, Fills, Replaces
  <2> QED
    BY <1>5, <2>1, PutsUnique
<1> QED
  BY <1>1, <1>3, <1>4, <1>5

(* So does dropping items. *)
LEMMA CleanedItems ==
  ASSUME scan_items \in Items
  PROVE  /\ Cleaned \in Items
         /\ \A k \in Slot : Cleaned[k] = IF Dropped(scan_items[k]) THEN Empty ELSE scan_items[k]
         /\ Unique(scan_items) => Unique(Cleaned)
<1>1. ~Empty.is_used /\ Empty \in Item
  <2>1. ClockMod \in Nat /\ ClockMod # 0
    BY ScanAssumption
  <2> QED
    BY <2>1 DEF Empty, Item
<1>2. \A k \in Slot : Cleaned[k] = IF Dropped(scan_items[k]) THEN Empty ELSE scan_items[k]
  BY DEF Cleaned
<1>3. Cleaned \in Items
  BY <1>1 DEF Cleaned, Items
<1> HIDE DEF Cleaned
<1>4. \A k \in Slot : Cleaned[k].is_used => Cleaned[k] = scan_items[k]
  BY <1>1, <1>2
<1> QED
  BY <1>2, <1>3, <1>4 DEF Unique

-----------------------------------------------------------------------------
(* The invariant. *)

(* What TypeOK and the assumptions say of the numbers. *)
LEMMA Numbers ==
  ASSUME TypeOK
  PROVE  /\ scan_items \in Items /\ now \in Nat /\ channel_nums \in Nat \ {0}
         /\ Slots \in Nat \ {0} /\ Slot = 1 .. Slots
<1>1. Countries \subseteq Nat \ {0}
  BY ScanAssumption, Zenon
<1>2. channel_nums \in Nat \ {0}
  BY <1>1 DEF TypeOK
<1>3. now \in Nat
  BY ScanAssumption DEF TypeOK
<1> QED
  BY <1>2, <1>3, ScanAssumption DEF TypeOK, Items, Slot

(* What a saved beacon leaves in the table. *)
LEMMA SavedIs ==
  ASSUME TypeOK, Ranked, NEW b \in Beacon
  PROVE  /\ Cleaned \in Items /\ Unique(Cleaned)
         /\ Stored(Cleaned, b) \in Items /\ Unique(Stored(Cleaned, b))
         /\ Sort(Stored(Cleaned, b)) \in Items /\ Unique(Sort(Stored(Cleaned, b)))
         /\ Alike(Sort(Stored(Cleaned, b)), Stored(Cleaned, b))
         /\ \A k, p \in Slot : k < p =>
              Above(Sort(Stored(Cleaned, b))[k], Sort(Stored(Cleaned, b))[p])
<1>1. scan_items \in Items /\ now \in Nat /\ \A k, l \in Slot : k < l \/ k = l \/ l < k
  BY Numbers
<1>2. Unique(scan_items)
  BY <1>1 DEF Unique, Ranked
<1>3. Cleaned \in Items /\ Unique(Cleaned)
  BY <1>1, <1>2, CleanedItems
<1>4. PICK c \in Items : c = Cleaned
  BY <1>3
<1>5. Stored(c, b) \in Items /\ Unique(Stored(c, b))
  BY <1>1, <1>3, <1>4, StoredItems
<1>6. PICK s \in Items : s = Stored(c, b)
  BY <1>5
<1>7. /\ Sort(s) \in Items /\ Alike(Sort(s), s)
      /\ \A k, p \in Slot : k < p => Above(Sort(s)[k], Sort(s)[p])
  BY SortSorts
<1>8. Unique(Sort(s))
  BY <1>5, <1>6, <1>7 DEF Alike
<1> QED
  BY <1>3, <1>4, <1>5, <1>6, <1>7, <1>8

(* A sorted table without duplicates is ranked. *)
LEMMA RankedIs ==
  ASSUME NEW s \in Items, Unique(s), \A k, p \in Slot : k < p => Above(s[k], s[p])
  PROVE  \A i, j \in Slot : i < j /\ s[j].is_used =>
           s[i].is_used /\ s[i].rssi >= s[j].rssi /\ s[i].ap # s[j].ap
<1> SUFFICES ASSUME NEW i \in Slot, NEW j \in Slot, i < j, s[j].is_used
             PROVE  s[i].is_used /\ s[i].rssi >= s[j].rssi /\ s[i].ap # s[j].ap
  OBVIOUS
<1>1. s[i] \in Item /\ s[j] \in Item
  BY DEF Items
<1>2. s[i].rssi \in Int /\ s[j].rssi \in Int
  BY <1>1, ItemFields
<1>3. i # j
  BY ScanAssumption DEF Slot
<1>4. Above(s[i], s[j])
  OBVIOUS
<1>5. s[i].is_used /\ ~(s[i].rssi < s[j].rssi)
  BY <1>4, Zenon DEF Above, OutOfOrder
<1> QED
  BY <1>2, <1>3, <1>5 DEF Unique

(* A look-up finds a slot or none. *)
LEMMA FirstMatchIs ==
  ASSUME TypeOK, NEW ssid
  PROVE  /\ FirstMatch(ssid) \in 0 .. Slots
         /\ \A i \in Matches(ssid) : FirstMatch(ssid) \in Matches(ssid) /\ FirstMatch(ssid) <= i
<1>1. Matches(ssid) \in SUBSET Slot
  BY DEF Matches
<1>2. Slots \in Nat /\ Slot = 1 .. Slots
  BY Numbers
<1>3. CASE Matches(ssid) = {}
  BY <1>2, <1>3 DEF FirstMatch
<1>4. CASE Matches(ssid) # {}
  <2>1. FirstMatch(ssid) = Min(Matches(ssid))
    BY <1>4 DEF FirstMatch
  <2> QED
    BY <1>1, <1>2, <1>4, <2>1, Extremes
<1> QED
  BY <1>3, <1>4

(* The first match is the strongest because the table is ranked. *)
LEMMA RankedFinds ==
  ASSUME TypeOK, Ranked
  PROVE  FindsStrongest
<1> SUFFICES ASSUME NEW ssid \in Ssid, NEW i \in Matches(ssid)
             PROVE  scan_items[i].rssi <= scan_items[FirstMatch(ssid)].rssi
  BY DEF FindsStrongest
<1>1. PICK f \in Matches(ssid) : f = FirstMatch(ssid) /\ f <= i
  BY FirstMatchIs
<1>2. i \in Slot /\ f \in Slot /\ scan_items[i].is_used
  BY DEF Matches, Listed
<1>3. scan_items[i].rssi \in Int /\ scan_items[f].rssi \in Int
  BY <1>2, ItemFields, Numbers DEF Items
<1>4. f = i \/ f < i
  BY <1>1, <1>2, Numbers
<1> QED
  BY <1>1, <1>2, <1>3, <1>4 DEF Ranked

(* Initially the table is empty, hence ranked. *)
LEMMA RankedInit == Init => TypeOK /\ Ranked
<1> SUFFICES ASSUME Init PROVE TypeOK /\ Ranked
  OBVIOUS
<1>1. ClockMod \in Nat /\ ClockMod # 0 /\ Slots \in Nat /\ Start \in Start .. MaxTime
  BY ScanAssumption
<1>2. Empty \in Item /\ ~Empty.is_used
  BY <1>1 DEF Empty, Item
<1>3. TypeOK
  <2>1. scan_items \in [Slot -> Item]
    BY <1>2 DEF Init
  <2>2. lookup \in 0 .. Slots /\ now \in Start .. MaxTime
    BY <1>1 DEF Init
  <2> QED
    BY <2>1, <2>2 DEF Init, TypeOK
<1>4. Ranked
  BY <1>2 DEF Init, Ranked
<1> QED
  BY <1>3, <1>4

(* Every step keeps the table typed and ranked. *)
LEMMA RankedStep == TypeOK /\ Ranked /\ [Next]_vars => TypeOK' /\ Ranked'
<1> SUFFICES ASSUME TypeOK, Ranked, [Next]_vars PROVE TypeOK' /\ Ranked'
  OBVIOUS
<1>1. ASSUME UNCHANGED scan_items PROVE Ranked'
  BY <1>1 DEF Ranked
<1>2. ASSUME NEW b \in Beacon, wifi_mgmr_scan_beacon_save(b) PROVE TypeOK' /\ Ranked'
  <2>1. PICK s \in Items : s = Sort(Stored(Cleaned, b)) /\ scan_items' = s
    BY <1>2, SavedIs DEF wifi_mgmr_scan_beacon_save
  <2>2. Unique(s) /\ \A k, p \in Slot : k < p => Above(s[k], s[p])
    BY <2>1, SavedIs
  <2>3. TypeOK'
    BY <1>2, <2>1 DEF wifi_mgmr_scan_beacon_save, TypeOK, Items
  <2>4. Ranked'
    BY <2>1, <2>2, RankedIs DEF Ranked
  <2> QED
    BY <2>3, <2>4
<1>3. ASSUME NEW n \in Countries, set_country_code(n) PROVE TypeOK' /\ Ranked'
  BY <1>1, <1>3 DEF set_country_code, TypeOK
<1>4. ASSUME NEW filter \in BOOLEAN, scan_filter_hidden_ssid(filter) PROVE TypeOK' /\ Ranked'
  BY <1>1, <1>4 DEF scan_filter_hidden_ssid, TypeOK
<1>5. ASSUME NEW ssid \in Ssid, scan_ap_find(ssid) PROVE TypeOK' /\ Ranked'
  BY <1>1, <1>5, FirstMatchIs DEF scan_ap_find, TypeOK
<1>6. ASSUME scan_ap_copy PROVE TypeOK' /\ Ranked'
  <2>1. 0 \in 0 .. Slots
    BY Numbers
  <2> QED
    BY <1>1, <1>6, <2>1 DEF scan_ap_copy, TypeOK
<1>7. ASSUME Tick PROVE TypeOK' /\ Ranked'
  <2>1. now + 1 \in Start .. MaxTime
    BY <1>7, ScanAssumption DEF Tick, TypeOK
  <2> QED
    BY <1>1, <1>7, <2>1 DEF Tick, TypeOK
<1>8. ASSUME UNCHANGED vars PROVE TypeOK' /\ Ranked'
  BY <1>1, <1>8 DEF vars, TypeOK
<1> QED
  BY <1>2, <1>3, <1>4, <1>5, <1>6, <1>7, <1>8 DEF Next

(* What readers of wifiMgmr.scan_items rely on holds after every beacon,   *)
(* whatever was dropped, overwritten or sorted, for any number of slots.   *)
THEOREM TableWellFormed == Spec => []WellFormed
<1>1. TypeOK /\ Ranked => WellFormed
  BY RankedFinds DEF WellFormed
<1> QED
  BY <1>1, RankedInit, RankedStep, PTL DEF Spec

-----------------------------------------------------------------------------
(* The wrapping clock. *)

(* Division with remainder. *)
LEMMA DivMod ==
  ASSUME NEW M \in Nat \ {0}, NEW x \in Int
  PROVE  x % M \in 0 .. M - 1 /\ x \div M \in Int /\ x = M * (x \div M) + (x % M)
  OBVIOUS

(* The remainder is unique. *)
LEMMA ModUnique ==
  ASSUME NEW M \in Nat \ {0}, NEW q \in Int, NEW p \in Int,
         NEW r \in 0 .. M - 1, NEW s \in 0 .. M - 1, M * q + r = M * p + s
  PROVE  r = s
<1>1. PICK d \in Int : d = q - p
  OBVIOUS
<1>2. M * d = s - r
  BY <1>1
<1>3. d >= 1 => M * d >= M
  OBVIOUS
<1>4. d <= -1 => M * d <= -M
  OBVIOUS
<1>5. d = 0 => M * d = 0
  OBVIOUS
<1> QED
  BY <1>2, <1>3, <1>4, <1>5

(* The counter steps by one, or wraps. *)
LEMMA ModStep ==
  ASSUME NEW M \in Nat \ {0}, NEW x \in Int
  PROVE  (x + 1) % M = IF (x % M) + 1 = M THEN 0 ELSE (x % M) + 1
<1>1. PICK q \in Int, r \in 0 .. M - 1 : x = M * q + r /\ r = x % M
  BY DivMod
<1>2. PICK p \in Int, s \in 0 .. M - 1 : x + 1 = M * p + s /\ s = (x + 1) % M
  <2>1. x + 1 \in Int
    OBVIOUS
  <2> QED
    BY <2>1, DivMod
<1>3. CASE r + 1 = M
  <2>1. M * (q + 1) + 0 = M * p + s
    BY <1>1, <1>2, <1>3
  <2>2. 0 = s
    BY <2>1, ModUnique
  <2> QED
    BY <1>1, <1>2, <1>3, <2>2
<1>4. CASE r + 1 # M
  <2>1. M * q + (r + 1) = M * p + s /\ r + 1 \in 0 .. M - 1
    BY <1>1, <1>2, <1>4
  <2>2. r + 1 = s
    BY <2>1, ModUnique
  <2> QED
    BY <1>1, <1>2, <1>4, <2>2
<1> QED
  BY <1>3, <1>4

(* The age of stamp l at time n. *)
AgeAt(n, l) == ((n % ClockMod) - l) % ClockMod

(* The difference of two stamps. *)
LEMMA AgeAtIs ==
  ASSUME NEW n \in Nat, NEW l \in 0 .. ClockMod - 1
  PROVE  /\ n % ClockMod \in 0 .. ClockMod - 1 /\ AgeAt(n, l) \in 0 .. ClockMod - 1
         /\ AgeAt(n, l) = IF n % ClockMod >= l THEN (n % ClockMod) - l
                          ELSE (n % ClockMod) - l + ClockMod
<1>1. PICK M \in Nat \ {0} : M = ClockMod
  BY ScanAssumption
<1>2. PICK m \in 0 .. M - 1 : m = n % M
  <2>1. n \in Int
    OBVIOUS
  <2> QED
    BY <2>1, DivMod
<1>3. PICK x \in Int : x = m - l /\ -M < x /\ x < M
  BY <1>1
<1>4. x % M = IF x >= 0 THEN x ELSE x + M
  BY <1>3
<1> QED
  BY <1>1, <1>2, <1>3, <1>4 DEF AgeAt

(* Ages grow by one until a full turn of the counter; a new stamp is of    *)
(* age 0.                                                                  *)
LEMMA AgeStep ==
  ASSUME NEW n \in Nat, NEW l \in 0 .. ClockMod - 1
  PROVE  /\ AgeAt(n, l) + 1 < ClockMod => AgeAt(n + 1, l) = AgeAt(n, l) + 1
         /\ AgeAt(n, n % ClockMod) = 0
<1>1. ClockMod \in Nat \ {0} /\ n + 1 \in Nat /\ n \in Int
  BY ScanAssumption
<1>2. PICK m \in 0 .. ClockMod - 1 : m = n % ClockMod
  BY <1>1, DivMod
<1>3. (n + 1) % ClockMod = IF m + 1 = ClockMod THEN 0 ELSE m + 1
  BY <1>1, <1>2, ModStep
<1>4. AgeAt(n, l) = IF m >= l THEN m - l ELSE m - l + ClockMod
  BY <1>2, AgeAtIs
<1>5. AgeAt(n, m) = 0
  BY <1>2, AgeAtIs
<1>6. PICK k \in 0 .. ClockMod - 1 : k = (n + 1) % ClockMod
  BY <1>1, DivMod
<1>7. AgeAt(n + 1, l) = IF k >= l THEN k - l ELSE k - l + ClockMod
  BY <1>1, <1>6, AgeAtIs
<1> QED
  BY <1>1, <1>2, <1>3, <1>4, <1>5, <1>6, <1>7

-----------------------------------------------------------------------------
(* The refinement. *)

(* No item is older than the system: with MaxTime - Start within one turn  *)
(* of the counter, no stamp is ever a turn behind.                         *)
Aged == \A k \in Slot : scan_items[k].is_used => Age(scan_items[k]) <= now - Start

(* The entry of an item, and of a table. *)
EntryOf(x) == [ap |-> x.ap, channel |-> x.channel, rssi |-> x.rssi, seen |-> now - Age(x)]

Entries(items) == {EntryOf(items[k]) : k \in {l \in Slot : items[l].is_used}}

(* The ages of items. *)
LEMMA AgeIs ==
  ASSUME TypeOK, NEW x \in Item
  PROVE  Age(x) = AgeAt(now, x.lastseen) /\ Age(x) \in Nat /\ x.lastseen \in 0 .. ClockMod - 1
<1>1. x.lastseen \in 0 .. ClockMod - 1
  BY DEF Item
<1>2. now \in Nat
  BY Numbers
<1>3. Age(x) = AgeAt(now, x.lastseen)
  BY DEF Age, AgeAt, TimeMs
<1>4. AgeAt(now, x.lastseen) \in 0 .. ClockMod - 1
  BY <1>1, <1>2, AgeAtIs
<1> QED
  BY <1>1, <1>3, <1>4

(* A new item was heard now. *)
LEMMA NewAge ==
  ASSUME TypeOK, NEW b \in Beacon
  PROVE  Age(NewItem(b)) = 0 /\ EntryOf(NewItem(b)) = Abstract!Entry(b)
<1>1. NewItem(b).lastseen = now % ClockMod
  BY DEF NewItem, TimeMs
<1>2. now \in Nat
  BY Numbers
<1>3. ClockMod \in Nat \ {0}
  BY ScanAssumption
<1>4. now % ClockMod \in 0 .. ClockMod - 1
  BY <1>2, <1>3
<1>5. Age(NewItem(b)) = AgeAt(now, now % ClockMod)
  BY <1>1 DEF Age, AgeAt, TimeMs
<1>6. Age(NewItem(b)) = 0
  BY <1>2, <1>4, <1>5, AgeStep
<1>7. now - Age(NewItem(b)) = now
  BY <1>2, <1>6
<1>8. EntryOf(NewItem(b)) = Abstract!Entry(b)
  BY <1>7 DEF EntryOf, NewItem, Abstract!Entry
<1> QED
  BY <1>6, <1>8

(* The set of the abstract specification. *)
LEMMA KnownIs == Known = Entries(scan_items)
  BY DEF Known, Entries, EntryOf

(* Tables of the same items have the same entries. *)
LEMMA AlikeEntries ==
  ASSUME NEW new, NEW items, Alike(new, items)
  PROVE  Entries(new) = Entries(items)
<1>1. ASSUME NEW e \in Entries(new) PROVE e \in Entries(items)
  <2>1. PICK k \in Slot : new[k].is_used /\ e = EntryOf(new[k])
    BY DEF Entries
  <2>2. PICK l \in Slot : new[k] = items[l]
    BY DEF Alike
  <2> QED
    BY <2>1, <2>2 DEF Entries
<1>2. ASSUME NEW e \in Entries(items) PROVE e \in Entries(new)
  <2>1. PICK k \in Slot : items[k].is_used /\ e = EntryOf(items[k])
    BY DEF Entries
  <2>2. PICK l \in Slot : items[k] = new[l]
    BY DEF Alike
  <2> QED
    BY <2>1, <2>2 DEF Entries
<1> QED
  BY <1>1, <1>2

(* Cleaning the table leaves the live entries. *)
LEMMA CleanedLive ==
  ASSUME TypeOK
  PROVE  Entries(Cleaned) = Abstract!Live
<1>1. scan_items \in Items /\ now \in Nat /\ ~Empty.is_used
  BY Numbers DEF Empty
<1>2. \A k \in Slot : Cleaned[k] = IF Dropped(scan_items[k]) THEN Empty ELSE scan_items[k]
  BY <1>1, CleanedItems
<1>3. Abstract!Live = {x \in Entries(scan_items) : now - x.seen <= Limit /\ x.channel <= channel_nums}
  BY KnownIs DEF Abstract!Live
<1>4. ASSUME NEW k \in Slot, scan_items[k].is_used
      PROVE  ~Dropped(scan_items[k]) <=> /\ now - EntryOf(scan_items[k]).seen <= Limit
                                         /\ EntryOf(scan_items[k]).channel <= channel_nums
  <2>1. PICK x \in Item : x = scan_items[k]
    BY <1>1 DEF Items
  <2>2. Age(x) \in Nat
    BY AgeIs
  <2>3. x.channel \in Nat /\ channel_nums \in Nat /\ Limit \in Nat
    <3>1. Channel \subseteq Nat
      BY ScanAssumption, Zenon
    <3>2. x.channel \in Channel \cup {0}
      BY DEF Item
    <3>3. \A c \in Channel \cup {0} : c \in Nat
      BY <3>1
    <3>4. Limit \in Nat
      BY ScanAssumption
    <3> QED
      BY <3>2, <3>3, <3>4, Numbers
  <2>4. EntryOf(x).seen = now - Age(x) /\ EntryOf(x).channel = x.channel
    BY DEF EntryOf
  <2>5. /\ now - EntryOf(x).seen <= Limit <=> ~(Age(x) > Limit)
        /\ EntryOf(x).channel <= channel_nums <=> ~(x.channel > channel_nums)
    BY <1>1, <2>2, <2>3, <2>4
  <2> QED
    BY <1>4, <2>1, <2>5, Zenon DEF Dropped
<1>5. ASSUME NEW e \in Entries(Cleaned) PROVE e \in Abstract!Live
  <2>1. PICK k \in Slot : Cleaned[k].is_used /\ e = EntryOf(Cleaned[k])
    BY DEF Entries
  <2>2. ~Dropped(scan_items[k]) /\ Cleaned[k] = scan_items[k]
    BY <1>1, <1>2, <2>1
  <2>3. e \in Entries(scan_items)
    BY <2>1, <2>2 DEF Entries
  <2> QED
    BY <1>3, <1>4, <2>1, <2>2, <2>3
<1>6. ASSUME NEW e \in Abstract!Live PROVE e \in Entries(Cleaned)
  <2>1. PICK k \in Slot : scan_items[k].is_used /\ e = EntryOf(scan_items[k])
    BY <1>3 DEF Entries
  <2>2. ~Dropped(scan_items[k])
    BY <1>3, <1>4, <2>1
  <2>3. Cleaned[k] = scan_items[k]
    BY <1>2, <2>2
  <2> QED
    BY <2>1, <2>3 DEF Entries
<1> QED
  BY <1>5, <1>6

(* A stored beacon takes the place of its slot's entry. *)
LEMMA PutEntries ==
  ASSUME TypeOK, NEW items \in Items, Unique(items), NEW b \in Beacon, NEW i \in Slot,
         NEW new, Puts(new, items, b, i)
  PROVE  Entries(new) = (IF items[i].is_used THEN Entries(items) \ {EntryOf(items[i])}
                         ELSE Entries(items)) \cup {Abstract!Entry(b)}
<1>1. new[i].is_used /\ EntryOf(new[i]) = Abstract!Entry(b)
  BY Numbers, NewItemIs, NewAge DEF Puts
<1>2. \A k \in Slot \ {i} : new[k] = items[k]
  BY DEF Puts
<1>3. ASSUME NEW k \in Slot \ {i}, items[i].is_used, items[k].is_used
      PROVE  EntryOf(items[k]) # EntryOf(items[i])
  <2>1. items[k].ap # items[i].ap
    BY <1>3 DEF Unique
  <2> QED
    BY <2>1 DEF EntryOf
<1>4. \A e : e \in Entries(new) <=> \E k \in Slot : new[k].is_used /\ e = EntryOf(new[k])
  BY DEF Entries
<1>5. \A e : e \in Entries(items) <=> \E k \in Slot : items[k].is_used /\ e = EntryOf(items[k])
  BY DEF Entries
<1>6. ASSUME NEW e
      PROVE  e \in Entries(new) <=>
               \/ e = Abstract!Entry(b)
               \/ e \in Entries(items) /\ (items[i].is_used => e # EntryOf(items[i]))
  <2>1. CASE e \in Entries(new)
    <3>1. PICK k \in Slot : new[k].is_used /\ e = EntryOf(new[k])
      BY <1>4, <2>1
    <3>2. CASE k = i
      BY <1>1, <2>1, <3>1, <3>2
    <3>3. CASE k # i
      <4>1. items[k].is_used /\ e = EntryOf(items[k])
        BY <1>2, <3>1, <3>3
      <4> QED
        BY <1>3, <1>5, <2>1, <3>3, <4>1
    <3> QED
      BY <3>2, <3>3
  <2>2. CASE e = Abstract!Entry(b)
    BY <1>1, <1>4, <2>2
  <2>3. CASE e \in Entries(items) /\ (items[i].is_used => e # EntryOf(items[i]))
    <3>1. PICK k \in Slot : items[k].is_used /\ e = EntryOf(items[k])
      BY <1>5, <2>3
    <3>2. k # i
      BY <2>3, <3>1
    <3> QED
      BY <1>2, <1>4, <2>3, <3>1, <3>2
  <2> QED
    BY <2>1, <2>2, <2>3
<1> QED
  BY <1>6

(* The slots in use. *)
Used(items) == {l \in Slot : items[l].is_used}

(* A table has at most one entry per used slot, and one for each of them   *)
(* when no access point has two.                                           *)
LEMMA EntriesCount ==
  ASSUME NEW items \in Items
  PROVE  /\ IsFiniteSet(Used(items)) /\ IsFiniteSet(Entries(items))
         /\ Cardinality(Entries(items)) <= Cardinality(Used(items))
         /\ Unique(items) => Cardinality(Entries(items)) = Cardinality(Used(items))
<1>1. IsFiniteSet(Slot)
  BY ScanAssumption, FS_Interval DEF Slot
<1>2. Used(items) \in SUBSET Slot
  BY DEF Used
<1>3. IsFiniteSet(Used(items))
  BY <1>1, <1>2, FS_Subset
<1>4. PICK f : f = [k \in Used(items) |-> EntryOf(items[k])]
  OBVIOUS
<1>5. f \in Surjection(Used(items), Entries(items))
  BY <1>4 DEF Surjection, Entries, Used
<1>6. ASSUME Unique(items) PROVE f \in Injection(Used(items), Entries(items))
  <2>1. f \in [Used(items) -> Entries(items)] /\ DOMAIN f = Used(items)
    BY <1>4 DEF Entries, Used
  <2>2. ASSUME NEW k \in Used(items), NEW l \in Used(items), f[k] = f[l] PROVE k = l
    <3>1. EntryOf(items[k]) = EntryOf(items[l])
      BY <1>4, <2>2
    <3>2. items[k].ap = items[l].ap
      BY <3>1 DEF EntryOf
    <3> QED
      BY <1>6, <3>2 DEF Unique, Used
  <2> QED
    BY <2>1, <2>2 DEF Injection, IsInjective
<1> QED
  BY <1>3, <1>5, <1>6, FS_Surjection

(* Below capacity with a free slot, at capacity without. *)
LEMMA EntriesRoom ==
  ASSUME NEW items \in Items
  PROVE  /\ \A i \in Slot : ~items[i].is_used => Cardinality(Entries(items)) < Slots
         /\ Unique(items) /\ (\A i \in Slot : items[i].is_used) => Cardinality(Entries(items)) = Slots
<1>1. IsFiniteSet(Slot) /\ Cardinality(Slot) = Slots /\ Slots \in Nat
  BY ScanAssumption, FS_Interval DEF Slot
<1>2. ASSUME NEW i \in Slot, ~items[i].is_used PROVE Cardinality(Entries(items)) < Slots
  <2>1. Used(items) \in SUBSET (Slot \ {i})
    BY <1>2 DEF Used
  <2>2. IsFiniteSet(Slot \ {i}) /\ Cardinality(Slot \ {i}) = Slots - 1
    BY <1>1, FS_RemoveElement
  <2>3. Cardinality(Used(items)) <= Slots - 1
    BY <2>1, <2>2, FS_Subset
  <2>4. /\ Cardinality(Entries(items)) <= Cardinality(Used(items))
        /\ Cardinality(Entries(items)) \in Nat /\ Cardinality(Used(items)) \in Nat
    BY EntriesCount, FS_CardinalityType
  <2> QED
    BY <1>1, <2>3, <2>4
<1>3. ASSUME Unique(items), \A i \in Slot : items[i].is_used PROVE Cardinality(Entries(items)) = Slots
  <2>1. Used(items) = Slot
    BY <1>3 DEF Used
  <2> QED
    BY <1>1, <1>3, <2>1, EntriesCount
<1> QED
  BY <1>2, <1>3

(* The two modules count alike. *)
LEMMA SameCardinality == \A S : Abstract!Cardinality(S) = Cardinality(S)
  BY DEF Cardinality, Abstract!Cardinality, IsFiniteSet, Abstract!IsFiniteSet

(* A stored beacon is one heard by the abstract specification. *)
LEMMA HearStep ==
  ASSUME TypeOK, NEW items \in Items, Unique(items), NEW b \in Beacon, b.channel \in 1 .. channel_nums,
         Entries(items) = Abstract!Live, Known' = Entries(Stored(items, b)),
         UNCHANGED <<now, channel_nums>>
  PROVE  Abstract!Hear
<1>1. now \in Nat /\ \A k \in Slot : items[k] \in Item
  BY Numbers DEF Items
<1>2. PICK live : live = Entries(items)
  OBVIOUS
<1>3. \A e : e \in live <=> \E k \in Slot : items[k].is_used /\ e = EntryOf(items[k])
  BY <1>2 DEF Entries
<1>4. \A x : EntryOf(x).ap = x.ap /\ EntryOf(x).rssi = x.rssi
  BY DEF EntryOf
<1>5. PICK new : new = Stored(items, b)
  OBVIOUS
<1>6. PICK i \in Slot : \/ Updates(new, items, b, i)
                        \/ Fills(new, items, b, i)
                        \/ Replaces(new, items, b, i)
  BY <1>1, <1>5, StoredIs
<1>7. Puts(new, items, b, i) => Known' = (IF items[i].is_used THEN live \ {EntryOf(items[i])}
                                          ELSE live) \cup {Abstract!Entry(b)}
  BY <1>2, <1>5, PutEntries
<1>8. new = items => Known' = live
  BY <1>2, <1>5
<1>9. Same(items, b) = {} => ~\E x \in live : x.ap = b.ap
  BY <1>3, <1>4 DEF Same
<1>10. CASE Updates(new, items, b, i)
  <2>1. PICK x \in live : x = EntryOf(items[i]) /\ x.ap = b.ap /\ x.rssi = items[i].rssi
    BY <1>3, <1>4, <1>10 DEF Updates
  <2>2. Known' = IF b.rssi >= x.rssi THEN (live \ {x}) \cup {Abstract!Entry(b)} ELSE live
    BY <1>7, <1>8, <1>10, <2>1 DEF Updates
  <2>3. Abstract!Refresh(live, b)
    BY <2>1, <2>2 DEF Abstract!Refresh
  <2> QED
    BY <1>2, <2>1, <2>3 DEF Abstract!Hear
<1>11. CASE Fills(new, items, b, i)
  <2>1. Cardinality(live) < Slots
    BY <1>2, <1>11, EntriesRoom DEF Fills
  <2>2. Known' = live \cup {Abstract!Entry(b)}
    BY <1>7, <1>11 DEF Fills
  <2>3. Abstract!Add(live, b)
    BY <2>1, <2>2, SameCardinality DEF Abstract!Add
  <2>4. ~\E x \in live : x.ap = b.ap
    BY <1>9, <1>11 DEF Fills
  <2> QED
    BY <1>2, <2>3, <2>4 DEF Abstract!Hear
<1>12. CASE Replaces(new, items, b, i)
  <2>1. Cardinality(live) = Slots
    BY <1>2, <1>12, EntriesRoom DEF Replaces
  <2>2. PICK x \in live : x = EntryOf(items[i]) /\ x.rssi = items[i].rssi
    BY <1>3, <1>4, <1>12 DEF Replaces
  <2>3. \A y \in live : x.rssi <= y.rssi
    BY <1>3, <1>4, <1>12, <2>2 DEF Replaces
  <2>4. Known' = IF b.rssi > x.rssi THEN (live \ {x}) \cup {Abstract!Entry(b)} ELSE live
    BY <1>7, <1>8, <1>12, <2>2 DEF Replaces
  <2>5. Abstract!Replace(live, b)
    BY <2>1, <2>2, <2>3, <2>4, SameCardinality DEF Abstract!Replace
  <2>6. ~\E y \in live : y.ap = b.ap
    BY <1>9, <1>12 DEF Replaces
  <2> QED
    BY <1>2, <2>5, <2>6 DEF Abstract!Hear
<1> QED
  BY <1>6, <1>10, <1>11, <1>12

(* The invariant of the refinement. *)
TableInv == TypeOK /\ Ranked /\ Aged

(* A tick makes every item one older, and no entry another. *)
LEMMA TickStep ==
  ASSUME TableInv, Tick
  PROVE  Aged' /\ Known' = Known
<1>1. TypeOK /\ now \in Nat /\ scan_items \in Items /\ now' = now + 1 /\ scan_items' = scan_items
  BY Numbers DEF TableInv, Tick
<1>2. ASSUME NEW k \in Slot, scan_items[k].is_used
      PROVE  /\ Age(scan_items[k])' = Age(scan_items[k]) + 1
             /\ Age(scan_items[k]) \in Nat /\ Age(scan_items[k]) <= now - Start
  <2>1. PICK x \in Item : x = scan_items[k]
    BY <1>1 DEF Items
  <2>2. Age(x) = AgeAt(now, x.lastseen) /\ Age(x) \in Nat /\ x.lastseen \in 0 .. ClockMod - 1
    BY <1>1, AgeIs
  <2>3. Age(x) <= now - Start
    BY <1>2, <2>1 DEF TableInv, Aged
  <2>4. now - Start + 1 < ClockMod
    BY <1>1, ScanAssumption DEF Tick
  <2>5. Age(x) + 1 < ClockMod
    BY <1>1, <2>2, <2>3, <2>4, ScanAssumption
  <2>6. AgeAt(now + 1, x.lastseen) = Age(x) + 1
    BY <1>1, <2>2, <2>5, AgeStep
  <2>7. Age(scan_items[k])' = AgeAt(now + 1, x.lastseen)
    BY <1>1, <2>1 DEF Age, AgeAt, TimeMs
  <2> QED
    BY <2>1, <2>2, <2>3, <2>6, <2>7
<1>3. Aged'
  <2>1. Start \in Nat
    BY ScanAssumption
  <2> SUFFICES ASSUME NEW k \in Slot, scan_items[k].is_used
               PROVE  Age(scan_items[k])' <= now' - Start
    BY <1>1 DEF Aged
  <2> QED
    BY <1>1, <1>2, <2>1
<1>4. ASSUME NEW k \in Slot, scan_items[k].is_used
      PROVE  EntryOf(scan_items[k])' = EntryOf(scan_items[k])
  <2>1. now' - Age(scan_items[k])' = now - Age(scan_items[k])
    BY <1>1, <1>2, <1>4
  <2> QED
    BY <1>1, <2>1 DEF EntryOf
<1>5. Entries(scan_items)' = Entries(scan_items)
  BY <1>1, <1>4 DEF Entries
<1>6. Known' = Entries(scan_items)'
  BY DEF Known, Entries, EntryOf
<1> QED
  BY <1>3, <1>5, <1>6, KnownIs

(* A saved beacon leaves items of the cleaned table and perhaps a new one. *)
LEMMA SaveStep ==
  ASSUME TableInv, NEW b \in Beacon, wifi_mgmr_scan_beacon_save(b)
  PROVE  Aged' /\ Abstract!Hear
<1>1. /\ TypeOK /\ now \in Nat /\ Start \in Nat /\ now >= Start
      /\ scan_items \in Items /\ UNCHANGED <<now, channel_nums>>
  BY Numbers, ScanAssumption DEF TableInv, TypeOK, wifi_mgmr_scan_beacon_save
<1>2. PICK c \in Items : c = Cleaned /\ Unique(c)
  BY SavedIs DEF TableInv
<1>3. PICK s \in Items : s = Stored(c, b)
  BY <1>2, SavedIs DEF TableInv
<1>4. Alike(scan_items', s)
  BY <1>2, <1>3, SavedIs DEF TableInv, wifi_mgmr_scan_beacon_save
<1>5. Entries(c) = Abstract!Live
  BY <1>1, <1>2, CleanedLive
<1>6. Known' = Entries(s)
  <2>1. Entries(scan_items') = Entries(s)
    BY <1>4, AlikeEntries
  <2>2. \A x : Age(x)' = Age(x)
    BY <1>1 DEF Age, TimeMs
  <2>3. Known' = Entries(scan_items')
    BY <1>1, <2>2 DEF Known, Entries, EntryOf
  <2> QED
    BY <2>1, <2>3
<1>7. b.channel \in 1 .. channel_nums
  BY DEF wifi_mgmr_scan_beacon_save, Accepted
<1>8. Abstract!Hear
  BY <1>1, <1>2, <1>3, <1>5, <1>6, <1>7, HearStep
<1>9. Aged'
  <2> SUFFICES ASSUME NEW k \in Slot, scan_items'[k].is_used
               PROVE  Age(scan_items[k])' <= now' - Start
    BY DEF Aged
  <2>1. PICK l \in Slot : scan_items'[k] = s[l]
    BY <1>4 DEF Alike
  <2>2. Age(scan_items[k])' = Age(s[l])
    BY <1>1, <2>1 DEF Age, TimeMs
  <2>3. s[l] = c[l] \/ s[l] = NewItem(b)
    BY <1>1, <1>3, StoredIs DEF Updates, Fills, Replaces, Puts
  <2>4. CASE s[l] = NewItem(b)
    <3>1. Age(NewItem(b)) = 0
      BY <1>1, NewAge
    <3> QED
      BY <1>1, <2>2, <2>4, <3>1
  <2>5. CASE s[l] = c[l]
    <3>1. ~Empty.is_used
      BY DEF Empty
    <3>2. c[l] = scan_items[l] /\ scan_items[l].is_used
      BY <1>1, <1>2, <2>1, <2>5, <3>1, CleanedItems
    <3>3. Age(scan_items[l]) <= now - Start
      BY <3>2 DEF TableInv, Aged
    <3> QED
      BY <1>1, <2>2, <2>5, <3>2, <3>3
  <2> QED
    BY <2>3, <2>4, <2>5
<1> QED
  BY <1>8, <1>9

(* Every step keeps the invariant and is a step of the abstract            *)
(* specification.                                                          *)
LEMMA TableStep == TableInv /\ [Next]_vars => TableInv' /\ [Abstract!Next]_(Abstract!vars)
<1> SUFFICES ASSUME TableInv, [Next]_vars PROVE TableInv' /\ [Abstract!Next]_(Abstract!vars)
  OBVIOUS
<1>1. TypeOK' /\ Ranked'
  BY RankedStep DEF TableInv
<1>2. ASSUME UNCHANGED <<scan_items, now>> PROVE Aged' /\ Abstract!Environment
  <2>1. now \in Nat
    BY Numbers DEF TableInv
  <2>2. \A x : Age(x)' = Age(x)
    BY <1>2 DEF Age, TimeMs
  <2>3. Aged'
    BY <1>2, <2>2 DEF TableInv, Aged
  <2>4. Known' = Known
    BY <1>2, <2>2 DEF Known
  <2> QED
    BY <1>2, <2>1, <2>3, <2>4 DEF Abstract!Environment
<1>3. ASSUME NEW b \in Beacon, wifi_mgmr_scan_beacon_save(b) PROVE Aged' /\ Abstract!Next
  BY <1>3, SaveStep DEF Abstract!Next
<1>4. ASSUME Tick PROVE Aged' /\ Abstract!Next
  <2>1. now' >= now
    BY <1>4, Numbers DEF TableInv, Tick
  <2>2. Aged' /\ Known' = Known
    BY <1>4, TickStep
  <2> QED
    BY <2>1, <2>2 DEF Abstract!Next, Abstract!Environment
<1>5. CASE UNCHANGED <<scan_items, now>>
  BY <1>1, <1>2, <1>5 DEF TableInv, Abstract!Next
<1>6. ASSUME NEW n \in Countries, set_country_code(n) PROVE UNCHANGED <<scan_items, now>>
  BY <1>6 DEF set_country_code
<1>7. ASSUME NEW filter \in BOOLEAN, scan_filter_hidden_ssid(filter)
      PROVE  UNCHANGED <<scan_items, now>>
  BY <1>7 DEF scan_filter_hidden_ssid
<1>8. ASSUME NEW ssid \in Ssid, scan_ap_find(ssid) PROVE UNCHANGED <<scan_items, now>>
  BY <1>8 DEF scan_ap_find
<1>9. scan_ap_copy \/ UNCHANGED vars => UNCHANGED <<scan_items, now>>
  BY DEF scan_ap_copy, vars
<1> QED
  BY <1>1, <1>3, <1>4, <1>5, <1>6, <1>7, <1>8, <1>9 DEF Next, TableInv

(* The array of wifiMgmr.scan_items with its slots, its order and its      *)
(* wrapping stamps implements the set of best recent beacons, for any      *)
(* number of slots and any clock.                                          *)
THEOREM TableRefines == Spec => ImplementsScanSet
<1>1. Init => TableInv /\ Abstract!Init
  <2> SUFFICES ASSUME Init PROVE TableInv /\ Abstract!Init
    OBVIOUS
  <2>1. TypeOK /\ Ranked /\ \A k \in Slot : ~scan_items[k].is_used
    BY RankedInit DEF Init, Empty
  <2>2. Aged
    BY <2>1 DEF Aged
  <2>3. Known = {}
    BY <2>1 DEF Known
  <2>4. Abstract!Init
    BY <2>1, <2>3, Numbers DEF Abstract!Init
  <2> QED
    BY <2>1, <2>2, <2>4 DEF TableInv
<1> QED
  BY <1>1, TableStep, PTL DEF Spec, ImplementsScanSet, Abstract!Spec

==============================================================================
