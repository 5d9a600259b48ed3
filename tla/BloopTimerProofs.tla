-------------------------- MODULE BloopTimerProofs ---------------------------
(***************************************************************************)
(* Proofs about the timers of Bloop, for any number of timers, any periods *)
(* and any clock that wraps after more than twice the longest of them: the *)
(* lists keep every timer once and in order, and the looper never asks for *)
(* the highest of no tasks.  They build on Inv of BloopProofs.             *)
(***************************************************************************)
EXTENDS BloopProofs, FiniteSetTheorems

(* Ticks a timer has left; negative when it is overdue. *)
Remaining(m) == Diff(time_target[m], now)

(* The ticks left at n, by the targets tt, are within bounds. *)
InWindow(m, tt, n) == Diff(tt[m], n) \in -MaxLate .. Period[m]

(* A timer in one of the lists is never overdue by more than MaxLate nor   *)
(* further away than its period, and its delay is still its period.        *)
InTime ==
  \A m \in Configured : /\ InWindow(m, time_target, now)
                        /\ Diff(time_target[m], time_added[m]) = Period[m]

Once(s) == \A i, j \in DOMAIN s : s[i] = s[j] => i = j

(* No timer is twice in a list or in two of the lists. *)
OnceEach ==
  /\ Once(timer_dlist) /\ Once(timer_dued) /\ Once(waiting_queue)
  /\ ToSet(timer_dlist) \cap ToSet(timer_dued) = {}
  /\ ToSet(timer_dlist) \cap ToSet(waiting_queue) = {}
  /\ ToSet(timer_dued) \cap ToSet(waiting_queue) = {}

AscendingBy(list, tt) ==
  \A j, k \in DOMAIN list : j < k => Diff(tt[list[j]], tt[list[k]]) <= 0

(* The first half of TimersAscend. *)
Ascending == AscendingBy(timer_dlist, time_target)

(* When the looper goes on with no marked task it does so for a timer that *)
(* is up, and the timer marks one.                                         *)
Picks ==
  /\ pc = "timers" /\ bitmap_evt_sync = {} =>
       timer_dlist # <<>> /\ Remaining(Head(timer_dlist)) <= 0
  /\ pc = "due" /\ bitmap_evt_sync = {} => Due
  /\ pc \in {"pick", "handler"} => bitmap_evt_sync # {}

TimerInv == TypeOK /\ InTime /\ OnceEach /\ Ascending /\ Picks

-----------------------------------------------------------------------------
(* Clock arithmetic. *)

(* Diff(a, b) is the representative of a - b in the middle range. *)
LEMMA DiffIs ==
  ASSUME NEW a \in Tick, NEW b \in Tick
  PROVE  /\ Diff(a, b) \in Int
         /\ -ClockMod <= 2 * Diff(a, b) /\ 2 * Diff(a, b) < ClockMod
         /\ \/ Diff(a, b) = a - b
            \/ Diff(a, b) = a - b - ClockMod
            \/ Diff(a, b) = a - b + ClockMod
<1>1. ClockMod \in Nat \ {0} /\ a \in 0 .. ClockMod - 1 /\ b \in 0 .. ClockMod - 1
  BY ConstantsAssumption DEF Tick
<1> DEFINE d == (a - b) % ClockMod
<1>2. d = (IF a >= b THEN a - b ELSE a - b + ClockMod)
  BY <1>1
<1>3. Diff(a, b) = IF 2 * d >= ClockMod THEN d - ClockMod ELSE d
  BY DEF Diff
<1> HIDE DEF d
<1> QED
  BY <1>1, <1>2, <1>3

(* ... and the only one. *)
LEMMA DiffUnique ==
  ASSUME NEW a \in Tick, NEW b \in Tick, NEW d \in Int,
         -ClockMod <= 2 * d, 2 * d < ClockMod,
         d = a - b \/ d = a - b - ClockMod \/ d = a - b + ClockMod
  PROVE  Diff(a, b) = d
<1>1. ClockMod \in Nat \ {0} /\ a \in 0 .. ClockMod - 1 /\ b \in 0 .. ClockMod - 1
  BY ConstantsAssumption DEF Tick
<1>2. PICK x \in Int : x = Diff(a, b)
  BY DiffIs
<1>3. /\ -ClockMod <= 2 * x /\ 2 * x < ClockMod
      /\ x = a - b \/ x = a - b - ClockMod \/ x = a - b + ClockMod
  BY <1>2, DiffIs
<1>4. x = d
  BY <1>1, <1>3
<1> QED
  BY <1>2, <1>4

(* Less than half the range apart, differences change sign. *)
LEMMA DiffFlip ==
  ASSUME NEW a \in Tick, NEW b \in Tick, -ClockMod < 2 * Diff(a, b)
  PROVE  Diff(b, a) = -Diff(a, b)
<1>1. ClockMod \in Nat \ {0} /\ a \in Int /\ b \in Int
  BY ConstantsAssumption DEF Tick
<1>2. PICK x \in Int : x = Diff(a, b)
  BY DiffIs
<1>3. /\ -ClockMod < 2 * x /\ 2 * x < ClockMod
      /\ x = a - b \/ x = a - b - ClockMod \/ x = a - b + ClockMod
  BY <1>2, DiffIs
<1>4. /\ -x \in Int /\ -ClockMod <= 2 * (-x) /\ 2 * (-x) < ClockMod
      /\ -x = b - a \/ -x = b - a - ClockMod \/ -x = b - a + ClockMod
  BY <1>1, <1>3
<1>5. Diff(b, a) = -x
  BY <1>4, DiffUnique
<1> QED
  BY <1>2, <1>5

(* Differences to a common point subtract. *)
LEMMA DiffSub ==
  ASSUME NEW a \in Tick, NEW b \in Tick, NEW n \in Tick,
         -ClockMod <= 2 * (Diff(a, n) - Diff(b, n)), 2 * (Diff(a, n) - Diff(b, n)) < ClockMod
  PROVE  Diff(a, b) = Diff(a, n) - Diff(b, n)
<1>1. ClockMod \in Nat \ {0} /\ a \in 0 .. ClockMod - 1 /\ b \in 0 .. ClockMod - 1 /\ n \in Int
  BY ConstantsAssumption DEF Tick
<1>2. PICK x \in Int, y \in Int : x = Diff(a, n) /\ y = Diff(b, n)
  BY DiffIs
<1>3. /\ x = a - n \/ x = a - n - ClockMod \/ x = a - n + ClockMod
      /\ y = b - n \/ y = b - n - ClockMod \/ y = b - n + ClockMod
      /\ -ClockMod <= 2 * (x - y) /\ 2 * (x - y) < ClockMod
  BY <1>2, DiffIs
<1>4. x - y \in Int /\ (x - y = a - b \/ x - y = a - b - ClockMod \/ x - y = a - b + ClockMod)
  BY <1>1, <1>3
<1>5. Diff(a, b) = x - y
  BY <1>3, <1>4, DiffUnique
<1> QED
  BY <1>2, <1>5

(* One tick on. *)
LEMMA NextTick ==
  ASSUME NEW n \in Tick
  PROVE  /\ (n + 1) % ClockMod \in Tick
         /\ (n + 1) % ClockMod = IF n = ClockMod - 1 THEN 0 ELSE n + 1
<1>1. ClockMod \in Nat \ {0} /\ n \in 0 .. ClockMod - 1
  BY ConstantsAssumption DEF Tick
<1>2. (n + 1) % ClockMod = IF n = ClockMod - 1 THEN 0 ELSE n + 1
  <2>1. CASE n = ClockMod - 1
    <3>1. 0 \in 0 .. ClockMod - 1 /\ (0 + ClockMod) % ClockMod = 0
      BY <1>1
    <3> QED
      BY <1>1, <2>1, <3>1
  <2>2. CASE n # ClockMod - 1
    <3>1. n + 1 \in 0 .. ClockMod - 1
      BY <1>1, <2>2
    <3> QED
      BY <1>1, <2>2, <3>1
  <2> QED
    BY <2>1, <2>2
<1> QED
  BY <1>1, <1>2 DEF Tick

(* A timer loses one tick. *)
LEMMA DiffTick ==
  ASSUME NEW a \in Tick, NEW n \in Tick, -ClockMod < 2 * Diff(a, n) - 1
  PROVE  Diff(a, (n + 1) % ClockMod) = Diff(a, n) - 1
<1>1. ClockMod \in Nat \ {0} /\ a \in 0 .. ClockMod - 1 /\ n \in 0 .. ClockMod - 1
  BY ConstantsAssumption DEF Tick
<1>2. PICK x \in Int : x = Diff(a, n)
  BY DiffIs
<1>3. PICK p \in Tick : p = (n + 1) % ClockMod /\ p = IF n = ClockMod - 1 THEN 0 ELSE n + 1
  BY NextTick
<1>4. /\ -ClockMod <= 2 * x - 2 /\ 2 * x < ClockMod
      /\ x = a - n \/ x = a - n - ClockMod \/ x = a - n + ClockMod
  BY <1>1, <1>2, DiffIs
<1>5. CASE 2 * (x - 1) >= -ClockMod
  <2>1. p \in 0 .. ClockMod - 1
    BY <1>3 DEF Tick
  <2>2. x - 1 = a - p \/ x - 1 = a - p - ClockMod \/ x - 1 = a - p + ClockMod
    BY <1>1, <1>3, <1>4, <1>5, <2>1
  <2>3. Diff(a, p) = x - 1
    BY <1>1, <1>4, <1>5, <2>2, DiffUnique
  <2> QED
    BY <1>2, <1>3, <2>3
<1> QED
  BY <1>1, <1>4, <1>5

(* A timer is configured d ticks ahead. *)
LEMMA DiffConfigured ==
  ASSUME NEW n \in Tick, NEW d \in Nat, 2 * d < ClockMod
  PROVE  (n + d) % ClockMod \in Tick /\ Diff((n + d) % ClockMod, n) = d
<1>1. ClockMod \in Nat \ {0} /\ n \in 0 .. ClockMod - 1
  BY ConstantsAssumption DEF Tick
<1>2. (n + d) % ClockMod = IF n + d >= ClockMod THEN n + d - ClockMod ELSE n + d
  BY <1>1
<1>3. (n + d) % ClockMod \in Tick
  BY <1>1, <1>2 DEF Tick
<1>4. PICK p \in Tick : p = (n + d) % ClockMod
  BY <1>3
<1>5. d = p - n \/ d = p - n + ClockMod
  BY <1>1, <1>2, <1>4
<1>6. Diff(p, n) = d
  BY <1>1, <1>5, DiffUnique
<1> QED
  BY <1>4, <1>6

-----------------------------------------------------------------------------
(* Lists: a timer taken off the front, put on the front, put in its place. *)

(* A list is its first timer and the others. *)
LEMMA HeadTail ==
  ASSUME NEW S, NEW s \in Seq(S), s # <<>>
  PROVE  /\ Head(s) \in S /\ Tail(s) \in Seq(S)
         /\ 1 \in DOMAIN s /\ s[1] = Head(s)
         /\ ToSet(s) = {Head(s)} \cup ToSet(Tail(s))
         /\ Once(s) => Once(Tail(s)) /\ Head(s) \notin ToSet(Tail(s))
<1>1. /\ Len(s) \in Nat \ {0} /\ DOMAIN s = 1 .. Len(s) /\ Head(s) = s[1]
      /\ Tail(s) \in Seq(S) /\ Len(Tail(s)) = Len(s) - 1
      /\ \A i \in 1 .. Len(Tail(s)) : Tail(s)[i] = s[i + 1]
      /\ \A i \in 1 .. Len(s) : s[i] \in S
  BY HeadTailProperties, EmptySeq, LenProperties, ElementOfSeq
<1>2. PICK u \in Seq(S) : u = Tail(s)
  BY <1>1
<1>3. /\ DOMAIN u = 1 .. (Len(s) - 1) /\ \A i \in DOMAIN u : u[i] = s[i + 1] /\ i + 1 \in DOMAIN s
  BY <1>1, <1>2
<1>4. \A i \in DOMAIN s : i = 1 \/ (i - 1 \in DOMAIN u /\ u[i - 1] = s[i])
  BY <1>1, <1>3
<1>5. ToSet(s) = {s[1]} \cup ToSet(u)
  <2>1. ASSUME NEW x \in ToSet(s) PROVE x \in {s[1]} \cup ToSet(u)
    BY <1>4, <2>1 DEF ToSet
  <2>2. ASSUME NEW x \in {s[1]} \cup ToSet(u) PROVE x \in ToSet(s)
    BY <1>1, <1>3, <2>2 DEF ToSet
  <2> QED
    BY <2>1, <2>2
<1>6. ASSUME Once(s) PROVE Once(u) /\ s[1] \notin ToSet(u)
  <2>1. ASSUME NEW i \in DOMAIN u, NEW j \in DOMAIN u, u[i] = u[j] PROVE i = j
    <3>1. i + 1 = j + 1
      BY <1>3, <1>6, <2>1 DEF Once
    <3> QED
      BY <1>3, <3>1
  <2>2. ASSUME NEW i \in DOMAIN u, u[i] = s[1] PROVE FALSE
    <3>1. i + 1 = 1
      BY <1>1, <1>3, <1>6, <2>2 DEF Once
    <3> QED
      BY <1>3, <3>1
  <2> QED
    BY <2>1, <2>2 DEF Once, ToSet
<1> QED
  BY <1>1, <1>2, <1>5, <1>6

(* r is s with m put at position k. *)
InsertedAt(r, s, m, k) ==
  /\ k \in 1 .. Len(s) + 1
  /\ Len(r) = Len(s) + 1 /\ r[k] = m
  /\ \A i \in 1 .. Len(s) : i < k => r[i] = s[i]
  /\ \A i \in 1 .. Len(s) : i >= k => r[i + 1] = s[i]

(* The same, seen from r. *)
Shifted(r, s, k) ==
  /\ Len(s) \in Nat /\ DOMAIN s = 1 .. Len(s) /\ DOMAIN r = 1 .. Len(s) + 1
  /\ k \in DOMAIN r
  /\ \A j \in DOMAIN r : \/ j = k
                         \/ j < k /\ j \in DOMAIN s /\ r[j] = s[j]
                         \/ j > k /\ j - 1 \in DOMAIN s /\ j - 1 >= k /\ r[j] = s[j - 1]

(* The two views of an insertion agree. *)
LEMMA InsertedView ==
  ASSUME NEW S, NEW s \in Seq(S), NEW r \in Seq(S), NEW m, NEW k, InsertedAt(r, s, m, k)
  PROVE  Shifted(r, s, k)
<1>1. /\ Len(s) \in Nat /\ DOMAIN s = 1 .. Len(s) /\ DOMAIN r = 1 .. Len(s) + 1
      /\ k \in 1 .. Len(s) + 1
  BY LenProperties DEF InsertedAt
<1>2. ASSUME NEW j \in DOMAIN r, j < k PROVE j \in DOMAIN s /\ r[j] = s[j]
  BY <1>1, <1>2 DEF InsertedAt
<1>3. ASSUME NEW j \in DOMAIN r, j > k
      PROVE  j - 1 \in DOMAIN s /\ j - 1 >= k /\ r[j] = s[j - 1]
  <2>1. j - 1 \in 1 .. Len(s) /\ j - 1 >= k /\ (j - 1) + 1 = j
    BY <1>1, <1>3
  <2> QED
    BY <1>1, <2>1 DEF InsertedAt
<1> QED
  BY <1>1, <1>2, <1>3 DEF Shifted

(* Inserting adds one timer, and no timer twice. *)
LEMMA InsertedSet ==
  ASSUME NEW S, NEW s \in Seq(S), NEW r \in Seq(S), NEW m, NEW k, InsertedAt(r, s, m, k)
  PROVE  /\ ToSet(r) = ToSet(s) \cup {m}
         /\ Once(s) /\ m \notin ToSet(s) => Once(r)
<1>1. /\ Len(s) \in Nat /\ DOMAIN s = 1 .. Len(s) /\ DOMAIN r = 1 .. Len(s) + 1
      /\ k \in DOMAIN r /\ r[k] = m
      /\ \A j \in DOMAIN r : \/ j = k
                             \/ j < k /\ j \in DOMAIN s /\ r[j] = s[j]
                             \/ j > k /\ j - 1 \in DOMAIN s /\ j - 1 >= k /\ r[j] = s[j - 1]
      /\ \A i \in DOMAIN s : i < k => i \in DOMAIN r /\ r[i] = s[i]
      /\ \A i \in DOMAIN s : i >= k => i + 1 \in DOMAIN r /\ r[i + 1] = s[i]
  <2>1. Shifted(r, s, k)
    BY InsertedView
  <2> QED
    BY <2>1 DEF InsertedAt, Shifted
<1>2. ASSUME NEW x \in ToSet(r) PROVE x \in ToSet(s) \cup {m}
  BY <1>1, <1>2 DEF ToSet
<1>3. ASSUME NEW x \in ToSet(s) \cup {m} PROVE x \in ToSet(r)
  BY <1>1, <1>3 DEF ToSet
<1>4. ASSUME Once(s), m \notin ToSet(s), NEW i \in DOMAIN r, NEW j \in DOMAIN r, r[i] = r[j]
      PROVE  i = j
  <2>1. \A l \in DOMAIN s : s[l] # m
    BY <1>4 DEF ToSet
  <2>2. CASE i = k \/ j = k
    BY <1>1, <1>4, <2>1, <2>2
  <2>3. CASE i # k /\ j # k
    <3>1. PICK a \in DOMAIN s : r[i] = s[a] /\ ((a = i /\ i < k) \/ (a = i - 1 /\ i > k /\ a >= k))
      <4>1. \/ i < k /\ i \in DOMAIN s /\ r[i] = s[i]
            \/ i > k /\ i - 1 \in DOMAIN s /\ i - 1 >= k /\ r[i] = s[i - 1]
        BY <1>1, <2>3
      <4> QED
        BY <4>1
    <3>2. PICK b \in DOMAIN s : r[j] = s[b] /\ ((b = j /\ j < k) \/ (b = j - 1 /\ j > k /\ b >= k))
      <4>1. \/ j < k /\ j \in DOMAIN s /\ r[j] = s[j]
            \/ j > k /\ j - 1 \in DOMAIN s /\ j - 1 >= k /\ r[j] = s[j - 1]
        BY <1>1, <2>3
      <4> QED
        BY <4>1
    <3>3. a = b
      BY <1>4, <3>1, <3>2 DEF Once
    <3> QED
      BY <1>1, <3>1, <3>2, <3>3
  <2> QED
    BY <2>2, <2>3
<1> QED
  BY <1>2, <1>3, <1>4 DEF Once

(* Prepending is inserting at position 1. *)
LEMMA Prepended ==
  ASSUME NEW S, NEW s \in Seq(S), NEW m \in S
  PROVE  <<m>> \o s \in Seq(S) /\ InsertedAt(<<m>> \o s, s, m, 1)
<1>1. <<m>> \in Seq(S) /\ Len(<<m>>) = 1 /\ <<m>>[1] = m /\ Len(s) \in Nat
  BY LenProperties
<1>2. PICK a \in Seq(S) : a = <<m>>
  BY <1>1
<1>3. /\ a \o s \in Seq(S) /\ Len(a \o s) = 1 + Len(s)
      /\ \A i \in 1 .. 1 + Len(s) : (a \o s)[i] = IF i <= 1 THEN a[i] ELSE s[i - 1]
  BY <1>1, <1>2, ConcatProperties
<1>4. PICK r \in Seq(S) : r = a \o s
  BY <1>3
<1>5. r[1] = m /\ \A i \in 1 .. Len(s) : r[i + 1] = s[i]
  BY <1>1, <1>2, <1>3, <1>4
<1>6. InsertedAt(r, s, m, 1)
  BY <1>1, <1>3, <1>4, <1>5 DEF InsertedAt
<1> QED
  BY <1>2, <1>4, <1>6

(* Min is a lower bound. *)
LEMMA MinLeast ==
  ASSUME NEW S \in SUBSET Nat, S # {}, NEW y \in S
  PROVE  Min(S) <= y
<1>1. PICK x \in S : \A z \in S : ~(<<z, x>> \in OpToRel(<, Nat))
  BY NatLessThanWellFounded, WFMin
<1>2. ASSUME NEW z \in S PROVE x =< z
  <2>1. z < x => <<z, x>> \in OpToRel(<, Nat)
    BY DEF OpToRel
  <2>2. ~(z < x)
    BY <1>1, <2>1, Zenon
  <2> QED
    BY <2>2
<1> QED
  BY <1>2 DEF Min

(* bloop_timer_register puts the timer before the first one that is not    *)
(* earlier.                                                                *)
LEMMA RegisteredAt ==
  ASSUME NEW list \in Seq(LedTimer), NEW m \in LedTimer, NEW tt
  PROVE  /\ Registered(list, m, tt) \in Seq(LedTimer)
         /\ \E k \in 1 .. Len(list) + 1 :
              /\ InsertedAt(Registered(list, m, tt), list, m, k)
              /\ \A j \in 1 .. Len(list) : j < k => ~(Diff(tt[m], tt[list[j]]) <= 0)
              /\ k <= Len(list) => Diff(tt[m], tt[list[k]]) <= 0
<1> DEFINE later == {k \in 1 .. Len(list) : Diff(tt[m], tt[list[k]]) <= 0}
           k == IF later = {} THEN Len(list) + 1 ELSE Min(later)
           a == SubSeq(list, 1, k - 1)
           b == SubSeq(list, k, Len(list))
<1>1. Len(list) \in Nat /\ \A i \in 1 .. Len(list) : list[i] \in LedTimer
  BY ElementOfSeq, LenProperties
<1>2. later \in SUBSET Nat /\ later \subseteq 1 .. Len(list)
  BY <1>1
<1>3. later # {} => Min(later) \in later
  BY <1>2, MinIn
<1>4. \A j \in later : Min(later) <= j
  BY <1>2, MinLeast
<1>5. Min(later) \in later => Diff(tt[m], tt[list[Min(later)]]) <= 0
  BY Zenon
<1>6. \A j \in 1 .. Len(list) : Diff(tt[m], tt[list[j]]) <= 0 => j \in later
  OBVIOUS
<1> HIDE DEF later
<1>7. k \in 1 .. Len(list) + 1
  <2>1. CASE later = {}
    BY <1>1, <2>1
  <2>2. CASE later # {}
    <3>1. Min(later) \in 1 .. Len(list) /\ k = Min(later)
      BY <1>2, <1>3, <2>2
    <3> HIDE DEF k
    <3> QED
      BY <1>1, <3>1
  <2> QED
    BY <2>1, <2>2
<1>8. ASSUME NEW j \in 1 .. Len(list), j < k PROVE ~(Diff(tt[m], tt[list[j]]) <= 0)
  <2>1. CASE later = {}
    BY <1>6, <2>1
  <2>2. CASE later # {}
    <3>1. k = Min(later) /\ k \in Nat
      BY <1>7, <2>2
    <3>2. j \notin later
      BY <1>1, <1>4, <1>8, <3>1
    <3> QED
      BY <1>6, <3>2
  <2> QED
    BY <2>1, <2>2
<1>9. ASSUME k <= Len(list) PROVE Diff(tt[m], tt[list[k]]) <= 0
  <2>1. later # {}
    BY <1>1, <1>9
  <2> QED
    BY <1>3, <1>5, <2>1
<1>10. Registered(list, m, tt) = a \o <<m>> \o b
  BY DEF Registered, later
<1> HIDE DEF k
<1>11. a \in Seq(LedTimer) /\ Len(a) = k - 1 /\ \A i \in 1 .. k - 1 : a[i] = list[i]
  BY <1>1, <1>7, SubSeqProperties
<1>12. /\ b \in Seq(LedTimer) /\ Len(b) = Len(list) - k + 1
       /\ \A i \in 1 .. Len(list) - k + 1 : b[i] = list[k + i - 1]
  BY <1>1, <1>7, SubSeqProperties
<1> HIDE DEF a, b
<1>13. PICK c \in Seq(LedTimer) : c = <<m>> /\ Len(c) = 1 /\ c[1] = m
  <2>1. <<m>> \in Seq(LedTimer) /\ Len(<<m>>) = 1 /\ <<m>>[1] = m
    OBVIOUS
  <2> QED
    BY <2>1, Zenon
<1>14. /\ a \o c \in Seq(LedTimer) /\ Len(a \o c) = Len(a) + Len(c)
       /\ \A i \in 1 .. Len(a) + Len(c) : (a \o c)[i] = IF i <= Len(a) THEN a[i] ELSE c[i - Len(a)]
  BY <1>11, <1>13, ConcatProperties
<1>15. PICK e \in Seq(LedTimer) :
         /\ e = a \o c /\ Len(e) = Len(a) + Len(c)
         /\ \A i \in 1 .. Len(a) + Len(c) : e[i] = IF i <= Len(a) THEN a[i] ELSE c[i - Len(a)]
  BY <1>14, Zenon
<1>16. /\ Len(e) = k /\ e[k] = m /\ \A i \in 1 .. k - 1 : e[i] = list[i]
  <2>1. /\ Len(e) = k /\ k \in 1 .. Len(a) + Len(c) /\ ~(k <= Len(a)) /\ k - Len(a) = 1
        /\ \A i \in 1 .. k - 1 : i \in 1 .. Len(a) + Len(c) /\ i <= Len(a)
    BY <1>1, <1>7, <1>11, <1>13, <1>15
  <2> QED
    BY <2>1, <1>11, <1>13, <1>15
<1>17. /\ e \o b \in Seq(LedTimer) /\ Len(e \o b) = Len(e) + Len(b)
       /\ \A i \in 1 .. Len(e) + Len(b) : (e \o b)[i] = IF i <= Len(e) THEN e[i] ELSE b[i - Len(e)]
  <2>1. e \in Seq(LedTimer) /\ b \in Seq(LedTimer)
    BY <1>12
  <2> QED
    BY <2>1, ConcatProperties
<1>18. PICK r \in Seq(LedTimer) :
         /\ r = e \o b /\ Len(r) = Len(e) + Len(b)
         /\ \A i \in 1 .. Len(e) + Len(b) : r[i] = IF i <= Len(e) THEN e[i] ELSE b[i - Len(e)]
  BY <1>17, Zenon
<1>19. Len(r) = Len(list) + 1 /\ r[k] = m
  BY <1>1, <1>7, <1>12, <1>16, <1>18
<1>20. \A i \in 1 .. Len(list) : i < k => r[i] = list[i]
  BY <1>1, <1>7, <1>12, <1>16, <1>18
<1>21. \A i \in 1 .. Len(list) : i >= k => r[i + 1] = list[i]
  <2> SUFFICES ASSUME NEW i \in 1 .. Len(list), i >= k PROVE r[i + 1] = list[i]
    OBVIOUS
  <2>1. i + 1 - k \in 1 .. Len(list) - k + 1 /\ k + (i + 1 - k) - 1 = i
    BY <1>1, <1>7
  <2>2. r[i + 1] = b[i + 1 - k]
    BY <1>1, <1>7, <1>12, <1>16, <1>18
  <2> QED
    BY <2>1, <2>2, <1>12
<1>22. InsertedAt(r, list, m, k)
  BY <1>7, <1>19, <1>20, <1>21 DEF InsertedAt
<1>23. Registered(list, m, tt) = r
  BY <1>10, <1>13, <1>15, <1>18
<1> QED
  BY <1>7, <1>8, <1>9, <1>22, <1>23

-----------------------------------------------------------------------------
(* Types. *)

(* A nonempty set of tasks has a highest one. *)
LEMMA MaxTask == ASSUME NEW S \in SUBSET Task, S # {} PROVE Max(S) \in Task
<1>1. NTask \in Nat \ {0} /\ Task = 0 .. NTask - 1
  BY ConstantsAssumption DEF Task
<1> DEFINE T == {NTask - 1 - x : x \in S}
<1>2. T \in SUBSET Nat /\ T # {}
  <2>1. \A x \in S : NTask - 1 - x \in Nat
    BY <1>1
  <2>2. PICK x \in S : TRUE
    OBVIOUS
  <2>3. NTask - 1 - x \in T
    BY <2>2
  <2> QED
    BY <2>1, <2>3
<1>3. Min(T) \in T /\ \A y \in T : Min(T) <= y
  BY <1>2, MinIn, MinLeast
<1>4. (\A v \in T : \E x \in S : v = NTask - 1 - x) /\ (\A y \in S : NTask - 1 - y \in T)
  OBVIOUS
<1> HIDE DEF T
<1>5. PICK x \in S : Min(T) = NTask - 1 - x
  BY <1>3, <1>4, Zenon
<1>6. \A y \in S : NTask - 1 - x <= NTask - 1 - y
  BY <1>3, <1>4, <1>5
<1>7. \A y \in S : x >= y
  BY <1>1, <1>6
<1>8. Max(S) \in S
  BY <1>7 DEF Max
<1> QED
  BY <1>8

(* The rest of TypeOK, besides Types. *)
OtherTypes ==
  /\ bitmap_evt_async \subseteq Task /\ bitmap_evt_sync \subseteq Task
  /\ time_added \in [LedTimer -> Tick] /\ time_target \in [LedTimer -> Tick]
  /\ notified \in BOOLEAN /\ now \in Tick /\ time_now \in Tick
  /\ wake \in Tick \cup {Never} /\ old_map \subseteq Bit /\ highest_evt \in Task
  /\ pc \in {"copy", "idle", "sleep", "timers", "due", "store", "pick", "handler"}
  /\ posts \in 0 .. MaxPost

(* Types of BloopProofs and OtherTypes make up TypeOK. *)
LEMMA TypesSplit == TypeOK <=> Types /\ OtherTypes
<1>1. Tick \subseteq Int
  BY ConstantsAssumption DEF Tick
<1> QED
  BY <1>1 DEF TypeOK, Types, OtherTypes

(* bloop_timer_configure writes ticks. *)
LEMMA ConfigureTypes ==
  ASSUME OtherTypes, NEW m \in LedTimer, NEW d \in Int, bloop_timer_configure(m, d)
  PROVE  time_added' \in [LedTimer -> Tick] /\ time_target' \in [LedTimer -> Tick]
<1>1. ClockMod \in Nat \ {0} /\ now \in Int /\ Tick = 0 .. ClockMod - 1
  BY ConstantsAssumption DEF OtherTypes, Tick
<1>2. (now + d) % ClockMod \in Tick
  BY <1>1
<1> QED
  BY <1>2 DEF bloop_timer_configure, OtherTypes

(* Each action keeps OtherTypes. *)
LEMMA OtherTypesStep ==
  ASSUME Types, OtherTypes, Picks, [Next]_vars
  PROVE  OtherTypes'
<1>1. /\ 0 \in Tick /\ 0 \in Task /\ Led \in Task
      /\ {"TRIGGER", "WAITING"} \subseteq Bit /\ MaxPost \in Nat
      /\ \A m \in LedTimer : Period[m] \in Int
  BY ConstantsAssumption DEF Tick, Task
<1>2. CASE tick
  BY <1>2, NextTick DEF tick, OtherTypes, evtVars, timerVars, localVars, callVars
<1>3. ASSUME NEW c \in Caller, NEW m \in LedTimer, loopset_led_trigger(c, m)
      PROVE  OtherTypes'
  <2>1. time_added' \in [LedTimer -> Tick] /\ time_target' \in [LedTimer -> Tick]
    BY <1>1, <1>3, ConfigureTypes DEF loopset_led_trigger
  <2> QED
    BY <1>3, <2>1 DEF loopset_led_trigger, OtherTypes, evtVars, localVars
<1>4. ASSUME NEW c \in Caller, NEW e \in OtherEvent, looprt_evt_notify_async(c, e)
      PROVE  OtherTypes'
  BY <1>1, <1>4 DEF looprt_evt_notify_async, OtherTypes, evtVars, timerVars, localVars
<1>5. ASSUME NEW e \in OtherEvent, bloop_evt_set_async_fromISR(e)
      PROVE  OtherTypes'
  BY <1>1, <1>5 DEF bloop_evt_set_async_fromISR, Raise, OtherEvent, OtherTypes, timerVars, localVars
<1>6. ASSUME NEW c \in Caller, bloop_evt_set_async(c)
      PROVE  OtherTypes'
  <2>1. caller[c].evt \in Event
    BY DEF Types
  <2>2. caller[c].evt[1] \in Task
    BY <2>1 DEF Event
  <2> QED
    BY <1>6, <2>2 DEF bloop_evt_set_async, Raise, OtherTypes, timerVars, localVars
<1>7. ASSUME NEW c \in Caller, xTaskNotifyGive(c)
      PROVE  OtherTypes'
  BY <1>7 DEF xTaskNotifyGive, OtherTypes, evtVars, timerVars, localVars
<1>8. CASE copy_evt
  BY <1>8 DEF copy_evt, OtherTypes, timerVars, localVars, callVars
<1>9. CASE idle
  <2>1. timer_dlist # <<>> => time_target[Head(timer_dlist)] \in Tick
    BY HeadTail DEF Types, OtherTypes
  <2> QED
    BY <1>9, <2>1 DEF idle, OtherTypes, evtVars, timerVars, callVars
<1>10. CASE ulTaskNotifyTake
  BY <1>10 DEF ulTaskNotifyTake, OtherTypes, evtVars, timerVars, callVars
<1>11. CASE handle_timer
  BY <1>11 DEF handle_timer, OtherTypes, evtVars, timerVars, callVars
<1>12. CASE timer_is_up
  BY <1>1, <1>12 DEF timer_is_up, Types, OtherTypes, timerVars, callVars
<1>13. CASE timer_is_up_store
  BY <1>13 DEF timer_is_up_store, OtherTypes, callVars
<1>14. CASE timer_dued_clean
  <2>1. Head(timer_dued) \in LedTimer
    BY <1>14, HeadTail DEF timer_dued_clean, Types
  <2>2. Diff(time_target[Head(timer_dued)], time_added[Head(timer_dued)]) \in Int
    BY <2>1, DiffIs DEF OtherTypes
  <2>3. time_added' \in [LedTimer -> Tick] /\ time_target' \in [LedTimer -> Tick]
    BY <1>14, <2>1, <2>2, ConfigureTypes DEF timer_dued_clean
  <2> QED
    BY <1>14, <2>3 DEF timer_dued_clean, OtherTypes, evtVars, localVars, callVars
<1>15. CASE timers_done
  BY <1>1, <1>15 DEF timers_done, OtherTypes, evtVars, timerVars, callVars
<1>16. CASE evt_handle
  <2>1. bitmap_evt_sync \in SUBSET Task /\ bitmap_evt_sync # {}
    BY <1>16 DEF evt_handle, Picks, OtherTypes
  <2>2. Max(bitmap_evt_sync) \in Task
    BY <2>1, MaxTask
  <2> QED
    BY <1>16, <2>2 DEF evt_handle, OtherTypes, timerVars, callVars
<1>17. CASE waiting_queue_handle
  BY <1>17 DEF waiting_queue_handle, OtherTypes, evtVars, localVars, callVars
<1>18. CASE handler_evt
  BY <1>1, <1>18 DEF handler_evt, OtherTypes, timerVars, callVars
<1>19. CASE UNCHANGED vars
  BY <1>19 DEF vars, OtherTypes
<1> QED
  BY <1>2, <1>3, <1>4, <1>5, <1>6, <1>7, <1>8, <1>9, <1>10, <1>11, <1>12, <1>13, <1>14,
     <1>15, <1>16, <1>17, <1>18, <1>19 DEF Next, Looper, Post

-----------------------------------------------------------------------------
(* The order of the targets. *)

(* Within their windows timers compare as the ticks they have left. *)
LEMMA OrderIs ==
  ASSUME NEW tt \in [LedTimer -> Tick], NEW n \in Tick, NEW a \in LedTimer, NEW b \in LedTimer,
         InWindow(a, tt, n), InWindow(b, tt, n)
  PROVE  /\ Diff(tt[a], n) \in Int /\ Diff(tt[b], n) \in Int
         /\ Diff(tt[a], tt[b]) = Diff(tt[a], n) - Diff(tt[b], n)
<1>1. /\ ClockMod \in Nat \ {0} /\ MaxLate \in Nat
      /\ Period[a] \in Nat /\ Period[b] \in Nat
      /\ 2 * (Period[a] + MaxLate) < ClockMod /\ 2 * (Period[b] + MaxLate) < ClockMod
  BY ConstantsAssumption
<1>2. PICK x \in Int, y \in Int : x = Diff(tt[a], n) /\ y = Diff(tt[b], n)
  BY DiffIs
<1>3. /\ -MaxLate <= x /\ x <= Period[a] /\ -MaxLate <= y /\ y <= Period[b]
  BY <1>1, <1>2 DEF InWindow
<1>4. -ClockMod <= 2 * (x - y) /\ 2 * (x - y) < ClockMod
  BY <1>1, <1>3
<1> QED
  BY <1>2, <1>4, DiffSub

(* Registering a timer keeps the order. *)
LEMMA InsertAscends ==
  ASSUME NEW list \in Seq(LedTimer), NEW m \in LedTimer,
         NEW tt \in [LedTimer -> Tick], NEW n \in Tick,
         \A x \in ToSet(list) \cup {m} : InWindow(x, tt, n), AscendingBy(list, tt)
  PROVE  AscendingBy(Registered(list, m, tt), tt)
<1>1. PICK r \in Seq(LedTimer) : r = Registered(list, m, tt)
  BY RegisteredAt
<1>2. PICK k \in 1 .. Len(list) + 1 :
        /\ InsertedAt(r, list, m, k)
        /\ \A j \in 1 .. Len(list) : j < k => ~(Diff(tt[m], tt[list[j]]) <= 0)
        /\ k <= Len(list) => Diff(tt[m], tt[list[k]]) <= 0
  BY <1>1, RegisteredAt
<1>3. Shifted(r, list, k)
  BY <1>2, InsertedView
<1>4. Len(list) \in Nat /\ DOMAIN list = 1 .. Len(list) /\ DOMAIN r = 1 .. Len(list) + 1 /\ r[k] = m
  BY <1>2, <1>3 DEF Shifted, InsertedAt
<1> DEFINE left(x) == Diff(tt[x], n)
<1>5. \A j \in DOMAIN list : list[j] \in LedTimer /\ InWindow(list[j], tt, n)
  BY <1>4 DEF ToSet
<1>6. InWindow(m, tt, n)
  OBVIOUS
<1>7. left(m) \in Int /\ \A j \in DOMAIN list : left(list[j]) \in Int
  BY <1>5, <1>6, OrderIs
<1>8. \A i, j \in DOMAIN list : Diff(tt[list[i]], tt[list[j]]) = left(list[i]) - left(list[j])
  BY <1>5, OrderIs
<1>9. \A j \in DOMAIN list : /\ Diff(tt[m], tt[list[j]]) = left(m) - left(list[j])
                             /\ Diff(tt[list[j]], tt[m]) = left(list[j]) - left(m)
  BY <1>5, <1>6, OrderIs
<1> HIDE DEF left
<1>10. \A i, j \in DOMAIN list : i < j => left(list[i]) <= left(list[j])
  <2> SUFFICES ASSUME NEW i \in DOMAIN list, NEW j \in DOMAIN list, i < j
               PROVE  left(list[i]) <= left(list[j])
    OBVIOUS
  <2>1. left(list[i]) - left(list[j]) <= 0
    BY <1>8 DEF AscendingBy
  <2> QED
    BY <2>1, <1>7
<1>11. ASSUME NEW j \in DOMAIN list, j < k PROVE left(list[j]) - left(m) <= 0
  <2>1. ~(left(m) - left(list[j]) <= 0)
    BY <1>2, <1>4, <1>9, <1>11
  <2> QED
    BY <2>1, <1>7
<1>12. ASSUME NEW j \in DOMAIN list, j >= k PROVE left(m) - left(list[j]) <= 0
  <2>1. k \in DOMAIN list /\ (j = k \/ k < j)
    BY <1>4, <1>12
  <2>2. left(m) - left(list[k]) <= 0
    BY <2>1, <1>2, <1>4, <1>9
  <2>3. left(list[k]) <= left(list[j])
    BY <2>1, <1>7, <1>10
  <2> QED
    BY <2>1, <2>2, <2>3, <1>7
<1>13. ASSUME NEW i \in DOMAIN r, NEW j \in DOMAIN r, i < j
       PROVE  Diff(tt[r[i]], tt[r[j]]) <= 0
  <2>1. /\ i \in Int /\ j \in Int /\ k \in Int
        /\ \/ i = k
           \/ i < k /\ i \in DOMAIN list /\ r[i] = list[i]
           \/ i > k /\ i - 1 \in DOMAIN list /\ i - 1 >= k /\ r[i] = list[i - 1]
        /\ \/ j = k
           \/ j < k /\ j \in DOMAIN list /\ r[j] = list[j]
           \/ j > k /\ j - 1 \in DOMAIN list /\ j - 1 >= k /\ r[j] = list[j - 1]
    BY <1>3, <1>4 DEF Shifted
  <2>2. CASE i = k
    <3>1. j - 1 \in DOMAIN list /\ j - 1 >= k /\ r[j] = list[j - 1]
      BY <2>1, <2>2, <1>13
    <3> QED
      BY <2>2, <3>1, <1>4, <1>9, <1>12
  <2>3. CASE j = k
    <3>1. i \in DOMAIN list /\ i < k /\ r[i] = list[i]
      BY <2>1, <2>3, <1>13
    <3> QED
      BY <2>3, <3>1, <1>4, <1>9, <1>11
  <2>4. CASE i # k /\ j # k
    <3>1. PICK a \in DOMAIN list, b \in DOMAIN list : r[i] = list[a] /\ r[j] = list[b] /\ a < b
      <4>1. CASE i < k /\ j < k
        BY <2>1, <4>1, <1>13
      <4>2. CASE i < k /\ j > k
        <5>1. i < j - 1
          BY <2>1, <4>2
        <5> QED
          BY <2>1, <4>2, <5>1
      <4>3. CASE i > k /\ j > k
        <5>1. i - 1 < j - 1
          BY <2>1, <1>13
        <5> QED
          BY <2>1, <4>3, <5>1
      <4> QED
        BY <2>1, <2>4, <4>1, <4>2, <4>3, <1>13
    <3> QED
      BY <3>1 DEF AscendingBy
  <2> QED
    BY <2>2, <2>3, <2>4
<1> QED
  BY <1>1, <1>13 DEF AscendingBy

(* Taking the first timer off keeps the order. *)
LEMMA TailAscends ==
  ASSUME NEW list \in Seq(LedTimer), list # <<>>, NEW tt, AscendingBy(list, tt)
  PROVE  AscendingBy(Tail(list), tt)
<1>1. /\ Len(list) \in Nat \ {0} /\ DOMAIN list = 1 .. Len(list)
      /\ Tail(list) \in Seq(LedTimer) /\ Len(Tail(list)) = Len(list) - 1
      /\ \A i \in 1 .. Len(Tail(list)) : Tail(list)[i] = list[i + 1]
  BY HeadTailProperties, EmptySeq, LenProperties
<1>2. PICK u \in Seq(LedTimer) : u = Tail(list)
  BY <1>1
<1>3. /\ \A i \in DOMAIN u : u[i] = list[i + 1] /\ i + 1 \in DOMAIN list /\ i \in Int
  BY <1>1, <1>2
<1>4. ASSUME NEW i \in DOMAIN u, NEW j \in DOMAIN u, i < j
      PROVE  Diff(tt[u[i]], tt[u[j]]) <= 0
  <2>1. i + 1 < j + 1
    BY <1>3, <1>4
  <2> QED
    BY <1>3, <2>1 DEF AscendingBy
<1> QED
  BY <1>2, <1>4 DEF AscendingBy

-----------------------------------------------------------------------------
(* The steps that move time or timers. *)

(* What holds of the lists, and that no timer is dropped. *)
ListsKept == InTime' /\ OnceEach' /\ Ascending' /\ Configured \subseteq Configured'

(* What is in the lists are timers, with ticks for targets. *)
LEMMA ConfiguredTypes ==
  ASSUME TypeOK
  PROVE  /\ Configured \subseteq LedTimer
         /\ \A m \in Configured : time_target[m] \in Tick /\ time_added[m] \in Tick
<1>1. \A s \in Seq(LedTimer) : ToSet(s) \subseteq LedTimer
  BY DEF ToSet
<1>2. Configured \subseteq LedTimer
  BY <1>1 DEF Configured, TypeOK
<1> QED
  BY <1>2 DEF TypeOK

(* A tick: every timer in the lists has one tick less left. *)
LEMMA ListsTick ==
  ASSUME TypeOK, InTime, OnceEach, Ascending, tick
  PROVE  ListsKept /\ \A m \in Configured : Remaining(m)' = Remaining(m) - 1
<1>1. /\ UNCHANGED <<timer_dlist, timer_dued, time_added, time_target, waiting_queue>>
      /\ now' = (now + 1) % ClockMod /\ now \in Tick
  BY DEF tick, timerVars, TypeOK
<1>2. Configured' = Configured
  BY <1>1 DEF Configured
<1>3. ASSUME NEW m \in Configured
      PROVE  InWindow(m, time_target, now)' /\ Remaining(m)' = Remaining(m) - 1
  <2>1. m \in LedTimer /\ time_target[m] \in Tick
    BY ConfiguredTypes
  <2>2. /\ ClockMod \in Nat \ {0} /\ MaxLate \in Nat /\ Period[m] \in Nat \ {0}
        /\ 2 * (Period[m] + MaxLate) < ClockMod
    BY <2>1, ConstantsAssumption
  <2>3. PICK x \in Int : x = Diff(time_target[m], now)
    BY <1>1, <2>1, DiffIs
  <2>4. -MaxLate <= x /\ x <= Period[m]
    BY <2>2, <2>3 DEF InTime, InWindow
  <2>5. -ClockMod < 2 * x
    BY <2>2, <2>4
  <2>6. Diff(now, time_target[m]) = -x
    BY <1>1, <2>1, <2>3, <2>5, DiffFlip
  <2>7. -x < MaxLate
    BY <2>6 DEF tick
  <2>8. -ClockMod < 2 * x - 1
    BY <2>2, <2>4
  <2>9. Diff(time_target[m], (now + 1) % ClockMod) = x - 1
    BY <1>1, <2>1, <2>3, <2>8, DiffTick
  <2>10. x - 1 \in -MaxLate .. Period[m]
    BY <2>2, <2>4, <2>7
  <2> QED
    BY <1>1, <2>3, <2>9, <2>10 DEF InWindow, Remaining
<1>4. InTime'
  BY <1>1, <1>2, <1>3 DEF InTime, InWindow
<1>5. OnceEach' /\ Ascending'
  BY <1>1 DEF OnceEach, Ascending
<1> QED
  BY <1>2, <1>3, <1>4, <1>5 DEF ListsKept

(* bloop_timer_configure with the period: the timer is in its window, the  *)
(* others keep their targets.                                              *)
LEMMA ConfigureInTime ==
  ASSUME TypeOK, NEW m \in LedTimer, bloop_timer_configure(m, Period[m]), now' = now
  PROVE  /\ InWindow(m, time_target', now) /\ Diff(time_target'[m], time_added'[m]) = Period[m]
         /\ time_target' \in [LedTimer -> Tick]
         /\ \A x \in LedTimer : x # m => /\ time_target'[x] = time_target[x]
                                         /\ time_added'[x] = time_added[x]
<1>1. /\ MaxLate \in Nat /\ Period[m] \in Nat /\ 2 * Period[m] < ClockMod /\ ClockMod \in Nat
  BY ConstantsAssumption
<1>2. now \in Tick /\ time_target \in [LedTimer -> Tick] /\ time_added \in [LedTimer -> Tick]
  BY DEF TypeOK
<1>3. PICK p \in Tick : p = (now + Period[m]) % ClockMod /\ Diff(p, now) = Period[m]
  BY <1>1, <1>2, DiffConfigured
<1>4. /\ time_target' = [time_target EXCEPT ![m] = p] /\ time_added' = [time_added EXCEPT ![m] = now]
  BY <1>3 DEF bloop_timer_configure
<1>5. time_target'[m] = p /\ time_added'[m] = now
  BY <1>2, <1>4
<1>6. Period[m] \in -MaxLate .. Period[m]
  BY <1>1
<1> QED
  BY <1>2, <1>3, <1>4, <1>5, <1>6 DEF InWindow

(* A trigger: the new timer is queued, in its window. *)
LEMMA ListsTrigger ==
  ASSUME TypeOK, InTime, OnceEach, Ascending,
         NEW c \in Caller, NEW m \in LedTimer, loopset_led_trigger(c, m)
  PROVE  ListsKept
<1>1. /\ m \notin Configured /\ bloop_timer_configure(m, Period[m])
      /\ waiting_queue' = <<m>> \o waiting_queue
      /\ UNCHANGED <<timer_dlist, timer_dued, now>>
  BY DEF loopset_led_trigger
<1>2. waiting_queue \in Seq(LedTimer) /\ timer_dlist \in Seq(LedTimer)
  BY DEF TypeOK
<1>3. waiting_queue' \in Seq(LedTimer) /\ InsertedAt(waiting_queue', waiting_queue, m, 1)
  BY <1>1, <1>2, Prepended
<1>4. /\ ToSet(waiting_queue') = ToSet(waiting_queue) \cup {m}
      /\ Once(waiting_queue) /\ m \notin ToSet(waiting_queue) => Once(waiting_queue')
  <2>1. PICK w \in Seq(LedTimer) : w = waiting_queue'
    BY <1>3
  <2> QED
    BY <1>2, <1>3, <2>1, InsertedSet
<1>5. Configured' = Configured \cup {m}
  BY <1>1, <1>4 DEF Configured
<1>6. /\ InWindow(m, time_target', now) /\ Diff(time_target'[m], time_added'[m]) = Period[m]
      /\ \A x \in LedTimer : x # m => /\ time_target'[x] = time_target[x]
                                      /\ time_added'[x] = time_added[x]
  BY <1>1, ConfigureInTime
<1>7. InTime'
  BY <1>1, <1>5, <1>6, ConfiguredTypes DEF InTime, InWindow
<1>8. OnceEach'
  BY <1>1, <1>4 DEF OnceEach, Configured
<1>9. Ascending'
  <2>1. \A j \in DOMAIN timer_dlist : timer_dlist[j] \in LedTimer /\ timer_dlist[j] # m
    BY <1>1, <1>2 DEF Configured, ToSet
  <2> QED
    BY <1>1, <1>6, <2>1 DEF Ascending, AscendingBy
<1> QED
  BY <1>5, <1>7, <1>8, <1>9 DEF ListsKept

(* A timer that is up moves from the list to timer_dued. *)
LEMMA ListsUp ==
  ASSUME TypeOK, InTime, OnceEach, Ascending, timer_dlist # <<>>, timer_is_up_store
  PROVE  ListsKept
<1>1. /\ timer_dued' = <<Head(timer_dlist)>> \o timer_dued /\ timer_dlist' = Tail(timer_dlist)
      /\ UNCHANGED <<time_added, time_target, waiting_queue, now>>
  BY DEF timer_is_up_store
<1>2. timer_dlist \in Seq(LedTimer) /\ timer_dued \in Seq(LedTimer)
  BY DEF TypeOK
<1>3. PICK m \in LedTimer : m = Head(timer_dlist)
  BY <1>2, HeadTail
<1>4. /\ ToSet(timer_dlist) = {m} \cup ToSet(timer_dlist')
      /\ Once(timer_dlist') /\ m \notin ToSet(timer_dlist')
  BY <1>1, <1>2, <1>3, HeadTail DEF OnceEach
<1>5. timer_dued' \in Seq(LedTimer) /\ InsertedAt(timer_dued', timer_dued, m, 1)
  BY <1>1, <1>2, <1>3, Prepended
<1>6. /\ ToSet(timer_dued') = ToSet(timer_dued) \cup {m}
      /\ Once(timer_dued) /\ m \notin ToSet(timer_dued) => Once(timer_dued')
  <2>1. PICK w \in Seq(LedTimer) : w = timer_dued'
    BY <1>5
  <2> QED
    BY <1>2, <1>5, <2>1, InsertedSet
<1>7. Configured' = Configured
  BY <1>1, <1>4, <1>6 DEF Configured
<1>8. InTime'
  BY <1>1, <1>7 DEF InTime, InWindow
<1>9. OnceEach'
  BY <1>1, <1>4, <1>6 DEF OnceEach
<1>10. Ascending'
  BY <1>1, <1>2, TailAscends DEF Ascending
<1> QED
  BY <1>7, <1>8, <1>9, <1>10 DEF ListsKept

(* A timer that was up is configured again and put in its place. *)
LEMMA ListsClean ==
  ASSUME TypeOK, InTime, OnceEach, Ascending, timer_dued_clean
  PROVE  ListsKept
<1>1. PICK m : m = Head(timer_dued)
  OBVIOUS
<1>2. /\ timer_dued # <<>> /\ timer_dued' = Tail(timer_dued)
      /\ bloop_timer_configure(m, Diff(time_target[m], time_added[m]))
      /\ timer_dlist' = Registered(timer_dlist, m, time_target')
      /\ UNCHANGED <<waiting_queue, now>>
  BY <1>1 DEF timer_dued_clean
<1>3. timer_dlist \in Seq(LedTimer) /\ timer_dued \in Seq(LedTimer) /\ now \in Tick
  BY DEF TypeOK
<1>4. /\ m \in LedTimer /\ ToSet(timer_dued) = {m} \cup ToSet(timer_dued')
      /\ Once(timer_dued') /\ m \notin ToSet(timer_dued')
  BY <1>1, <1>2, <1>3, HeadTail DEF OnceEach
<1>5. m \in Configured /\ bloop_timer_configure(m, Period[m])
  BY <1>2, <1>4 DEF Configured, InTime
<1>6. /\ InWindow(m, time_target', now) /\ Diff(time_target'[m], time_added'[m]) = Period[m]
      /\ time_target' \in [LedTimer -> Tick]
      /\ \A x \in LedTimer : x # m => /\ time_target'[x] = time_target[x]
                                      /\ time_added'[x] = time_added[x]
  BY <1>2, <1>4, <1>5, ConfigureInTime
<1>7. PICK tt \in [LedTimer -> Tick] : tt = time_target'
  BY <1>6
<1>8. PICK r \in Seq(LedTimer), k \in 1 .. Len(timer_dlist) + 1 :
        r = Registered(timer_dlist, m, tt) /\ InsertedAt(r, timer_dlist, m, k)
  BY <1>3, <1>4, RegisteredAt
<1>9. timer_dlist' = r
  BY <1>2, <1>7, <1>8
<1>10. /\ ToSet(r) = ToSet(timer_dlist) \cup {m}
       /\ Once(timer_dlist) /\ m \notin ToSet(timer_dlist) => Once(r)
  BY <1>3, <1>8, InsertedSet
<1>11. Configured' = Configured
  BY <1>2, <1>4, <1>9, <1>10 DEF Configured
<1>12. \A x \in Configured : InWindow(x, tt, now) /\ Diff(tt[x], time_added'[x]) = Period[x]
  BY <1>6, <1>7, ConfiguredTypes DEF InTime, InWindow
<1>13. InTime'
  BY <1>2, <1>7, <1>11, <1>12 DEF InTime, InWindow
<1>14. m \notin ToSet(timer_dlist)
  BY <1>4 DEF OnceEach
<1>15. OnceEach'
  BY <1>2, <1>4, <1>9, <1>10, <1>14 DEF OnceEach
<1>16. Ascending'
  <2>1. \A j \in DOMAIN timer_dlist : timer_dlist[j] \in LedTimer /\ timer_dlist[j] # m
    BY <1>3, <1>14 DEF ToSet
  <2>2. AscendingBy(timer_dlist, tt)
    BY <1>6, <1>7, <2>1 DEF Ascending, AscendingBy
  <2>3. \A x \in ToSet(timer_dlist) \cup {m} : InWindow(x, tt, now)
    BY <1>5, <1>12 DEF Configured
  <2>4. AscendingBy(r, tt)
    BY <1>3, <1>4, <1>8, <2>2, <2>3, InsertAscends
  <2> QED
    BY <1>7, <1>9, <2>4 DEF Ascending
<1> QED
  BY <1>11, <1>13, <1>15, <1>16 DEF ListsKept

(* A queued timer is put in its place, with the target it got when queued. *)
LEMMA ListsQueue ==
  ASSUME TypeOK, InTime, OnceEach, Ascending, waiting_queue_handle
  PROVE  ListsKept
<1>1. PICK m : m = Head(waiting_queue)
  OBVIOUS
<1>2. /\ waiting_queue # <<>> /\ waiting_queue' = Tail(waiting_queue)
      /\ timer_dlist' = Registered(timer_dlist, m, time_target)
      /\ UNCHANGED <<timer_dued, time_added, time_target, now>>
  BY <1>1 DEF waiting_queue_handle, HasTriggers
<1>3. /\ timer_dlist \in Seq(LedTimer) /\ waiting_queue \in Seq(LedTimer) /\ now \in Tick
      /\ time_target \in [LedTimer -> Tick]
  BY DEF TypeOK
<1>4. /\ m \in LedTimer /\ ToSet(waiting_queue) = {m} \cup ToSet(waiting_queue')
      /\ Once(waiting_queue') /\ m \notin ToSet(waiting_queue')
  BY <1>1, <1>2, <1>3, HeadTail DEF OnceEach
<1>5. PICK r \in Seq(LedTimer), k \in 1 .. Len(timer_dlist) + 1 :
        r = Registered(timer_dlist, m, time_target) /\ InsertedAt(r, timer_dlist, m, k)
  BY <1>3, <1>4, RegisteredAt
<1>6. timer_dlist' = r
  BY <1>2, <1>5
<1>7. /\ ToSet(r) = ToSet(timer_dlist) \cup {m}
      /\ Once(timer_dlist) /\ m \notin ToSet(timer_dlist) => Once(r)
  BY <1>3, <1>5, InsertedSet
<1>8. Configured' = Configured
  BY <1>2, <1>4, <1>6, <1>7 DEF Configured
<1>9. InTime'
  BY <1>2, <1>8 DEF InTime, InWindow
<1>10. m \notin ToSet(timer_dlist)
  BY <1>4 DEF OnceEach
<1>11. OnceEach'
  BY <1>2, <1>4, <1>6, <1>7, <1>10 DEF OnceEach
<1>12. Ascending'
  <2>1. \A x \in ToSet(timer_dlist) \cup {m} : InWindow(x, time_target, now)
    BY <1>4 DEF Configured, InTime
  <2>2. AscendingBy(r, time_target)
    BY <1>3, <1>4, <1>5, <2>1, InsertAscends DEF Ascending
  <2> QED
    BY <1>2, <1>6, <2>2 DEF Ascending
<1> QED
  BY <1>8, <1>9, <1>11, <1>12 DEF ListsKept

(* All other steps leave time and timers alone. *)
LEMMA ListsAlone ==
  ASSUME InTime, OnceEach, Ascending, UNCHANGED <<timerVars, waiting_queue, now>>
  PROVE  ListsKept
  BY DEF timerVars, InTime, InWindow, OnceEach, Ascending, Configured, ListsKept

(* Each action keeps the lists. *)
LEMMA ListsStep == ASSUME Inv, TimerInv, [Next]_vars PROVE ListsKept
<1>1. TypeOK /\ InTime /\ OnceEach /\ Ascending
  BY DEF TimerInv
<1>2. CASE tick
  BY <1>1, <1>2, ListsTick
<1>3. ASSUME NEW c \in Caller, NEW m \in LedTimer, loopset_led_trigger(c, m)
      PROVE  ListsKept
  BY <1>1, <1>3, ListsTrigger
<1>4. ASSUME NEW c \in Caller, NEW e \in OtherEvent, looprt_evt_notify_async(c, e)
      PROVE  ListsKept
  BY <1>1, <1>4, ListsAlone DEF looprt_evt_notify_async
<1>5. ASSUME NEW e \in OtherEvent, bloop_evt_set_async_fromISR(e)
      PROVE  ListsKept
  BY <1>1, <1>5, ListsAlone DEF bloop_evt_set_async_fromISR
<1>6. ASSUME NEW c \in Caller, Post(c)
      PROVE  ListsKept
  BY <1>1, <1>6, ListsAlone DEF Post, bloop_evt_set_async, xTaskNotifyGive
<1>7. CASE copy_evt \/ idle \/ ulTaskNotifyTake \/ handle_timer
  BY <1>1, <1>7, ListsAlone DEF copy_evt, idle, ulTaskNotifyTake, handle_timer
<1>8. CASE timer_is_up \/ timers_done \/ evt_handle \/ handler_evt
  BY <1>1, <1>8, ListsAlone DEF timer_is_up, timers_done, evt_handle, handler_evt
<1>9. CASE timer_is_up_store
  <2>1. timer_dlist # <<>>
    BY <1>9 DEF timer_is_up_store, Inv, StoreSafe
  <2> QED
    BY <1>1, <1>9, <2>1, ListsUp
<1>10. CASE timer_dued_clean
  BY <1>1, <1>10, ListsClean
<1>11. CASE waiting_queue_handle
  BY <1>1, <1>11, ListsQueue
<1>12. CASE UNCHANGED vars
  BY <1>1, <1>12, ListsAlone DEF vars, timerVars
<1> QED
  BY <1>2, <1>3, <1>4, <1>5, <1>6, <1>7, <1>8, <1>9, <1>10, <1>11, <1>12 DEF Next, Looper

-----------------------------------------------------------------------------
(* The looper goes on only for something. *)

(* The first timer of the list, and that both comparisons of the code      *)
(* agree on whether it is up.                                              *)
LEMMA FirstTimer ==
  ASSUME TypeOK, InTime, timer_dlist # <<>>
  PROVE  /\ Head(timer_dlist) \in Configured /\ Remaining(Head(timer_dlist)) \in Int
         /\ Diff(now, time_target[Head(timer_dlist)]) = -Remaining(Head(timer_dlist))
<1>1. timer_dlist \in Seq(LedTimer) /\ now \in Tick
  BY DEF TypeOK
<1>2. PICK m \in LedTimer : m = Head(timer_dlist) /\ m \in Configured
  BY <1>1, HeadTail DEF Configured
<1>3. time_target[m] \in Tick
  BY <1>2, ConfiguredTypes
<1>4. PICK x \in Int : x = Diff(time_target[m], now)
  BY <1>1, <1>3, DiffIs
<1>5. /\ ClockMod \in Nat \ {0} /\ MaxLate \in Nat /\ Period[m] \in Nat
      /\ 2 * (Period[m] + MaxLate) < ClockMod
  BY <1>2, ConstantsAssumption
<1>6. -MaxLate <= x
  BY <1>2, <1>4, <1>5 DEF InTime, InWindow
<1>7. -ClockMod < 2 * x
  BY <1>5, <1>6
<1>8. Diff(now, time_target[m]) = -x
  BY <1>1, <1>3, <1>4, <1>7, DiffFlip
<1> QED
  BY <1>2, <1>4, <1>8 DEF Remaining

(* Each action keeps Picks. *)
LEMMA PicksStep == ASSUME Inv, TimerInv, [Next]_vars PROVE Picks'
<1>1. TypeOK /\ InTime /\ OnceEach /\ Ascending /\ Picks
  BY DEF TimerInv
<1>2. CASE tick
  <2>1. /\ UNCHANGED <<bitmap_evt_sync, timer_dlist, time_target, time_now, pc>>
    BY <1>2 DEF tick, evtVars, timerVars, localVars
  <2>2. ASSUME pc = "timers", bitmap_evt_sync = {}
        PROVE  timer_dlist # <<>> /\ Remaining(Head(timer_dlist))' <= 0
    <3>1. timer_dlist # <<>> /\ Remaining(Head(timer_dlist)) <= 0
      BY <1>1, <2>2 DEF Picks
    <3>2. PICK x \in Int : x = Remaining(Head(timer_dlist))
      BY <1>1, <3>1, FirstTimer
    <3>3. \A m \in Configured : Remaining(m)' = Remaining(m) - 1
      BY <1>1, <1>2, ListsTick
    <3>4. PICK m \in Configured : m = Head(timer_dlist)
      BY <1>1, <3>1, FirstTimer
    <3>5. Remaining(m)' = x - 1
      BY <3>2, <3>3, <3>4
    <3>6. Diff(time_target[m], now') = x - 1
      BY <2>1, <3>5 DEF Remaining
    <3>7. x - 1 <= 0
      BY <3>1, <3>2
    <3> QED
      BY <2>1, <3>1, <3>4, <3>6, <3>7 DEF Remaining
  <2> QED
    BY <1>1, <2>1, <2>2 DEF Picks, Due
<1>3. ASSUME NEW c \in Caller, NEW m \in LedTimer, loopset_led_trigger(c, m)
      PROVE  Picks'
  BY <1>3 DEF loopset_led_trigger, Blocked, Picks
<1>4. ASSUME NEW c \in Caller, NEW e \in OtherEvent, looprt_evt_notify_async(c, e)
      PROVE  Picks'
  BY <1>4 DEF looprt_evt_notify_async, Blocked, Picks
<1>5. ASSUME NEW e \in OtherEvent, bloop_evt_set_async_fromISR(e)
      PROVE  Picks'
  BY <1>1, <1>5 DEF bloop_evt_set_async_fromISR, Raise, Picks, Remaining, Due, timerVars, localVars
<1>6. ASSUME NEW c \in Caller, Post(c)
      PROVE  Picks'
  BY <1>6 DEF Post, bloop_evt_set_async, xTaskNotifyGive, Blocked, Picks
<1>7. CASE copy_evt
  BY <1>7 DEF copy_evt, Picks
<1>8. CASE idle
  BY <1>8 DEF idle, Picks, Remaining, timerVars
<1>9. CASE ulTaskNotifyTake
  BY <1>9 DEF ulTaskNotifyTake, Picks
<1>10. CASE handle_timer
  <2>1. pc = "timers" /\ UNCHANGED <<bitmap_evt_sync, timer_dlist, time_target>>
    BY <1>10 DEF handle_timer, evtVars, timerVars
  <2>2. CASE bitmap_evt_sync = {}
    <3>1. timer_dlist # <<>> /\ Remaining(Head(timer_dlist)) <= 0
      BY <1>1, <2>1, <2>2 DEF Picks
    <3>2. PICK x \in Int : x = Remaining(Head(timer_dlist))
      BY <1>1, <3>1, FirstTimer
    <3>3. Diff(now, time_target[Head(timer_dlist)]) = -x /\ -x >= 0
      BY <1>1, <3>1, <3>2, FirstTimer
    <3>4. pc' = "due" /\ time_now' = now
      BY <1>10, <3>1 DEF handle_timer
    <3> QED
      BY <2>1, <3>1, <3>3, <3>4 DEF Picks, Due
  <2>3. CASE bitmap_evt_sync # {}
    BY <1>10, <2>1, <2>3 DEF handle_timer, Picks
  <2> QED
    BY <2>2, <2>3
<1>11. CASE timer_is_up
  BY <1>11 DEF timer_is_up, Picks
<1>12. CASE timer_is_up_store
  BY <1>12 DEF timer_is_up_store, Inv, StoreSafe, Picks
<1>13. CASE timer_dued_clean
  BY <1>1, <1>13 DEF timer_dued_clean, evtVars, Picks
<1>14. CASE timers_done
  BY <1>1, <1>14 DEF timers_done, evtVars, Picks
<1>15. CASE evt_handle
  BY <1>1, <1>15 DEF evt_handle, Picks
<1>16. CASE waiting_queue_handle
  BY <1>1, <1>16 DEF waiting_queue_handle, evtVars, Picks
<1>17. CASE handler_evt
  BY <1>17 DEF handler_evt, Picks
<1>18. CASE UNCHANGED vars
  BY <1>1, <1>18 DEF vars, Picks, Remaining, Due
<1> QED
  BY <1>2, <1>3, <1>4, <1>5, <1>6, <1>7, <1>8, <1>9, <1>10, <1>11, <1>12, <1>13, <1>14,
     <1>15, <1>16, <1>17, <1>18 DEF Next, Looper

-----------------------------------------------------------------------------
(* The theorems. *)

(* The invariant about the timers holds in every state. *)
THEOREM TimerInductive == Spec => []TimerInv
<1>1. Init => TimerInv
  <2> SUFFICES ASSUME Init PROVE TimerInv
    OBVIOUS
  <2>1. 0 \in Tick /\ 0 \in Task /\ MaxPost \in Nat
    BY ConstantsAssumption DEF Tick, Task
  <2>2. TypeOK
    <3>1. Types
      BY LedEvents, EmptySeq, ConstantsAssumption DEF Init, Types, Idle
    <3>2. OtherTypes
      <4>1. 0 \in 0 .. MaxPost
        BY <2>1
      <4> QED
        BY <2>1, <4>1, Zenon DEF Init, OtherTypes
    <3> QED
      BY <3>1, <3>2, TypesSplit
  <2>3. ToSet(<<>>) = {} /\ DOMAIN <<>> = {}
    BY DEF ToSet
  <2>4. InTime /\ OnceEach /\ Ascending
    BY <2>3 DEF Init, InTime, OnceEach, Once, Ascending, AscendingBy, Configured
  <2>5. Picks
    BY DEF Init, Picks
  <2> QED
    BY <2>2, <2>4, <2>5 DEF TimerInv
<1>2. Inv /\ Inv' /\ TimerInv /\ [Next]_vars => TimerInv'
  <2> SUFFICES ASSUME Inv, Inv', TimerInv, [Next]_vars PROVE TimerInv'
    OBVIOUS
  <2>1. Types /\ OtherTypes /\ Picks
    BY TypesSplit DEF TimerInv
  <2>2. OtherTypes'
    BY <2>1, OtherTypesStep
  <2>3. Types'
    BY DEF Inv
  <2>4. TypeOK'
    BY <2>2, <2>3, TypesSplit, PTL
  <2>5. ListsKept
    BY ListsStep
  <2>6. Picks'
    BY PicksStep
  <2> QED
    BY <2>4, <2>5, <2>6 DEF TimerInv, ListsKept
<1> QED
  BY <1>1, <1>2, Inductive, PTL DEF Spec

(* Every variable keeps its type: in particular the event handed to a      *)
(* handler is a task's, and every tick stays below the wrap.               *)
THEOREM Typed == Spec => []TypeOK
<1>1. TimerInv => TypeOK
  BY DEF TimerInv
<1> QED
  BY <1>1, TimerInductive, PTL

(* The looper takes the highest marked task only when one is marked, also  *)
(* when it was a timer that made it skip its wait.                         *)
THEOREM NeverPicksNothing == Spec => []PicksSomething
<1>1. TimerInv => PicksSomething
  BY DEF TimerInv, Picks, PicksSomething
<1> QED
  BY <1>1, TimerInductive, PTL

(* A sequence in which no value is twice has as many values as places. *)
LEMMA OnceCounts ==
  ASSUME NEW S, NEW s \in Seq(S), Once(s)
  PROVE  Cardinality(ToSet(s)) = Len(s)
<1>1. Len(s) \in Nat /\ DOMAIN s = 1 .. Len(s)
  BY LenProperties
<1>2. PICK f : f = [i \in 1 .. Len(s) |-> s[i]]
  OBVIOUS
<1>3. f \in [1 .. Len(s) -> ToSet(s)]
  BY <1>1, <1>2 DEF ToSet
<1>4. ASSUME NEW i \in 1 .. Len(s), NEW j \in 1 .. Len(s), f[i] = f[j] PROVE i = j
  BY <1>1, <1>2, <1>4 DEF Once
<1>5. \A x \in ToSet(s) : \E i \in 1 .. Len(s) : f[i] = x
  BY <1>1, <1>2 DEF ToSet
<1>6. f \in Bijection(1 .. Len(s), ToSet(s))
  BY <1>3, <1>4, <1>5 DEF Bijection, Injection, Surjection, IsInjective
<1>7. ExistsBijection(1 .. Len(s), ToSet(s))
  BY <1>6 DEF ExistsBijection
<1> QED
  BY <1>1, <1>7, FS_CountingElements

(* Lists with nothing in common, one after the other. *)
LEMMA OnceConcat ==
  ASSUME NEW S, NEW s \in Seq(S), NEW t \in Seq(S), Once(s), Once(t), ToSet(s) \cap ToSet(t) = {}
  PROVE  s \o t \in Seq(S) /\ Once(s \o t) /\ ToSet(s \o t) = ToSet(s) \cup ToSet(t)
<1>1. /\ Len(s) \in Nat /\ DOMAIN s = 1 .. Len(s) /\ Len(t) \in Nat /\ DOMAIN t = 1 .. Len(t)
  BY LenProperties
<1>2. /\ s \o t \in Seq(S) /\ Len(s \o t) = Len(s) + Len(t)
      /\ \A i \in 1 .. Len(s) + Len(t) : (s \o t)[i] = IF i <= Len(s) THEN s[i] ELSE t[i - Len(s)]
  BY ConcatProperties
<1>3. PICK r \in Seq(S) :
        /\ r = s \o t /\ Len(r) = Len(s) + Len(t)
        /\ \A i \in 1 .. Len(s) + Len(t) : r[i] = IF i <= Len(s) THEN s[i] ELSE t[i - Len(s)]
  BY <1>2, Zenon
<1>4. DOMAIN r = 1 .. Len(s) + Len(t)
  BY <1>3, LenProperties
<1>5. \A i \in DOMAIN r : \/ i \in DOMAIN s /\ r[i] = s[i]
                          \/ ~(i <= Len(s)) /\ i - Len(s) \in DOMAIN t /\ r[i] = t[i - Len(s)]
  BY <1>1, <1>3, <1>4
<1>6. \A i \in DOMAIN s : i \in DOMAIN r /\ r[i] = s[i]
  BY <1>1, <1>3, <1>4
<1>7. ASSUME NEW i \in DOMAIN t PROVE Len(s) + i \in DOMAIN r /\ r[Len(s) + i] = t[i]
  <2>1. Len(s) + i \in 1 .. Len(s) + Len(t) /\ ~(Len(s) + i <= Len(s)) /\ (Len(s) + i) - Len(s) = i
    BY <1>1
  <2> QED
    BY <1>3, <1>4, <2>1
<1>8. ToSet(r) = ToSet(s) \cup ToSet(t)
  <2>1. ASSUME NEW x \in ToSet(r) PROVE x \in ToSet(s) \cup ToSet(t)
    BY <1>5 DEF ToSet
  <2>2. ASSUME NEW x \in ToSet(s) \cup ToSet(t) PROVE x \in ToSet(r)
    BY <1>6, <1>7 DEF ToSet
  <2> QED
    BY <2>1, <2>2
<1>9. \A i \in DOMAIN s, j \in DOMAIN t : s[i] # t[j]
  BY DEF ToSet
<1>10. ASSUME NEW i \in DOMAIN r, NEW j \in DOMAIN r, r[i] = r[j] PROVE i = j
  <2>1. CASE i \in DOMAIN s /\ r[i] = s[i] /\ j \in DOMAIN s /\ r[j] = s[j]
    BY <1>10, <2>1 DEF Once
  <2>2. CASE i - Len(s) \in DOMAIN t /\ r[i] = t[i - Len(s)] /\ j - Len(s) \in DOMAIN t /\ r[j] = t[j - Len(s)]
    <3>1. i - Len(s) = j - Len(s)
      BY <1>10, <2>2 DEF Once
    <3> QED
      BY <1>1, <1>4, <3>1
  <2> QED
    BY <1>5, <1>9, <1>10, <2>1, <2>2
<1> QED
  BY <1>3, <1>8, <1>10 DEF Once

(* The timers stay in order, across the wrap of the clock as well, and no  *)
(* timer is in two lists or twice in one.                                  *)
THEOREM TimersInOrder == Spec => []TimersAscend
<1>1. ASSUME TimerInv PROVE TimersAscend
  <2>1. timer_dlist \in Seq(LedTimer) /\ timer_dued \in Seq(LedTimer) /\ waiting_queue \in Seq(LedTimer)
    BY <1>1 DEF TimerInv, TypeOK
  <2>2. PICK s \in Seq(LedTimer) : /\ s = timer_dlist \o timer_dued /\ Once(s)
                                   /\ ToSet(s) = ToSet(timer_dlist) \cup ToSet(timer_dued)
    <3>1. Once(timer_dlist) /\ Once(timer_dued) /\ ToSet(timer_dlist) \cap ToSet(timer_dued) = {}
      BY <1>1 DEF TimerInv, OnceEach
    <3>2. /\ timer_dlist \o timer_dued \in Seq(LedTimer) /\ Once(timer_dlist \o timer_dued)
          /\ ToSet(timer_dlist \o timer_dued) = ToSet(timer_dlist) \cup ToSet(timer_dued)
      BY <2>1, <3>1, OnceConcat
    <3> QED
      BY <3>2, Zenon
  <2>3. ToSet(s) \cap ToSet(waiting_queue) = {} /\ Once(waiting_queue)
    BY <1>1, <2>2 DEF TimerInv, OnceEach
  <2>4. PICK a \in Seq(LedTimer) : a = s \o waiting_queue /\ Once(a)
    BY <2>1, <2>2, <2>3, OnceConcat
  <2>5. Cardinality(ToSet(a)) = Len(a)
    BY <2>4, OnceCounts
  <2>6. Ascending
    BY <1>1 DEF TimerInv
  <2> QED
    BY <2>2, <2>4, <2>5, <2>6 DEF TimersAscend, Ascending, AscendingBy
<1> QED
  BY <1>1, TimerInductive, PTL

(* A triggered LED's timer is never dropped: no step of the looper, of a   *)
(* task or of an interrupt takes a timer out of all three lists.           *)
THEOREM NoTimerDropped == Spec => [][Configured \subseteq Configured']_vars
<1>1. Inv /\ TimerInv /\ [Next]_vars => [Configured \subseteq Configured']_vars
  BY ListsStep DEF ListsKept
<1> QED
  BY <1>1, Inductive, TimerInductive, PTL DEF Spec

==============================================================================
