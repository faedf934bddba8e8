----------------------------- MODULE TimerProofs -----------------------------
(***************************************************************************)
(* Proofs about the timers, for any number of timers, FIFOs, delays and    *)
(* interrupts, as long as no deadline reaches the time of the sentinel.    *)
(***************************************************************************)
EXTENDS Timer, Least

Next0(tc, t) == tc.timers0[t].next
Time(tc, t) == tc.timers0[t].timeout
Flag(tc, t) == tc.timers0[t].flags
Flag2(tc, t) == tc.timers0[t].flags2

Slot0 == [next : Slots \cup {NULL}, timeout : Nat, flags : {0, 1, 2}, flags2 : {0, 1},
          fifo : Fifos \cup {NoFifo}]
Timerctl == [count : Nat, next : Nat, t0 : Slots, timers0 : [Slots -> Slot0]]

\* The timers w[0], ..., w[n] are the list.
Chain(tc, n, w) ==
  /\ n \in 0..(MAX_TIMER - 1) /\ w \in [0..n -> Slots]
  /\ \A i, j \in 0..n : w[i] = w[j] => i = j
  /\ w[0] = tc.t0 /\ w[n] = sentinel /\ Next0(tc, sentinel) = NULL
  /\ \A i \in 0..(n - 1) : Next0(tc, w[i]) = w[i + 1]

Sorted(tc, n, w) ==
  /\ tc.next = Time(tc, w[0])
  /\ \A i, j \in 0..n : i <= j => Time(tc, w[i]) <= Time(tc, w[j])

Running(tc, n, w) ==
  \A t \in Slots : Flag(tc, t) = TIMER_FLAGS_USING <=> \E i \in 0..n : w[i] = t

IsList(tc, n, w) == Chain(tc, n, w) /\ Sorted(tc, n, w) /\ Running(tc, n, w)

\* No timer is as late as the sentinel; applications have neither of the first two.
TimesOK(tc) ==
  /\ Time(tc, sentinel) = Sentinel /\ Flag2(tc, sentinel) = 0 /\ Flag2(tc, task_timer) = 0
  /\ \A t \in Slots \ {sentinel} : Flag(tc, t) = TIMER_FLAGS_USING => Time(tc, t) < Sentinel

Good(tc) == tc \in Timerctl /\ TimesOK(tc) /\ \E n, w : IsList(tc, n, w)

-----------------------------------------------------------------------------
(* The list, and the walk along it *)

LEMMA SlotsAre ==
  /\ MAX_TIMER \in Nat /\ MAX_TIMER >= 3 /\ NULL \notin Slots
  /\ sentinel \in Slots /\ task_timer \in Slots /\ sentinel # task_timer
BY TimerAssumption DEF Slots, NULL, sentinel, task_timer

\* The walk follows the list to its end, and then stays at NULL.
LEMMA WalkIs ==
  ASSUME NEW tc, NEW n, NEW w, Chain(tc, n, w)
  PROVE  /\ \A i \in 0..n : Walk(tc)[i] = w[i]
         /\ \A i \in (n + 1)..MAX_TIMER : Walk(tc)[i] = NULL
<1> USE SlotsAre
<1> DEFINE P(f) == f = [i \in 0..MAX_TIMER |->
                          IF i = 0 THEN tc.t0
                          ELSE IF f[i - 1] = NULL THEN NULL ELSE tc.timers0[f[i - 1]].next]
           g == [i \in 0..MAX_TIMER |-> IF i <= n THEN w[i] ELSE NULL]
<1>1. n \in 0..(MAX_TIMER - 1) /\ w \in [0..n -> Slots] /\ w[0] = tc.t0 /\ w[n] = sentinel
  BY DEF Chain
<1>2. ASSUME NEW i \in 0..MAX_TIMER
      PROVE  g[i] = IF i = 0 THEN tc.t0
                    ELSE IF g[i - 1] = NULL THEN NULL ELSE tc.timers0[g[i - 1]].next
  <2>1. CASE i = 0 BY <1>1, <2>1
  <2>2. CASE i # 0 /\ i <= n
    <3>1. i - 1 \in 0..(n - 1) /\ i - 1 \in 0..MAX_TIMER BY <1>1, <2>2
    <3>2. g[i] = w[i] /\ g[i - 1] = w[i - 1] BY <1>1, <2>2, <3>1
    <3>3. w[i - 1] # NULL BY <1>1, <3>1
    <3>4. tc.timers0[w[i - 1]].next = w[(i - 1) + 1] BY <3>1 DEF Chain, Next0
    <3> QED BY <2>2, <3>2, <3>3, <3>4
  <2>3. CASE i = n + 1
    <3>1. g[i] = NULL /\ g[i - 1] = sentinel BY <1>1, <2>3
    <3> QED BY <1>1, <2>3, <3>1 DEF Chain, Next0
  <2>4. CASE i > n + 1
    <3>1. g[i] = NULL /\ g[i - 1] = NULL BY <1>1, <2>4
    <3> QED BY <1>1, <2>4, <3>1
  <2> QED BY <1>1, <2>1, <2>2, <2>3, <2>4
<1>3. P(g) BY <1>2
<1>4. Walk(tc) = CHOOSE f : P(f) BY DEF Walk
<1> HIDE DEF P, g
<1>5. P(Walk(tc)) BY <1>3, <1>4
<1> DEFINE Off == {i \in 0..MAX_TIMER : Walk(tc)[i] # g[i]}
<1>6. Off = {}
  <2> SUFFICES ASSUME Off # {} PROVE FALSE OBVIOUS
  <2>0. Off \subseteq Nat OBVIOUS
  <2>1. PICK m \in Off : \A k \in Off : m <= k
    <3> HIDE DEF Off
    <3> QED BY <2>0, LeastExists
  <2>2. m \in 0..MAX_TIMER /\ Walk(tc)[m] # g[m] OBVIOUS
  <2>3. Walk(tc)[m] = IF m = 0 THEN tc.t0
                      ELSE IF Walk(tc)[m - 1] = NULL THEN NULL
                           ELSE tc.timers0[Walk(tc)[m - 1]].next
    BY <1>5, <2>2 DEF P
  <2>4. g[m] = IF m = 0 THEN tc.t0
               ELSE IF g[m - 1] = NULL THEN NULL ELSE tc.timers0[g[m - 1]].next
    BY <1>2, <2>2
  <2>5. m # 0 BY <2>2, <2>3, <2>4
  <2>6. m - 1 \in 0..MAX_TIMER /\ m - 1 \notin Off BY <2>1, <2>2, <2>5
  <2> QED BY <2>2, <2>3, <2>4, <2>6
<1>7. \A i \in 0..MAX_TIMER : Walk(tc)[i] = g[i] BY <1>6
<1> QED BY <1>1, <1>7 DEF g

\* The first timer of a kind on the list
LEMMA FirstIs ==
  ASSUME NEW tc, NEW n, NEW w, Chain(tc, n, w), NEW S, S \subseteq Slots,
         NEW k \in 0..n, w[k] \in S, \A i \in 0..n : i < k => w[i] \notin S
  PROVE  FirstOnList(tc, S) = k
<1> USE SlotsAre
<1> DEFINE T == {i \in 0..MAX_TIMER : Walk(tc)[i] \in S}
<1>1. n \in 0..(MAX_TIMER - 1) BY DEF Chain
<1>2. k \in T BY <1>1, WalkIs
<1>3. ASSUME NEW i \in T PROVE k <= i
  <2>1. CASE i <= n BY <1>1, <2>1, WalkIs
  <2>2. CASE i > n BY <1>1, <2>2
  <2> QED BY <1>1, <2>1, <2>2
<1>4. T \subseteq Nat OBVIOUS
<1>5. \A m \in T : (\A i \in T : m <= i) => m = k BY <1>1, <1>2, <1>3, <1>4
<1>6. Min(T) = k BY <1>2, <1>3, <1>5 DEF Min
<1> QED BY <1>6 DEF FirstOnList

LEMMA FirstExists ==
  ASSUME NEW tc, NEW n, NEW w, Chain(tc, n, w), NEW S, sentinel \in S, S \subseteq Slots
  PROVE  /\ FirstOnList(tc, S) \in 0..n /\ w[FirstOnList(tc, S)] \in S
         /\ \A i \in 0..n : i < FirstOnList(tc, S) => w[i] \notin S
<1> DEFINE T == {i \in 0..n : w[i] \in S}
<1>1. n \in Nat /\ n \in T BY SlotsAre DEF Chain
<1>2. T \subseteq Nat OBVIOUS
<1>3. PICK k \in T : \A i \in T : k <= i BY <1>1, <1>2, LeastExists
<1>4. k \in 0..n /\ w[k] \in S /\ \A i \in 0..n : i < k => w[i] \notin S BY <1>1, <1>3
<1>5. FirstOnList(tc, S) = k BY <1>4, FirstIs
<1> QED BY <1>4, <1>5

\* There is room on the list for a timer that is not on it.
LEMMA RoomForOne ==
  ASSUME NEW n \in Nat, NEW w \in [0..n -> Slots], \A i, j \in 0..n : w[i] = w[j] => i = j,
         NEW x \in Slots, \A i \in 0..n : w[i] # x
  PROVE  n + 1 \in 0..(MAX_TIMER - 1)
<1> USE SlotsAre
<1>1. SUFFICES ASSUME n + 1 > MAX_TIMER - 1 PROVE FALSE OBVIOUS
<1> DEFINE T == Slots \ {x}
<1>2. IsFiniteSet(Slots) /\ Cardinality(Slots) = MAX_TIMER
  BY FS_Interval DEF Slots
<1>3. IsFiniteSet(T) /\ Cardinality(T) = MAX_TIMER - 1
  BY <1>2, FS_RemoveElement
<1>4. IsFiniteSet(0..n) /\ Cardinality(0..n) = n + 1 BY FS_Interval
<1>5. w \in [0..n -> T] OBVIOUS
<1>6. \E i, j \in 0..n : i # j /\ w[i] = w[j]
  <2> HIDE DEF T
  <2>1. Cardinality(T) < Cardinality(0..n) BY <1>1, <1>3, <1>4
  <2> QED BY <1>3, <1>4, <1>5, <2>1, FS_PigeonHole
<1> QED BY <1>6

-----------------------------------------------------------------------------
(* timer_settime *)

\* Nothing but what is named changes.
SameFields(tc, r, t) ==
  Flag2(r, t) = Flag2(tc, t) /\ r.timers0[t].fifo = tc.timers0[t].fifo

LEMMA FieldsTyped ==
  ASSUME NEW tc \in Timerctl
  PROVE  /\ tc.count \in Nat /\ tc.next \in Nat /\ tc.t0 \in Slots
         /\ \A t \in Slots : /\ Next0(tc, t) \in Slots \cup {NULL} /\ Time(tc, t) \in Nat
                             /\ Flag(tc, t) \in {0, 1, 2} /\ Flag2(tc, t) \in {0, 1}
BY DEF Timerctl, Slot0, Next0, Time, Flag, Flag2

\* The first two lines of timer_settime
Written(tc, x, d) ==
  [tc EXCEPT !.timers0[x].timeout = d, !.timers0[x].flags = TIMER_FLAGS_USING]

IsWritten(tc, r, x, d) ==
  /\ r \in Timerctl /\ r.count = tc.count /\ r.next = tc.next /\ r.t0 = tc.t0
  /\ \A t \in Slots : /\ Next0(r, t) = Next0(tc, t) /\ SameFields(tc, r, t)
                      /\ Time(r, t) = IF t = x THEN d ELSE Time(tc, t)
                      /\ Flag(r, t) = IF t = x THEN TIMER_FLAGS_USING ELSE Flag(tc, t)

LEMMA TimerWritten ==
  ASSUME NEW tc \in Timerctl, NEW x \in Slots, NEW d \in Nat, NEW r, r = Written(tc, x, d)
  PROVE  IsWritten(tc, r, x, d)
<1>1. PICK f : f = [tc.timers0 EXCEPT ![x].timeout = d, ![x].flags = TIMER_FLAGS_USING] OBVIOUS
<1>2. r = [tc EXCEPT !.timers0 = f] BY <1>1 DEF Timerctl, Written
<1>3. f \in [Slots -> Slot0] BY <1>1 DEF Timerctl, Slot0, TIMER_FLAGS_USING
<1>4. /\ r \in Timerctl /\ r.timers0 = f /\ r.count = tc.count /\ r.next = tc.next /\ r.t0 = tc.t0
  BY <1>2, <1>3 DEF Timerctl
<1>5. ASSUME NEW t \in Slots
      PROVE  /\ f[t].next = Next0(tc, t) /\ f[t].flags2 = Flag2(tc, t)
             /\ f[t].fifo = tc.timers0[t].fifo
             /\ f[t].timeout = IF t = x THEN d ELSE Time(tc, t)
             /\ f[t].flags = IF t = x THEN TIMER_FLAGS_USING ELSE Flag(tc, t)
  <2>1. PICK e : e = [tc.timers0 EXCEPT ![x].timeout = d] OBVIOUS
  <2>2. e \in [Slots -> Slot0] /\ f = [e EXCEPT ![x].flags = TIMER_FLAGS_USING]
    BY <1>1, <2>1 DEF Timerctl, Slot0
  <2>3. /\ e[t].next = Next0(tc, t) /\ e[t].flags2 = Flag2(tc, t) /\ e[t].flags = Flag(tc, t)
        /\ e[t].fifo = tc.timers0[t].fifo
        /\ e[t].timeout = IF t = x THEN d ELSE Time(tc, t)
    BY <2>1 DEF Timerctl, Slot0, Next0, Time, Flag, Flag2
  <2>4. /\ f[t].next = e[t].next /\ f[t].flags2 = e[t].flags2 /\ f[t].timeout = e[t].timeout
        /\ f[t].fifo = e[t].fifo
        /\ f[t].flags = IF t = x THEN TIMER_FLAGS_USING ELSE e[t].flags
    BY <2>2 DEF Slot0
  <2> QED BY <2>3, <2>4
<1>6. \A t \in Slots : /\ Next0(r, t) = f[t].next /\ Time(r, t) = f[t].timeout
                      /\ Flag(r, t) = f[t].flags /\ Flag2(r, t) = f[t].flags2
                      /\ r.timers0[t].fifo = f[t].fifo
  BY <1>4 DEF Next0, Time, Flag, Flag2
<1> QED BY <1>4, <1>5, <1>6 DEF SameFields, IsWritten

LEMMA LinkedFirst ==
  ASSUME NEW tc \in Timerctl, NEW x \in Slots, NEW r, r = LinkFirst(tc, x)
  PROVE  /\ r \in Timerctl /\ r.count = tc.count /\ r.next = Time(tc, x) /\ r.t0 = x
         /\ \A t \in Slots : /\ Next0(r, t) = IF t = x THEN tc.t0 ELSE Next0(tc, t)
                             /\ Time(r, t) = Time(tc, t) /\ Flag(r, t) = Flag(tc, t)
                             /\ SameFields(tc, r, t)
<1>1. PICK f : f = [tc.timers0 EXCEPT ![x].next = tc.t0] OBVIOUS
<1>2. r = [tc EXCEPT !.t0 = x, !.timers0 = f, !.next = Time(tc, x)]
  BY <1>1 DEF Timerctl, LinkFirst, Time
<1>3. f \in [Slots -> Slot0] /\ Time(tc, x) \in Nat BY <1>1 DEF Timerctl, Slot0, Time
<1>4. r \in Timerctl /\ r.timers0 = f /\ r.count = tc.count /\ r.next = Time(tc, x) /\ r.t0 = x
  BY <1>2, <1>3 DEF Timerctl
<1>5. \A t \in Slots : /\ f[t].next = IF t = x THEN tc.t0 ELSE Next0(tc, t)
                      /\ f[t].flags2 = Flag2(tc, t) /\ f[t].fifo = tc.timers0[t].fifo
                      /\ f[t].timeout = Time(tc, t) /\ f[t].flags = Flag(tc, t)
  BY <1>1 DEF Timerctl, Slot0, Next0, Time, Flag, Flag2
<1> QED BY <1>4, <1>5 DEF Next0, Time, Flag, Flag2, SameFields

\* One link is set.
LEMMA Linked ==
  ASSUME NEW tc \in Timerctl, NEW x \in Slots, NEW y \in Slots \cup {NULL}, NEW r,
         r = [tc EXCEPT !.timers0[x].next = y]
  PROVE  /\ r \in Timerctl /\ r.count = tc.count /\ r.next = tc.next /\ r.t0 = tc.t0
         /\ \A t \in Slots : /\ Next0(r, t) = IF t = x THEN y ELSE Next0(tc, t)
                             /\ Time(r, t) = Time(tc, t) /\ Flag(r, t) = Flag(tc, t)
                             /\ SameFields(tc, r, t)
<1>1. PICK f : f = [tc.timers0 EXCEPT ![x].next = y] OBVIOUS
<1>2. r = [tc EXCEPT !.timers0 = f] BY <1>1 DEF Timerctl
<1>3. f \in [Slots -> Slot0] BY <1>1 DEF Timerctl, Slot0
<1>4. /\ r \in Timerctl /\ r.timers0 = f /\ r.count = tc.count /\ r.next = tc.next /\ r.t0 = tc.t0
  BY <1>2, <1>3 DEF Timerctl
<1>5. \A t \in Slots : /\ f[t].next = IF t = x THEN y ELSE Next0(tc, t)
                      /\ f[t].flags2 = Flag2(tc, t) /\ f[t].fifo = tc.timers0[t].fifo
                      /\ f[t].timeout = Time(tc, t) /\ f[t].flags = Flag(tc, t)
  BY <1>1 DEF Timerctl, Slot0, Next0, Time, Flag, Flag2
<1> QED BY <1>4, <1>5 DEF Next0, Time, Flag, Flag2, SameFields

IsBetween(tc, r, s, x, y) ==
  /\ r \in Timerctl /\ r.count = tc.count /\ r.next = tc.next /\ r.t0 = tc.t0
  /\ \A t \in Slots : /\ Next0(r, t) = IF t = x THEN y ELSE IF t = s THEN x ELSE Next0(tc, t)
                      /\ Time(r, t) = Time(tc, t) /\ Flag(r, t) = Flag(tc, t)
                      /\ SameFields(tc, r, t)

LEMMA LinkedBetween ==
  ASSUME NEW tc \in Timerctl, NEW s \in Slots, NEW x \in Slots, NEW y \in Slots, s # x,
         NEW r, r = LinkBetween(tc, s, x, y)
  PROVE  IsBetween(tc, r, s, x, y)
<1>1. PICK q : q = [tc EXCEPT !.timers0[s].next = x] OBVIOUS
<1>2. /\ q \in Timerctl /\ q.count = tc.count /\ q.next = tc.next /\ q.t0 = tc.t0
      /\ \A t \in Slots : /\ Next0(q, t) = IF t = s THEN x ELSE Next0(tc, t)
                          /\ Time(q, t) = Time(tc, t) /\ Flag(q, t) = Flag(tc, t)
                          /\ SameFields(tc, q, t)
  BY <1>1, Linked
<1>3. r = [q EXCEPT !.timers0[x].next = y] BY <1>1 DEF LinkBetween
<1>4. /\ r \in Timerctl /\ r.count = q.count /\ r.next = q.next /\ r.t0 = q.t0
      /\ \A t \in Slots : /\ Next0(r, t) = IF t = x THEN y ELSE Next0(q, t)
                          /\ Time(r, t) = Time(q, t) /\ Flag(r, t) = Flag(q, t)
                          /\ SameFields(q, r, t)
  BY <1>2, <1>3, Linked
<1> QED BY <1>2, <1>4 DEF SameFields, IsBetween

\* A timer that is not running is set.
IsSet(tc, r, x, d) ==
  /\ Good(r) /\ r.count = tc.count
  /\ \A t \in Slots : /\ SameFields(tc, r, t)
                      /\ Time(r, t) = IF t = x THEN d ELSE Time(tc, t)
                      /\ Flag(r, t) = IF t = x THEN TIMER_FLAGS_USING ELSE Flag(tc, t)

LEMMA TimerSet ==
  ASSUME NEW tc \in Timerctl, TimesOK(tc), NEW n, NEW w, IsList(tc, n, w),
         NEW x \in Slots \ {sentinel}, Flag(tc, x) # TIMER_FLAGS_USING,
         NEW d \in Nat, NEW delay, d = Deadline(tc, delay), d < Sentinel,
         NEW r, r = timer_settime(tc, x, delay)
  PROVE  IsSet(tc, r, x, d)
<1> USE SlotsAre
<1>0. x \in Slots OBVIOUS
<1>1. PICK a : a = Written(tc, x, d) OBVIOUS
<1>2. /\ a \in Timerctl /\ a.count = tc.count /\ a.next = tc.next /\ a.t0 = tc.t0
      /\ \A t \in Slots : /\ Next0(a, t) = Next0(tc, t) /\ SameFields(tc, a, t)
                          /\ Time(a, t) = IF t = x THEN d ELSE Time(tc, t)
                          /\ Flag(a, t) = IF t = x THEN TIMER_FLAGS_USING ELSE Flag(tc, t)
  <2>1. IsWritten(tc, a, x, d) BY <1>0, <1>1, TimerWritten
  <2> QED BY <2>1 DEF IsWritten
<1>3. /\ n \in Nat /\ n < MAX_TIMER /\ w \in [0..n -> Slots]
      /\ \A i, j \in 0..n : w[i] = w[j] => i = j
      /\ w[0] = tc.t0 /\ w[n] = sentinel /\ Next0(tc, sentinel) = NULL
      /\ \A i \in 0..(n - 1) : Next0(tc, w[i]) = w[i + 1]
  BY DEF IsList, Chain
<1>4. \A i \in 0..n : w[i] # x BY <1>3 DEF IsList, Running
<1>5. Chain(a, n, w) BY <1>2, <1>3 DEF Chain
<1> DEFINE Later == {t \in Slots : d <= Time(a, t)}
           k == FirstOnList(a, Later)
<1>6. sentinel \in Later /\ Later \subseteq Slots
  <2>1. Time(a, sentinel) = Sentinel BY <1>2 DEF TimesOK
  <2>2. Sentinel \in Nat BY TimerAssumption, <2>1, FieldsTyped, <1>2
  <2> QED BY <2>1, <2>2
<1>7. k \in 0..n /\ w[k] \in Later /\ \A i \in 0..n : i < k => w[i] \notin Later
  <2> HIDE DEF Later
  <2> QED BY <1>5, <1>6, FirstExists
<1>8. r = IF k = 0 THEN LinkFirst(a, x) ELSE LinkBetween(a, Walk(a)[k - 1], x, Walk(a)[k])
  BY <1>1 DEF timer_settime, Time, Written
<1> HIDE DEF k
<1>9. k # 0 => Walk(a)[k - 1] = w[k - 1] /\ Walk(a)[k] = w[k] /\ w[k - 1] \in Slots /\ w[k] \in Slots
  BY <1>3, <1>5, <1>7, WalkIs
<1> DEFINE v == [i \in 0..(n + 1) |-> IF i < k THEN w[i] ELSE IF i = k THEN x ELSE w[i - 1]]
<1>10. /\ r \in Timerctl /\ r.count = tc.count
       /\ r.t0 = v[0] /\ r.next = IF k = 0 THEN d ELSE tc.next
       /\ \A t \in Slots :
            /\ SameFields(tc, r, t)
            /\ Time(r, t) = IF t = x THEN d ELSE Time(tc, t)
            /\ Flag(r, t) = IF t = x THEN TIMER_FLAGS_USING ELSE Flag(tc, t)
            /\ Next0(r, t) = IF t = x THEN w[k]
                             ELSE IF k # 0 /\ t = w[k - 1] THEN x ELSE Next0(tc, t)
  <2>1. CASE k = 0
    <3>1. r = LinkFirst(a, x) BY <1>8, <2>1
    <3>2. /\ r \in Timerctl /\ r.count = a.count /\ r.next = Time(a, x) /\ r.t0 = x
          /\ \A t \in Slots : /\ Next0(r, t) = IF t = x THEN a.t0 ELSE Next0(a, t)
                              /\ Time(r, t) = Time(a, t) /\ Flag(r, t) = Flag(a, t)
                              /\ SameFields(a, r, t)
      BY <1>2, <3>1, LinkedFirst
    <3>3. v[0] = x BY <1>3, <2>1
    <3> HIDE DEF v
    <3> QED BY <1>2, <1>3, <2>1, <3>2, <3>3 DEF SameFields
  <2>2. CASE k # 0
    <3>0. PICK s, y : s = w[k - 1] /\ y = w[k] OBVIOUS
    <3>1. r = LinkBetween(a, s, x, y) BY <1>8, <1>9, <2>2, <3>0
    <3>2. s # x /\ s \in Slots /\ y \in Slots /\ a \in Timerctl
      BY <1>2, <1>3, <1>4, <1>7, <2>2, <3>0
    <3>3. /\ r \in Timerctl /\ r.count = a.count /\ r.next = a.next /\ r.t0 = a.t0
          /\ \A t \in Slots : /\ Next0(r, t) = IF t = x THEN y
                                                ELSE IF t = s THEN x ELSE Next0(a, t)
                              /\ Time(r, t) = Time(a, t) /\ Flag(r, t) = Flag(a, t)
                              /\ SameFields(a, r, t)
      <4>1. IsBetween(a, r, s, x, y) BY <1>0, <3>1, <3>2, LinkedBetween
      <4> QED BY <4>1 DEF IsBetween
    <3>4. v[0] = w[0] BY <1>3, <1>7, <2>2
    <3> HIDE DEF v
    <3> QED BY <1>2, <1>3, <2>2, <3>0, <3>3, <3>4 DEF SameFields
  <2> QED BY <2>1, <2>2
<1>11. n + 1 \in 0..(MAX_TIMER - 1) BY <1>3, <1>4, RoomForOne
<1>12. Chain(r, n + 1, v)
  <2>1. v \in [0..(n + 1) -> Slots] BY <1>3, <1>7
  <2>2. \A i, j \in 0..(n + 1) : v[i] = v[j] => i = j BY <1>3, <1>4, <1>7
  <2>3. v[n + 1] = sentinel BY <1>3, <1>7
  <2>4. Next0(r, sentinel) = NULL BY <1>3, <1>7, <1>10
  <2>5. ASSUME NEW i \in 0..n PROVE Next0(r, v[i]) = v[i + 1]
    <3>1. CASE i = k
      <4>1. v[i] = x /\ v[i + 1] = w[k] BY <1>3, <1>7, <3>1
      <4> QED BY <1>10, <4>1
    <3>2. CASE i = k - 1
      <4>1. v[i] = w[k - 1] /\ v[i + 1] = x /\ w[k - 1] \in Slots /\ w[k - 1] # x /\ k # 0
        BY <1>3, <1>4, <1>7, <3>2
      <4> QED BY <1>10, <4>1
    <3>3. CASE i < k - 1
      <4>1. /\ v[i] = w[i] /\ v[i + 1] = w[i + 1] /\ w[i] \in Slots /\ w[i] # x
            /\ w[i] # w[k - 1] /\ i \in 0..(n - 1)
        BY <1>3, <1>4, <1>7, <3>3
      <4> QED BY <1>3, <1>10, <4>1
    <3>4. CASE i > k
      <4>1. /\ v[i] = w[i - 1] /\ v[i + 1] = w[i] /\ w[i - 1] \in Slots /\ w[i - 1] # x
            /\ i - 1 \in 0..(n - 1)
        BY <1>3, <1>4, <1>7, <3>4
      <4>2. k # 0 => w[i - 1] # w[k - 1] BY <1>3, <1>7, <3>4
      <4>3. Next0(tc, w[i - 1]) = w[(i - 1) + 1] BY <1>3, <4>1
      <4> QED BY <1>10, <4>1, <4>2, <4>3
    <3> QED BY <1>3, <1>7, <3>1, <3>2, <3>3, <3>4
  <2>6. (n + 1) - 1 = n BY <1>3
  <2>7. r.t0 = v[0] BY <1>10
  <2> HIDE DEF v
  <2> QED BY <1>11, <2>1, <2>2, <2>3, <2>4, <2>5, <2>6, <2>7 DEF Chain
<1>13. Sorted(r, n + 1, v)
  <2>1. /\ tc.next = Time(tc, w[0])
        /\ \A i, j \in 0..n : i <= j => Time(tc, w[i]) <= Time(tc, w[j])
    BY DEF IsList, Sorted
  <2>2. \A i \in 0..n : Time(r, w[i]) = Time(tc, w[i]) /\ Time(a, w[i]) = Time(tc, w[i])
    BY <1>2, <1>3, <1>4, <1>10
  <2>3. \A t \in Slots : Time(tc, t) \in Nat BY FieldsTyped
  <2>4. \A i \in 0..n : Time(tc, w[i]) \in Nat BY <1>3, <2>3
  <2>5. \A i \in 0..n : i < k => Time(tc, w[i]) < d BY <1>3, <1>7, <2>2, <2>4
  <2>6. \A i \in 0..n : i >= k => d <= Time(tc, w[i])
    <3>1. d <= Time(tc, w[k]) BY <1>7, <2>2
    <3> QED BY <1>7, <2>1, <2>4, <3>1
  <2>7. \A i \in 0..(n + 1) :
          Time(r, v[i]) = IF i < k THEN Time(tc, w[i]) ELSE IF i = k THEN d ELSE Time(tc, w[i - 1])
    BY <1>3, <1>4, <1>7, <1>10
  <2>8. r.next = Time(r, v[0])
    BY <1>3, <1>7, <1>10, <2>1, <2>7
  <2>9. ASSUME NEW i \in 0..(n + 1), NEW j \in 0..(n + 1), i <= j
        PROVE  Time(r, v[i]) <= Time(r, v[j])
    <3> HIDE DEF v
    <3>1. d \in Nat /\ k \in 0..n /\ n \in Nat BY <1>3, <1>7
    <3>2. CASE j < k BY <2>1, <2>7, <2>9, <3>1, <3>2
    <3>3. CASE j = k
      <4>1. i < k => Time(tc, w[i]) <= d BY <2>4, <2>5, <2>9, <3>1, <3>3
      <4> QED BY <2>7, <2>9, <3>1, <3>3, <4>1
    <3>4. CASE j > k
      <4>1. j - 1 \in 0..n /\ j - 1 >= k BY <3>1, <3>4
      <4>2. Time(r, v[j]) = Time(tc, w[j - 1]) BY <2>7, <3>1, <3>4
      <4>3. CASE i < k BY <2>1, <2>7, <2>9, <3>1, <3>4, <4>1, <4>2, <4>3
      <4>4. CASE i = k BY <2>6, <2>7, <3>1, <4>1, <4>2, <4>4
      <4>5. CASE i > k
        <5>1. i - 1 \in 0..n /\ i - 1 <= j - 1 BY <2>9, <3>1, <4>5
        <5> QED BY <2>1, <2>7, <3>1, <4>1, <4>2, <4>5, <5>1
      <4> QED BY <3>1, <4>3, <4>4, <4>5
    <3> QED BY <3>1, <3>2, <3>3, <3>4
  <2> QED BY <2>8, <2>9 DEF Sorted
<1>14. Running(r, n + 1, v)
  <2>1. \A t \in Slots : Flag(tc, t) = TIMER_FLAGS_USING <=> \E i \in 0..n : w[i] = t
    BY DEF IsList, Running
  <2>2. ASSUME NEW t \in Slots PROVE Flag(r, t) = TIMER_FLAGS_USING <=> \E i \in 0..(n + 1) : v[i] = t
    <3>1. CASE t = x
      <4>1. k \in 0..(n + 1) /\ v[k] = x BY <1>3, <1>7
      <4> QED BY <1>10, <3>1, <4>1
    <3>2. CASE t # x
      <4>1. ASSUME NEW i \in 0..n, w[i] = t PROVE \E j \in 0..(n + 1) : v[j] = t
        <5>1. CASE i < k BY <1>3, <1>7, <4>1, <5>1
        <5>2. CASE i >= k
          <6>1. i + 1 \in 0..(n + 1) /\ v[i + 1] = w[i] BY <1>3, <1>7, <5>2
          <6> QED BY <4>1, <6>1
        <5> QED BY <1>3, <1>7, <5>1, <5>2
      <4>2. ASSUME NEW j \in 0..(n + 1), v[j] = t PROVE \E i \in 0..n : w[i] = t
        BY <1>3, <1>7, <3>2, <4>2
      <4> HIDE DEF v
      <4> QED BY <1>10, <2>1, <3>2, <4>1, <4>2
    <3> QED BY <3>1, <3>2
  <2> QED BY <2>2 DEF Running
<1>15. TimesOK(r)
  BY <1>10 DEF TimesOK, SameFields
<1> QED BY <1>10, <1>12, <1>13, <1>14, <1>15 DEF Good, IsList, IsSet

-----------------------------------------------------------------------------
(* timer_cancel *)

\* The flags of one timer are set.
IsFlagged(tc, r, x, fl) ==
  /\ r \in Timerctl /\ r.count = tc.count /\ r.next = tc.next /\ r.t0 = tc.t0
  /\ \A t \in Slots : /\ Next0(r, t) = Next0(tc, t) /\ SameFields(tc, r, t)
                      /\ Time(r, t) = Time(tc, t)
                      /\ Flag(r, t) = IF t = x THEN fl ELSE Flag(tc, t)

LEMMA Flagged ==
  ASSUME NEW tc \in Timerctl, NEW x \in Slots, NEW fl \in {0, 1, 2}, NEW r,
         r = [tc EXCEPT !.timers0[x].flags = fl]
  PROVE  IsFlagged(tc, r, x, fl)
<1>1. PICK f : f = [tc.timers0 EXCEPT ![x].flags = fl] OBVIOUS
<1>2. r = [tc EXCEPT !.timers0 = f] BY <1>1 DEF Timerctl
<1>3. f \in [Slots -> Slot0] BY <1>1 DEF Timerctl, Slot0
<1>4. /\ r \in Timerctl /\ r.timers0 = f /\ r.count = tc.count /\ r.next = tc.next /\ r.t0 = tc.t0
  BY <1>2, <1>3 DEF Timerctl
<1>5. \A t \in Slots : /\ f[t].next = Next0(tc, t) /\ f[t].flags2 = Flag2(tc, t)
                      /\ f[t].fifo = tc.timers0[t].fifo /\ f[t].timeout = Time(tc, t)
                      /\ f[t].flags = IF t = x THEN fl ELSE Flag(tc, t)
  BY <1>1 DEF Timerctl, Slot0, Next0, Time, Flag, Flag2
<1> QED BY <1>4, <1>5 DEF Next0, Time, Flag, Flag2, SameFields, IsFlagged

\* A list stays one when neither its timers nor which ones are running changes.
LEMMA ListKept ==
  ASSUME NEW tc, NEW r, NEW n, NEW w, IsList(tc, n, w), r.t0 = tc.t0, r.next = tc.next,
         \A t \in Slots : /\ Next0(r, t) = Next0(tc, t) /\ Time(r, t) = Time(tc, t)
                          /\ Flag(r, t) = TIMER_FLAGS_USING <=> Flag(tc, t) = TIMER_FLAGS_USING
  PROVE  IsList(r, n, w)
<1> USE SlotsAre
<1>1. n \in Nat /\ n < MAX_TIMER /\ w \in [0..n -> Slots] BY DEF IsList, Chain
<1>2. Chain(r, n, w) BY <1>1 DEF IsList, Chain
<1>3. Sorted(r, n, w) BY <1>1 DEF IsList, Sorted
<1>4. Running(r, n, w) BY DEF IsList, Running
<1> QED BY <1>2, <1>3, <1>4 DEF IsList

\* The running timer x, number p of the list, is taken from it.
IsUnlinked(tc, r, p, w) ==
  /\ r \in Timerctl /\ r.count = tc.count
  /\ r.t0 = IF p = 0 THEN w[1] ELSE tc.t0
  /\ r.next = IF p = 0 THEN Time(tc, w[1]) ELSE tc.next
  /\ \A t \in Slots : /\ SameFields(tc, r, t) /\ Time(r, t) = Time(tc, t)
                      /\ Flag(r, t) = Flag(tc, t)
                      /\ Next0(r, t) = IF p # 0 /\ t = w[p - 1] THEN w[p + 1] ELSE Next0(tc, t)

HeadMoved(tc, y) == [tc EXCEPT !.t0 = y, !.next = tc.timers0[y].timeout]
LinkMoved(tc, s, y) == [tc EXCEPT !.timers0[s].next = y]

LEMMA Unlinked ==
  ASSUME NEW tc \in Timerctl, NEW n, NEW w, Chain(tc, n, w), NEW p \in 0..(n - 1), NEW r,
         r = IF p = 0 THEN HeadMoved(tc, w[1]) ELSE LinkMoved(tc, w[p - 1], w[p + 1])
  PROVE  IsUnlinked(tc, r, p, w)
<1> USE SlotsAre
<1>1. n \in Nat /\ w \in [0..n -> Slots] BY DEF Chain
<1>2. w[p + 1] \in Slots BY <1>1
<1>3. CASE p = 0
  <2>1. PICK y : y = w[1] OBVIOUS
  <2>2. y \in Slots /\ r = [tc EXCEPT !.t0 = y, !.next = Time(tc, y)]
    BY <1>2, <1>3, <2>1 DEF HeadMoved, Time
  <2>3. Time(tc, y) \in Nat BY <2>2, FieldsTyped
  <2>4. /\ r \in Timerctl /\ r.count = tc.count /\ r.t0 = y /\ r.next = Time(tc, y)
        /\ r.timers0 = tc.timers0
    BY <2>2, <2>3 DEF Timerctl
  <2>5. \A t \in Slots : /\ SameFields(tc, r, t) /\ Time(r, t) = Time(tc, t)
                         /\ Flag(r, t) = Flag(tc, t) /\ Next0(r, t) = Next0(tc, t)
    BY <2>4 DEF SameFields, Time, Flag, Next0, Flag2
  <2> QED BY <1>3, <2>1, <2>4, <2>5 DEF IsUnlinked
<1>4. CASE p # 0
  <2>1. PICK s, y : s = w[p - 1] /\ y = w[p + 1] OBVIOUS
  <2>2. s \in Slots /\ y \in Slots \cup {NULL} BY <1>1, <1>2, <1>4, <2>1
  <2>3. r = [tc EXCEPT !.timers0[s].next = y] BY <1>4, <2>1 DEF LinkMoved
  <2>4. /\ r \in Timerctl /\ r.count = tc.count /\ r.next = tc.next /\ r.t0 = tc.t0
        /\ \A t \in Slots : /\ Next0(r, t) = IF t = s THEN y ELSE Next0(tc, t)
                            /\ Time(r, t) = Time(tc, t) /\ Flag(r, t) = Flag(tc, t)
                            /\ SameFields(tc, r, t)
    BY <2>2, <2>3, Linked
  <2> QED BY <1>4, <2>1, <2>4 DEF IsUnlinked
<1> QED BY <1>3, <1>4

\* What is left of the list when timer number p is gone from it
LEMMA RestIsList ==
  ASSUME NEW tc \in Timerctl, NEW n, NEW w, IsList(tc, n, w), NEW p \in 0..(n - 1),
         NEW u, IsUnlinked(tc, u, p, w), NEW fl, fl # TIMER_FLAGS_USING,
         NEW r, IsFlagged(u, r, w[p], fl)
  PROVE  \E m, v : IsList(r, m, v)
<1> USE SlotsAre
<1>1. /\ n \in Nat /\ n < MAX_TIMER /\ w \in [0..n -> Slots]
      /\ \A i, j \in 0..n : w[i] = w[j] => i = j
      /\ w[0] = tc.t0 /\ w[n] = sentinel /\ Next0(tc, sentinel) = NULL
      /\ \A i \in 0..(n - 1) : Next0(tc, w[i]) = w[i + 1]
  BY DEF IsList, Chain
<1>2. /\ tc.next = Time(tc, w[0])
      /\ \A i, j \in 0..n : i <= j => Time(tc, w[i]) <= Time(tc, w[j])
      /\ \A t \in Slots : Flag(tc, t) = TIMER_FLAGS_USING <=> \E i \in 0..n : w[i] = t
  BY DEF IsList, Sorted, Running
<1>3. /\ r.t0 = IF p = 0 THEN w[1] ELSE tc.t0
      /\ r.next = IF p = 0 THEN Time(tc, w[1]) ELSE tc.next
      /\ \A t \in Slots :
           /\ Time(r, t) = Time(tc, t)
           /\ Flag(r, t) = IF t = w[p] THEN fl ELSE Flag(tc, t)
           /\ Next0(r, t) = IF p # 0 /\ t = w[p - 1] THEN w[p + 1] ELSE Next0(tc, t)
  BY DEF IsUnlinked, IsFlagged
<1> DEFINE v == [i \in 0..(n - 1) |-> IF i < p THEN w[i] ELSE w[i + 1]]
<1>4. n - 1 \in 0..(MAX_TIMER - 1) /\ n \in 1..(MAX_TIMER - 1) BY <1>1
<1>5. v \in [0..(n - 1) -> Slots] BY <1>1
<1>6. \A i \in 0..(n - 1) : v[i] = IF i < p THEN w[i] ELSE w[i + 1] OBVIOUS
<1> HIDE DEF v
<1>7. Chain(r, n - 1, v)
  <2>1. \A i, j \in 0..(n - 1) : v[i] = v[j] => i = j BY <1>1, <1>6
  <2>2. v[n - 1] = sentinel /\ v[0] = r.t0 BY <1>1, <1>3, <1>4, <1>6
  <2>3. Next0(r, sentinel) = NULL
    <3>1. p # 0 => w[p - 1] # sentinel BY <1>1
    <3> QED BY <1>1, <1>3, <3>1
  <2>4. ASSUME NEW i \in 0..((n - 1) - 1) PROVE Next0(r, v[i]) = v[i + 1]
    <3>1. CASE i = p - 1
      <4>1. v[i] = w[p - 1] /\ v[i + 1] = w[p + 1] /\ p # 0 BY <1>4, <1>6, <3>1
      <4>2. w[p - 1] \in Slots BY <1>1, <3>1
      <4> QED BY <1>3, <4>1, <4>2
    <3>2. CASE i < p - 1
      <4>1. v[i] = w[i] /\ v[i + 1] = w[i + 1] /\ w[i] # w[p - 1] /\ w[i] \in Slots
        BY <1>1, <1>4, <1>6, <3>2
      <4> QED BY <1>1, <1>3, <4>1, <3>2
    <3>3. CASE i >= p
      <4>1. /\ v[i] = w[i + 1] /\ v[i + 1] = w[(i + 1) + 1] /\ w[i + 1] \in Slots
            /\ i + 1 \in 0..(n - 1)
        BY <1>1, <1>4, <1>6, <3>3, SMTT(20)
      <4>2. p # 0 => w[i + 1] # w[p - 1] BY <1>1, <3>3
      <4>3. Next0(tc, w[i + 1]) = w[(i + 1) + 1] BY <1>1, <4>1
      <4> QED BY <1>3, <4>1, <4>2, <4>3
    <3> QED BY <1>4, <3>1, <3>2, <3>3
  <2> QED BY <1>4, <1>5, <2>1, <2>2, <2>3, <2>4 DEF Chain
<1>8. Sorted(r, n - 1, v)
  <2>1. \A i \in 0..(n - 1) : /\ i < p => Time(r, v[i]) = Time(tc, w[i])
                              /\ i >= p => Time(r, v[i]) = Time(tc, w[i + 1])
    BY <1>1, <1>3, <1>4, <1>6, SMTT(20)
  <2>2. r.next = Time(r, v[0])
    BY <1>1, <1>2, <1>3, <1>4, <1>6
  <2>3. ASSUME NEW i \in 0..(n - 1), NEW j \in 0..(n - 1), i <= j
        PROVE  Time(r, v[i]) <= Time(r, v[j])
    <3>1. PICK a, b : /\ a = IF i < p THEN i ELSE i + 1
                      /\ b = IF j < p THEN j ELSE j + 1
      OBVIOUS
    <3>2. a \in 0..n /\ b \in 0..n /\ a <= b BY <1>4, <2>3, <3>1
    <3>3. Time(r, v[i]) = Time(tc, w[a]) /\ Time(r, v[j]) = Time(tc, w[b])
      BY <1>4, <2>1, <3>1
    <3> QED BY <1>2, <3>2, <3>3
  <2> QED BY <2>2, <2>3 DEF Sorted
<1>9. Running(r, n - 1, v)
  <2>1. ASSUME NEW t \in Slots
        PROVE  Flag(r, t) = TIMER_FLAGS_USING <=> \E i \in 0..(n - 1) : v[i] = t
    <3>1. ASSUME NEW i \in 0..n, w[i] = t, t # w[p] PROVE \E j \in 0..(n - 1) : v[j] = t
      <4>1. CASE i < p BY <1>4, <1>6, <3>1, <4>1
      <4>2. CASE i > p
        <5>1. i - 1 \in 0..(n - 1) /\ v[i - 1] = w[i] BY <1>4, <1>6, <4>2
        <5> QED BY <3>1, <5>1
      <4> QED BY <1>4, <3>1, <4>1, <4>2
    <3>2. ASSUME NEW j \in 0..(n - 1), v[j] = t PROVE t # w[p] /\ \E i \in 0..n : w[i] = t
      <4>1. CASE j < p BY <1>1, <1>4, <1>6, <3>2, <4>1
      <4>2. CASE j >= p
        <5>1. j + 1 \in 0..n /\ w[j + 1] = t BY <1>4, <1>6, <3>2, <4>2
        <5>2. j + 1 # p /\ p \in 0..n BY <1>4, <4>2
        <5> QED BY <1>1, <5>1, <5>2
      <4> QED BY <1>4, <4>1, <4>2
    <3> QED BY <1>2, <1>3, <3>1, <3>2
  <2> QED BY <2>1 DEF Running
<1> QED BY <1>7, <1>8, <1>9 DEF IsList

\* Cancelling a timer takes it from the list when it is running.
IsCancelled(tc, r, x) ==
  /\ Good(r) /\ r.count = tc.count
  /\ \A t \in Slots :
       /\ SameFields(tc, r, t) /\ Time(r, t) = Time(tc, t)
       /\ Flag(r, t) = IF t = x /\ Flag(tc, t) = TIMER_FLAGS_USING
                         THEN TIMER_FLAGS_ALLOC ELSE Flag(tc, t)

LEMMA TimerCancelled ==
  ASSUME NEW tc, Good(tc), NEW x \in Slots \ {sentinel}, NEW r, r = timer_cancel(tc, x)
  PROVE  IsCancelled(tc, r, x)
<1> USE SlotsAre
<1>1. tc \in Timerctl /\ TimesOK(tc) BY DEF Good
<1>2. CASE Flag(tc, x) # TIMER_FLAGS_USING
  <2>1. r = tc BY <1>2 DEF timer_cancel, Flag
  <2> QED BY <1>2, <2>1 DEF IsCancelled, SameFields
<1>3. CASE Flag(tc, x) = TIMER_FLAGS_USING
  <2>1. PICK n, w : IsList(tc, n, w) BY DEF Good
  <2>2. /\ n \in Nat /\ n < MAX_TIMER /\ w \in [0..n -> Slots] /\ Chain(tc, n, w)
        /\ \A i, j \in 0..n : w[i] = w[j] => i = j
        /\ w[0] = tc.t0 /\ w[n] = sentinel
        /\ \A i \in 0..(n - 1) : Next0(tc, w[i]) = w[i + 1]
    BY <2>1 DEF IsList, Chain
  <2>3. PICK p \in 0..n : w[p] = x BY <1>3, <2>1 DEF IsList, Running
  <2>4. p \in 0..(n - 1) BY <2>2, <2>3
  <2>5. Next0(tc, x) = w[p + 1] BY <2>2, <2>3, <2>4
  <2>6. x = tc.t0 <=> p = 0 BY <2>2, <2>3, <2>4
  <2> DEFINE Before == {s \in Slots : Next0(tc, s) = x}
             u == IF x = tc.t0 THEN HeadMoved(tc, Next0(tc, x))
                  ELSE LinkMoved(tc, Walk(tc)[FirstOnList(tc, Before)], Next0(tc, x))
  <2>7. p # 0 => Walk(tc)[FirstOnList(tc, Before)] = w[p - 1]
    <3> SUFFICES ASSUME p # 0 PROVE Walk(tc)[FirstOnList(tc, Before)] = w[p - 1] OBVIOUS
    <3>1. p - 1 \in 0..n /\ p - 1 \in 0..(n - 1) /\ w[p - 1] \in Slots BY <2>2, <2>4
    <3>2. Next0(tc, w[p - 1]) = w[(p - 1) + 1] BY <2>2, <3>1
    <3>3. w[p - 1] \in Before BY <2>3, <2>4, <3>1, <3>2
    <3>4. ASSUME NEW i \in 0..n, i < p - 1 PROVE w[i] \notin Before
      <4>1. Next0(tc, w[i]) = w[i + 1] /\ i + 1 \in 0..n /\ i + 1 # p BY <2>2, <2>4, <3>4
      <4> QED BY <2>2, <2>3, <2>4, <4>1
    <3>5. Before \subseteq Slots OBVIOUS
    <3>6. FirstOnList(tc, Before) = p - 1
      <4> HIDE DEF Before
      <4> QED BY <2>2, <3>1, <3>3, <3>4, <3>5, FirstIs
    <3> QED BY <2>2, <3>1, <3>6, WalkIs
  <2>8. u = IF p = 0 THEN HeadMoved(tc, w[1]) ELSE LinkMoved(tc, w[p - 1], w[p + 1])
    <3> HIDE DEF Before
    <3>1. CASE p = 0 BY <2>5, <2>6, <3>1
    <3>2. CASE p # 0 BY <2>5, <2>6, <2>7, <3>2
    <3> QED BY <3>1, <3>2
  <2>9. r = [u EXCEPT !.timers0[x].flags = TIMER_FLAGS_ALLOC]
    BY <1>3 DEF timer_cancel, Flag, Next0, HeadMoved, LinkMoved
  <2> HIDE DEF u
  <2>10. IsUnlinked(tc, u, p, w) BY <1>1, <2>2, <2>4, <2>8, Unlinked
  <2>11. u \in Timerctl BY <2>10 DEF IsUnlinked
  <2>12. IsFlagged(u, r, x, TIMER_FLAGS_ALLOC)
    <3>1. TIMER_FLAGS_ALLOC \in {0, 1, 2} /\ x \in Slots BY DEF TIMER_FLAGS_ALLOC
    <3> QED BY <2>9, <2>11, <3>1, Flagged
  <2>13. \E m, v : IsList(r, m, v)
    <3>1. TIMER_FLAGS_ALLOC # TIMER_FLAGS_USING BY DEF TIMER_FLAGS_ALLOC, TIMER_FLAGS_USING
    <3> QED BY <1>1, <2>1, <2>3, <2>4, <2>10, <2>12, <3>1, RestIsList
  <2>14. /\ r \in Timerctl /\ r.count = tc.count
         /\ \A t \in Slots :
              /\ SameFields(tc, r, t) /\ Time(r, t) = Time(tc, t)
              /\ Flag(r, t) = IF t = x THEN TIMER_FLAGS_ALLOC ELSE Flag(tc, t)
    BY <2>10, <2>12 DEF IsUnlinked, IsFlagged, SameFields
  <2>15. TIMER_FLAGS_ALLOC # TIMER_FLAGS_USING BY DEF TIMER_FLAGS_ALLOC, TIMER_FLAGS_USING
  <2>16. TimesOK(r) BY <1>1, <2>14, <2>15 DEF TimesOK, SameFields
  <2> QED BY <1>3, <2>13, <2>14, <2>16 DEF IsCancelled, Good
<1> QED BY <1>2, <1>3

-----------------------------------------------------------------------------
(* timer_free, timer_cancelall and timer_alloc *)

\* A timer that is not running changes its flags, and is not running then.
IsKept(tc, r, x, fl) ==
  /\ Good(r) /\ r.count = tc.count
  /\ \A t \in Slots : /\ SameFields(tc, r, t) /\ Time(r, t) = Time(tc, t)
                      /\ Flag(r, t) = IF t = x THEN fl ELSE Flag(tc, t)

LEMMA TimerFreed ==
  ASSUME NEW tc, Good(tc), NEW x \in Slots, Flag(tc, x) # TIMER_FLAGS_USING,
         NEW r, r = timer_free(tc, x)
  PROVE  IsKept(tc, r, x, 0)
<1>1. tc \in Timerctl /\ TimesOK(tc) /\ 0 \in {0, 1, 2} /\ 0 # TIMER_FLAGS_USING
  BY DEF Good, TIMER_FLAGS_USING
<1>2. r = [tc EXCEPT !.timers0[x].flags = 0] BY DEF timer_free
<1>3. IsFlagged(tc, r, x, 0) BY <1>1, <1>2, Flagged
<1>4. PICK n, w : IsList(tc, n, w) BY DEF Good
<1>5. IsList(r, n, w) BY <1>1, <1>3, <1>4, ListKept DEF IsFlagged
<1>6. TimesOK(r) BY <1>1, <1>3, SlotsAre DEF TimesOK, IsFlagged, SameFields
<1> QED BY <1>3, <1>5, <1>6 DEF IsKept, IsFlagged, Good

\* The applications' timers that send to this FIFO
Mine(tc, t, fifo) == Flag(tc, t) # 0 /\ Flag2(tc, t) # 0 /\ tc.timers0[t].fifo = fifo

\* timer_cancelall has looked at the slots before this one.
IsCancelledTo(tc, r, fifo, m) ==
  /\ Good(r) /\ r.count = tc.count
  /\ \A t \in Slots :
       /\ SameFields(tc, r, t) /\ Time(r, t) = Time(tc, t)
       /\ Flag(r, t) = IF t < m /\ Mine(tc, t, fifo) THEN 0 ELSE Flag(tc, t)

\* One round of its loop
Looked(u, t, fifo) ==
  IF Mine(u, t, fifo) THEN timer_free(timer_cancel(u, t), t) ELSE u

LEMMA OneLooked ==
  ASSUME NEW tc, Good(tc), NEW fifo, NEW m \in Slots, NEW u, IsCancelledTo(tc, u, fifo, m),
         NEW r, r = Looked(u, m, fifo)
  PROVE  IsCancelledTo(tc, r, fifo, m + 1)
<1> USE SlotsAre
<1>1. /\ Good(u) /\ u.count = tc.count /\ TimesOK(u) /\ m \in Nat
      /\ \A t \in Slots :
           /\ SameFields(tc, u, t) /\ Time(u, t) = Time(tc, t)
           /\ Flag(u, t) = IF t < m /\ Mine(tc, t, fifo) THEN 0 ELSE Flag(tc, t)
  BY DEF IsCancelledTo, Good, Slots
<1>2. Mine(u, m, fifo) <=> Mine(tc, m, fifo)
  <2>1. SameFields(tc, u, m) /\ Flag(u, m) = Flag(tc, m) BY <1>1
  <2> QED BY <2>1 DEF Mine, SameFields
<1>3. \A t \in Slots : t < m + 1 <=> t < m \/ t = m BY <1>1 DEF Slots
<1>4. CASE ~Mine(tc, m, fifo)
  <2>1. r = u BY <1>2, <1>4 DEF Looked
  <2> QED BY <1>1, <1>3, <1>4, <2>1 DEF IsCancelledTo
<1>5. CASE Mine(tc, m, fifo)
  <2>1. m \in Slots \ {sentinel}
    <3>1. Flag2(u, m) # 0 BY <1>2, <1>5 DEF Mine
    <3> QED BY <1>1, <3>1 DEF TimesOK
  <2>2. PICK c : c = timer_cancel(u, m) OBVIOUS
  <2>3. IsCancelled(u, c, m) BY <1>1, <2>1, <2>2, TimerCancelled
  <2>4. Good(c) /\ c.count = tc.count BY <1>1, <2>3 DEF IsCancelled
  <2>5. ASSUME NEW t \in Slots
        PROVE  /\ SameFields(tc, c, t) /\ Time(c, t) = Time(tc, t)
               /\ t # m => Flag(c, t) = Flag(u, t)
               /\ t = m => Flag(c, t) # TIMER_FLAGS_USING
    BY <1>1, <2>3 DEF IsCancelled, SameFields, TIMER_FLAGS_ALLOC, TIMER_FLAGS_USING
  <2>6. r = timer_free(c, m) BY <1>2, <1>5, <2>2 DEF Looked
  <2>7. Flag(c, m) # TIMER_FLAGS_USING BY <2>5
  <2>8. IsKept(c, r, m, 0) BY <2>4, <2>6, <2>7, TimerFreed
  <2>9. Good(r) /\ r.count = tc.count BY <2>4, <2>8 DEF IsKept
  <2>10. ASSUME NEW t \in Slots
         PROVE  /\ SameFields(tc, r, t) /\ Time(r, t) = Time(tc, t)
                /\ Flag(r, t) = IF t < m + 1 /\ Mine(tc, t, fifo) THEN 0 ELSE Flag(tc, t)
    <3>1. SameFields(tc, r, t) /\ Time(r, t) = Time(tc, t)
      BY <2>5, <2>8 DEF IsKept, SameFields
    <3>2. CASE t = m
      <4>1. Flag(r, t) = 0 BY <2>8, <3>2 DEF IsKept
      <4> QED BY <1>3, <1>5, <3>1, <3>2, <4>1
    <3>3. CASE t # m
      <4>1. Flag(r, t) = Flag(u, t) BY <2>5, <2>8, <3>3 DEF IsKept
      <4> QED BY <1>1, <1>3, <3>1, <3>3, <4>1
    <3> QED BY <3>2, <3>3
  <2> QED BY <2>9, <2>10 DEF IsCancelledTo
<1> QED BY <1>4, <1>5

LEMMA AllCancelled ==
  ASSUME NEW tc, Good(tc), NEW fifo, NEW r, r = timer_cancelall(tc, fifo)
  PROVE  IsCancelledTo(tc, r, fifo, MAX_TIMER)
<1> USE SlotsAre
<1> DEFINE Q(f, m) == /\ f[0] = tc
                      /\ \A i \in 1..m : f[i] = Looked(f[i - 1], i - 1, fifo)
           P(f) == f = [i \in 0..MAX_TIMER |-> IF i = 0 THEN tc ELSE Looked(f[i - 1], i - 1, fifo)]
\* such a function exists
<1>1. \A m \in 0..MAX_TIMER : \E f : Q(f, m)
  <2> DEFINE Off == {m \in 0..MAX_TIMER : ~\E f : Q(f, m)}
  <2> SUFFICES ASSUME Off # {} PROVE FALSE OBVIOUS
  <2>0. Off \subseteq Nat OBVIOUS
  <2>1. PICK m \in Off : \A k \in Off : m <= k
    <3> HIDE DEF Off
    <3> QED BY <2>0, LeastExists
  <2>2. m \in 0..MAX_TIMER /\ ~\E f : Q(f, m) OBVIOUS
  <2>3. m # 0
    <3>1. Q([i \in 0..0 |-> tc], 0) OBVIOUS
    <3> HIDE DEF Q
    <3> QED BY <2>2, <3>1
  <2>4. m - 1 \in 0..MAX_TIMER /\ m - 1 \notin Off
    <3> HIDE DEF Q
    <3> QED BY <2>1, <2>2, <2>3
  <2>5. PICK f : Q(f, m - 1)
    <3> HIDE DEF Q
    <3> QED BY <2>4
  <2> DEFINE g == [i \in 0..m |-> IF i < m THEN f[i] ELSE Looked(f[m - 1], m - 1, fifo)]
  <2>6. g[0] = tc BY <2>2, <2>3, <2>5
  <2>7. ASSUME NEW i \in 1..m PROVE g[i] = Looked(g[i - 1], i - 1, fifo)
    <3>1. g[i - 1] = f[i - 1] BY <2>2, <2>7
    <3>2. CASE i = m BY <2>2, <3>1, <3>2
    <3>3. CASE i < m
      <4>1. i \in 1..(m - 1) /\ g[i] = f[i] BY <2>2, <3>3
      <4> QED BY <2>5, <3>1, <4>1
    <3> QED BY <2>2, <3>2, <3>3
  <2>8. Q(g, m)
    <3> HIDE DEF g
    <3> QED BY <2>6, <2>7
  <2> HIDE DEF Q, g
  <2> QED BY <2>2, <2>8
<1>2. PICK f : Q(f, MAX_TIMER)
  <2> HIDE DEF Q
  <2> QED BY <1>1
<1> DEFINE g == [i \in 0..MAX_TIMER |-> f[i]]
<1>3. P(g)
  <2>1. ASSUME NEW i \in 0..MAX_TIMER
        PROVE  g[i] = IF i = 0 THEN tc ELSE Looked(g[i - 1], i - 1, fifo)
    <3>1. CASE i = 0 BY <1>2, <3>1
    <3>2. CASE i # 0
      <4>1. i \in 1..MAX_TIMER /\ g[i] = f[i] /\ g[i - 1] = f[i - 1] BY <3>2
      <4> QED BY <1>2, <3>2, <4>1
    <3> QED BY <3>1, <3>2
  <2> HIDE DEF Q
  <2> QED BY <2>1
<1> DEFINE upto == CHOOSE h : P(h)
<1>4. r = upto[MAX_TIMER]
  BY DEF timer_cancelall, Looked, Mine, Flag, Flag2
<1> HIDE DEF Q, P, g
<1>5. P(upto) BY <1>3
<1> HIDE DEF upto
<1>6. upto[0] = tc /\ \A i \in 1..MAX_TIMER : upto[i] = Looked(upto[i - 1], i - 1, fifo)
  BY <1>5 DEF P
\* and each of its values is what the loop has left
<1> DEFINE Off == {m \in 0..MAX_TIMER : ~IsCancelledTo(tc, upto[m], fifo, m)}
<1>7. Off = {}
  <2> SUFFICES ASSUME Off # {} PROVE FALSE OBVIOUS
  <2>0. Off \subseteq Nat OBVIOUS
  <2>1. PICK m \in Off : \A k \in Off : m <= k
    <3> HIDE DEF Off
    <3> QED BY <2>0, LeastExists
  <2>2. m \in 0..MAX_TIMER /\ ~IsCancelledTo(tc, upto[m], fifo, m) OBVIOUS
  <2>3. m # 0
    <3>1. \A t \in Slots : ~(t < 0) BY DEF Slots
    <3>2. IsCancelledTo(tc, tc, fifo, 0) BY <3>1 DEF IsCancelledTo, SameFields
    <3> QED BY <1>6, <2>2, <3>2
  <2>4. m - 1 \in 0..MAX_TIMER /\ m - 1 \notin Off BY <2>1, <2>2, <2>3
  <2>5. IsCancelledTo(tc, upto[m - 1], fifo, m - 1) BY <2>4
  <2>6. upto[m] = Looked(upto[m - 1], m - 1, fifo) /\ m - 1 \in Slots
    BY <1>6, <2>2, <2>3 DEF Slots
  <2>7. IsCancelledTo(tc, upto[m], fifo, (m - 1) + 1) BY <2>5, <2>6, OneLooked
  <2> QED BY <2>2, <2>7
<1> QED BY <1>4, <1>7

\* timer_alloc and timer_init
Taken(tc, x, fifo, f2) ==
  [tc EXCEPT !.timers0[x] =
     [@ EXCEPT !.flags = TIMER_FLAGS_ALLOC, !.flags2 = f2, !.fifo = fifo]]

IsTaken(tc, r, x) ==
  /\ Good(r) /\ r.count = tc.count
  /\ \A t \in Slots : /\ Time(r, t) = Time(tc, t)
                      /\ Flag(r, t) = IF t = x THEN TIMER_FLAGS_ALLOC ELSE Flag(tc, t)

LEMMA TimerTaken ==
  ASSUME NEW tc, Good(tc), NEW x \in Slots \ {sentinel, task_timer}, Flag(tc, x) = 0,
         NEW fifo \in Fifos, NEW f2 \in {0, 1}, NEW r, r = Taken(tc, x, fifo, f2)
  PROVE  IsTaken(tc, r, x)
<1> USE SlotsAre
<1>0. tc \in Timerctl /\ TimesOK(tc) /\ x \in Slots BY DEF Good
<1>1. PICK e : e = [tc.timers0[x] EXCEPT !.flags = TIMER_FLAGS_ALLOC, !.flags2 = f2, !.fifo = fifo]
  OBVIOUS
<1>2. tc.timers0[x] \in Slot0 BY <1>0 DEF Timerctl
<1>3. /\ e \in Slot0 /\ e.next = Next0(tc, x) /\ e.timeout = Time(tc, x)
      /\ e.flags = TIMER_FLAGS_ALLOC
  BY <1>1, <1>2 DEF Slot0, TIMER_FLAGS_ALLOC, Next0, Time
<1>4. PICK f : f = [tc.timers0 EXCEPT ![x] = e] OBVIOUS
<1>5. r = [tc EXCEPT !.timers0 = f] BY <1>0, <1>1, <1>4 DEF Taken, Timerctl
<1>6. f \in [Slots -> Slot0] BY <1>0, <1>3, <1>4 DEF Timerctl
<1>7. /\ r \in Timerctl /\ r.timers0 = f /\ r.count = tc.count /\ r.next = tc.next /\ r.t0 = tc.t0
  BY <1>0, <1>5, <1>6 DEF Timerctl
<1>8. ASSUME NEW t \in Slots
      PROVE  /\ Next0(r, t) = Next0(tc, t) /\ Time(r, t) = Time(tc, t)
             /\ t # x => Flag(r, t) = Flag(tc, t) /\ Flag2(r, t) = Flag2(tc, t)
             /\ t = x => Flag(r, t) = TIMER_FLAGS_ALLOC
  BY <1>0, <1>3, <1>4, <1>7 DEF Timerctl, Next0, Time, Flag, Flag2
<1>9. TIMER_FLAGS_ALLOC # TIMER_FLAGS_USING /\ 0 # TIMER_FLAGS_USING
  BY DEF TIMER_FLAGS_ALLOC, TIMER_FLAGS_USING
<1>10. TimesOK(r) BY <1>0, <1>8, <1>9 DEF TimesOK
<1>11. PICK n, w : IsList(tc, n, w) BY DEF Good
<1>12. IsList(r, n, w) BY <1>7, <1>8, <1>9, <1>11, ListKept
<1> QED BY <1>7, <1>8, <1>10, <1>12 DEF Good, IsTaken

-----------------------------------------------------------------------------
(* inthandler20 *)

CountUp(tc, c) == [tc EXCEPT !.count = c]

LEMMA Counted ==
  ASSUME NEW tc, Good(tc), NEW c \in Nat, NEW r, r = CountUp(tc, c)
  PROVE  /\ Good(r) /\ r.count = c /\ r.next = tc.next
         /\ \A t \in Slots : Time(r, t) = Time(tc, t) /\ Flag(r, t) = Flag(tc, t)
<1>1. tc \in Timerctl /\ TimesOK(tc) BY DEF Good
<1>2. /\ r \in Timerctl /\ r.count = c /\ r.next = tc.next /\ r.t0 = tc.t0
      /\ r.timers0 = tc.timers0
  BY <1>1 DEF CountUp, Timerctl
<1>3. \A t \in Slots : /\ Time(r, t) = Time(tc, t) /\ Flag(r, t) = Flag(tc, t)
                       /\ Next0(r, t) = Next0(tc, t) /\ Flag2(r, t) = Flag2(tc, t)
  BY <1>2 DEF Time, Flag, Next0, Flag2
<1>4. TimesOK(r) BY <1>1, <1>3, SlotsAre DEF TimesOK
<1>5. PICK n, w : IsList(tc, n, w) BY DEF Good
<1>6. IsList(r, n, w) BY <1>2, <1>3, <1>5, ListKept
<1> QED BY <1>2, <1>3, <1>4, <1>6 DEF Good

\* The first k timers of the list have timed out.
Gone(w, k, t) == \E i \in 0..(k - 1) : w[i] = t

IsTimedOut(tc, r, w, k) ==
  /\ Good(r) /\ r.count = tc.count
  /\ \A t \in Slots : /\ Time(r, t) = Time(tc, t)
                      /\ Flag(r, t) = IF Gone(w, k, t) THEN TIMER_FLAGS_ALLOC ELSE Flag(tc, t)

LEMMA ListTimedOut ==
  ASSUME NEW tc \in Timerctl, TimesOK(tc), NEW n, NEW w, IsList(tc, n, w), NEW k \in 0..n,
         NEW r, r = TimedOut(tc, k)
  PROVE  IsTimedOut(tc, r, w, k)
<1> USE SlotsAre
<1>1. /\ n \in Nat /\ n < MAX_TIMER /\ w \in [0..n -> Slots] /\ Chain(tc, n, w)
      /\ \A i, j \in 0..n : w[i] = w[j] => i = j
      /\ w[0] = tc.t0 /\ w[n] = sentinel /\ Next0(tc, sentinel) = NULL
      /\ \A i \in 0..(n - 1) : Next0(tc, w[i]) = w[i + 1]
  BY DEF IsList, Chain
<1>2. /\ tc.next = Time(tc, w[0])
      /\ \A i, j \in 0..n : i <= j => Time(tc, w[i]) <= Time(tc, w[j])
      /\ \A t \in Slots : Flag(tc, t) = TIMER_FLAGS_USING <=> \E i \in 0..n : w[i] = t
  BY DEF IsList, Sorted, Running
<1> DEFINE gone == {Walk(tc)[i] : i \in 0..(k - 1)}
<1>3. PICK y : y = Walk(tc)[k] OBVIOUS
<1>4. y = w[k] /\ y \in Slots BY <1>1, <1>3, WalkIs
<1>5. \A t \in Slots : t \in gone <=> Gone(w, k, t)
  <2>1. \A i \in 0..(k - 1) : Walk(tc)[i] = w[i] BY <1>1, WalkIs
  <2> QED BY <2>1 DEF Gone
<1> HIDE DEF gone
<1>6. PICK f : f = [t \in Slots |-> IF t \in gone
                     THEN [tc.timers0[t] EXCEPT !.flags = TIMER_FLAGS_ALLOC]
                     ELSE tc.timers0[t]]
  OBVIOUS
<1>7. r = [tc EXCEPT !.t0 = y, !.next = Time(tc, y), !.timers0 = f]
  BY <1>3, <1>6 DEF TimedOut, Time, gone
<1>8. f \in [Slots -> Slot0] BY <1>6 DEF Timerctl, Slot0, TIMER_FLAGS_ALLOC
<1>9. Time(tc, y) \in Nat BY <1>4, FieldsTyped
<1>10. /\ r \in Timerctl /\ r.timers0 = f /\ r.count = tc.count /\ r.next = Time(tc, w[k])
       /\ r.t0 = w[k]
  BY <1>4, <1>7, <1>8, <1>9 DEF Timerctl
<1>11. ASSUME NEW t \in Slots
       PROVE  /\ Next0(r, t) = Next0(tc, t) /\ Time(r, t) = Time(tc, t)
              /\ Flag2(r, t) = Flag2(tc, t)
              /\ Flag(r, t) = IF Gone(w, k, t) THEN TIMER_FLAGS_ALLOC ELSE Flag(tc, t)
  <2>1. CASE t \in gone
    <3>1. f[t] = [tc.timers0[t] EXCEPT !.flags = TIMER_FLAGS_ALLOC] BY <1>6, <2>1
    <3>2. tc.timers0[t] \in Slot0 BY DEF Timerctl
    <3>3. /\ f[t].next = Next0(tc, t) /\ f[t].timeout = Time(tc, t)
          /\ f[t].flags2 = Flag2(tc, t) /\ f[t].flags = TIMER_FLAGS_ALLOC
      BY <3>1, <3>2 DEF Slot0, Next0, Time, Flag2
    <3> QED BY <1>5, <1>10, <2>1, <3>3 DEF Next0, Time, Flag2, Flag
  <2>2. CASE t \notin gone
    <3>1. f[t] = tc.timers0[t] BY <1>6, <2>2
    <3> QED BY <1>5, <1>10, <2>2, <3>1 DEF Next0, Time, Flag2, Flag
  <2> QED BY <2>1, <2>2
<1>12. TIMER_FLAGS_ALLOC # TIMER_FLAGS_USING BY DEF TIMER_FLAGS_ALLOC, TIMER_FLAGS_USING
<1> DEFINE v == [i \in 0..(n - k) |-> w[k + i]]
<1>13. /\ n - k \in 0..(MAX_TIMER - 1) /\ v \in [0..(n - k) -> Slots]
       /\ \A i \in 0..(n - k) : k + i \in 0..n /\ v[i] = w[k + i]
  BY <1>1
<1> HIDE DEF v
<1>14. Chain(r, n - k, v)
  <2>1. \A i, j \in 0..(n - k) : v[i] = v[j] => i = j BY <1>1, <1>13
  <2>2. v[n - k] = sentinel /\ v[0] = r.t0 BY <1>1, <1>10, <1>13
  <2>3. Next0(r, sentinel) = NULL BY <1>1, <1>11
  <2>4. ASSUME NEW i \in 0..((n - k) - 1) PROVE Next0(r, v[i]) = v[i + 1]
    <3>1. /\ k + i \in 0..(n - 1) /\ v[i] = w[k + i] /\ w[k + i] \in Slots
          /\ v[i + 1] = w[(k + i) + 1]
      BY <1>1, <1>13
    <3>2. Next0(tc, w[k + i]) = w[(k + i) + 1] BY <1>1, <3>1
    <3> QED BY <1>11, <3>1, <3>2
  <2> QED BY <1>13, <2>1, <2>2, <2>3, <2>4 DEF Chain
<1>15. Sorted(r, n - k, v)
  <2>1. \A i \in 0..(n - k) : Time(r, v[i]) = Time(tc, w[k + i]) BY <1>1, <1>11, <1>13
  <2>2. r.next = Time(r, v[0]) BY <1>1, <1>10, <1>13, <2>1
  <2>3. ASSUME NEW i \in 0..(n - k), NEW j \in 0..(n - k), i <= j
        PROVE  Time(r, v[i]) <= Time(r, v[j])
    <3>1. k + i <= k + j /\ k + i \in 0..n /\ k + j \in 0..n BY <1>1, <2>3
    <3> QED BY <1>2, <2>1, <3>1
  <2> QED BY <2>2, <2>3 DEF Sorted
<1>16. Running(r, n - k, v)
  <2>1. ASSUME NEW t \in Slots
        PROVE  Flag(r, t) = TIMER_FLAGS_USING <=> \E i \in 0..(n - k) : v[i] = t
    <3>1. ASSUME NEW i \in 0..(n - k), v[i] = t PROVE ~Gone(w, k, t) /\ \E j \in 0..n : w[j] = t
      <4>1. k + i \in 0..n /\ w[k + i] = t BY <1>13, <3>1
      <4>2. ~Gone(w, k, t) BY <1>1, <3>1, <4>1 DEF Gone
      <4> QED BY <4>1, <4>2
    <3>2. ASSUME NEW j \in 0..n, w[j] = t, ~Gone(w, k, t) PROVE \E i \in 0..(n - k) : v[i] = t
      <4>1. j >= k BY <1>1, <3>2 DEF Gone
      <4>2. j - k \in 0..(n - k) /\ k + (j - k) = j BY <1>1, <4>1
      <4>3. v[j - k] = w[j] BY <1>13, <4>2
      <4> QED BY <3>2, <4>2, <4>3
    <3> QED BY <1>2, <1>11, <1>12, <3>1, <3>2
  <2> QED BY <2>1 DEF Running
<1>17. TimesOK(r) BY <1>11, <1>12 DEF TimesOK
<1> QED BY <1>10, <1>11, <1>14, <1>15, <1>16, <1>17 DEF IsTimedOut, Good, IsList

-----------------------------------------------------------------------------
(* The invariant *)

\* task_init has taken a priority, and so there is one.
Inv ==
  /\ Good(timerctl) /\ timerctl.count \in 0..MaxCount
  /\ Flag(timerctl, task_timer) = TIMER_FLAGS_USING /\ Priorities # {}

LEMMA DeadlineIs ==
  ASSUME NEW tc, tc.count \in 0..MaxCount, NEW d \in Delays \cup Priorities
  PROVE  /\ Deadline(tc, d) = tc.count + d /\ tc.count + d \in Nat /\ tc.count + d < Sentinel
<1>1. /\ MaxCount \in Nat /\ Radix \in Nat /\ d \in Nat /\ MaxCount + d < Radix - 1
  BY TimerAssumption
<1>2. d + tc.count \in Nat /\ d + tc.count < Radix BY <1>1
<1>3. (d + tc.count) % Radix = d + tc.count BY <1>1, <1>2
<1> QED BY <1>1, <1>3 DEF Deadline, Sentinel

\* The list of init_pit: there is the sentinel only.
Empty ==
  [count |-> 0, next |-> Sentinel, t0 |-> sentinel,
   timers0 |-> [t \in Slots |->
     [next |-> NULL, timeout |-> IF t = sentinel THEN Sentinel ELSE 0,
      flags |-> IF t = sentinel THEN TIMER_FLAGS_USING
                ELSE IF t = task_timer THEN TIMER_FLAGS_ALLOC ELSE 0,
      flags2 |-> 0, fifo |-> NoFifo]]]

LEMMA EmptyIsGood ==
  ASSUME Sentinel \in Nat
  PROVE  /\ Empty \in Timerctl /\ TimesOK(Empty) /\ Empty.count = 0
         /\ \E n, w : IsList(Empty, n, w)
         /\ Flag(Empty, task_timer) # TIMER_FLAGS_USING
         /\ \A t \in Slots \ {sentinel} : Flag(Empty, t) # TIMER_FLAGS_USING
<1> USE SlotsAre
<1>1. \A t \in Slots :
        /\ Empty.timers0[t] \in Slot0 /\ Flag2(Empty, t) = 0 /\ Next0(Empty, t) = NULL
        /\ t = sentinel => Time(Empty, t) = Sentinel
        /\ Flag(Empty, t) = IF t = sentinel THEN TIMER_FLAGS_USING
                            ELSE IF t = task_timer THEN TIMER_FLAGS_ALLOC ELSE 0
  BY DEF Empty, Slot0, TIMER_FLAGS_ALLOC, TIMER_FLAGS_USING, Flag2, Next0, Time, Flag
<1>2. Empty.count = 0 /\ Empty.next = Sentinel /\ Empty.t0 = sentinel BY DEF Empty
<1>3. Empty \in Timerctl BY <1>1 DEF Empty, Timerctl
<1>4. TIMER_FLAGS_ALLOC # TIMER_FLAGS_USING /\ 0 # TIMER_FLAGS_USING
  BY DEF TIMER_FLAGS_ALLOC, TIMER_FLAGS_USING
<1>5. TimesOK(Empty) BY <1>1, <1>4 DEF TimesOK
<1> DEFINE w == [i \in 0..0 |-> sentinel]
<1>6. w \in [0..0 -> Slots] /\ w[0] = sentinel /\ 0 \in 0..(MAX_TIMER - 1) OBVIOUS
<1>7. \A i \in 0..0 : i = 0 OBVIOUS
<1> HIDE DEF w
<1>8. Chain(Empty, 0, w) BY <1>1, <1>2, <1>6, <1>7 DEF Chain
<1>9. Sorted(Empty, 0, w) BY <1>1, <1>2, <1>6, <1>7 DEF Sorted
<1>10. Running(Empty, 0, w) BY <1>1, <1>4, <1>6, <1>7 DEF Running
<1>11. IsList(Empty, 0, w) BY <1>8, <1>9, <1>10 DEF IsList
<1> QED BY <1>1, <1>2, <1>3, <1>4, <1>5, <1>11

LEMMA InitIs ==
  ASSUME Init
  PROVE  /\ Inv
         /\ \E p \in Priorities :
              \A t \in Slots \ {sentinel} :
                 IF t = task_timer
                   THEN Flag(timerctl, t) = TIMER_FLAGS_USING /\ Time(timerctl, t) = p
                   ELSE Flag(timerctl, t) # TIMER_FLAGS_USING
<1> USE SlotsAre
<1>1. PICK p \in Priorities : timerctl = timer_settime(Empty, task_timer, p)
  BY DEF Init, Empty
<1>2. MaxCount \in Nat /\ p \in Delays \cup Priorities /\ p \in Nat /\ Sentinel \in Nat
  BY TimerAssumption DEF Sentinel
<1>3. /\ Empty \in Timerctl /\ TimesOK(Empty) /\ Empty.count = 0
      /\ Flag(Empty, task_timer) # TIMER_FLAGS_USING
      /\ \A t \in Slots \ {sentinel} : Flag(Empty, t) # TIMER_FLAGS_USING
  BY <1>2, EmptyIsGood
<1>4. PICK n, w : IsList(Empty, n, w) BY <1>2, EmptyIsGood
<1>5. Empty.count \in 0..MaxCount BY <1>2, <1>3
<1>6. p = Deadline(Empty, p) /\ p < Sentinel BY <1>2, <1>3, <1>5, DeadlineIs
<1>7. task_timer \in Slots \ {sentinel} OBVIOUS
<1>8. IsSet(Empty, timerctl, task_timer, p)
  BY <1>1, <1>2, <1>3, <1>4, <1>6, <1>7, TimerSet
<1>9. Inv BY <1>3, <1>5, <1>8 DEF IsSet, Inv
<1> QED BY <1>3, <1>8, <1>9 DEF IsSet

-----------------------------------------------------------------------------
(* The calls *)

\* The alarm clock sees the deadline of a timer that is running.
Alarm(tc, t) == IF Flag(tc, t) = TIMER_FLAGS_USING THEN Time(tc, t) ELSE -1
Alarms == Slots \ {sentinel}

\* These timers do not run any more, and for the others nothing changes.
Stops(tc, r, S) ==
  /\ S \subseteq Alarms \ {task_timer} /\ r.count = tc.count
  /\ \A t \in Alarms : Alarm(r, t) = IF t \in S THEN -1 ELSE Alarm(tc, t)

LEMMA TakeStep ==
  ASSUME Inv, NEW fifo \in Fifos, NEW f2 \in {0, 1}, timer_alloc(fifo, f2)
  PROVE  Inv' /\ Stops(timerctl, timerctl', {})
<1> USE SlotsAre
<1>1. Unused # {} /\ Unused \subseteq Nat BY DEF timer_alloc, Unused, Slots
<1>2. PICK m \in Unused : \A k \in Unused : m <= k BY <1>1, LeastExists
<1>3. PICK x : x = Min(Unused) OBVIOUS
<1>4. x \in Unused BY <1>2, <1>3 DEF Min
<1>5. x \in Slots /\ Flag(timerctl, x) = 0 BY <1>4 DEF Unused, Timers0, Flag
<1>6. Good(timerctl) BY DEF Inv
<1>7. PICK n, w : IsList(timerctl, n, w) BY <1>6 DEF Good
<1>8. Flag(timerctl, sentinel) = TIMER_FLAGS_USING
  <2>1. n \in 0..n /\ w[n] = sentinel BY <1>7 DEF IsList, Chain
  <2> QED BY <1>7, <2>1 DEF IsList, Running
<1>9. TIMER_FLAGS_ALLOC # TIMER_FLAGS_USING /\ 0 # TIMER_FLAGS_USING
  BY DEF TIMER_FLAGS_ALLOC, TIMER_FLAGS_USING
<1>10. x \in Slots \ {sentinel, task_timer} BY <1>5, <1>8, <1>9 DEF Inv
<1>11. timerctl' = Taken(timerctl, x, fifo, f2) BY <1>3 DEF timer_alloc, Taken
<1>12. IsTaken(timerctl, timerctl', x) BY <1>5, <1>6, <1>10, <1>11, TimerTaken
<1>13. Inv' BY <1>10, <1>12 DEF IsTaken, Inv
<1>14. Stops(timerctl, timerctl', {}) BY <1>5, <1>9, <1>12 DEF IsTaken, Stops, Alarm, Alarms
<1> QED BY <1>13, <1>14

LEMMA FreeStep ==
  ASSUME Inv, NEW x \in UserTimers, FreeTimer(x)
  PROVE  Inv' /\ Stops(timerctl, timerctl', {})
<1> USE SlotsAre
<1>1. Good(timerctl) /\ x \in Slots /\ x # task_timer BY DEF Inv, UserTimers
<1>2. TIMER_FLAGS_ALLOC # TIMER_FLAGS_USING /\ 0 # TIMER_FLAGS_USING
  BY DEF TIMER_FLAGS_ALLOC, TIMER_FLAGS_USING
<1>3. Flag(timerctl, x) # TIMER_FLAGS_USING /\ timerctl' = timer_free(timerctl, x)
  BY <1>2 DEF FreeTimer, Timers0, Flag
<1>4. IsKept(timerctl, timerctl', x, 0) BY <1>1, <1>3, TimerFreed
<1>5. Inv' BY <1>1, <1>4 DEF IsKept, Inv
<1>6. Stops(timerctl, timerctl', {}) BY <1>2, <1>3, <1>4 DEF IsKept, Stops, Alarm, Alarms
<1> QED BY <1>5, <1>6

LEMMA CancelStep ==
  ASSUME Inv, NEW x \in UserTimers, Cancel(x)
  PROVE  Inv' /\ Stops(timerctl, timerctl', {x})
<1> USE SlotsAre
<1>1. /\ Good(timerctl) /\ x \in Slots \ {sentinel} /\ x # task_timer
      /\ timerctl' = timer_cancel(timerctl, x)
  BY DEF Inv, UserTimers, Cancel
<1>2. TIMER_FLAGS_ALLOC # TIMER_FLAGS_USING BY DEF TIMER_FLAGS_ALLOC, TIMER_FLAGS_USING
<1>3. IsCancelled(timerctl, timerctl', x) BY <1>1, TimerCancelled
<1>4. Inv' BY <1>1, <1>3 DEF IsCancelled, Inv
<1>5. Stops(timerctl, timerctl', {x})
  BY <1>1, <1>2, <1>3 DEF IsCancelled, Stops, Alarm, Alarms
<1> QED BY <1>4, <1>5

LEMMA CancelAllStep ==
  ASSUME Inv, NEW fifo \in Fifos, CancelAll(fifo)
  PROVE  Inv' /\ \E S : Stops(timerctl, timerctl', S)
<1> USE SlotsAre
<1>1. Good(timerctl) /\ timerctl' = timer_cancelall(timerctl, fifo) BY DEF Inv, CancelAll
<1>2. IsCancelledTo(timerctl, timerctl', fifo, MAX_TIMER) BY <1>1, AllCancelled
<1>3. \A t \in Slots : t < MAX_TIMER BY DEF Slots
<1>4. 0 # TIMER_FLAGS_USING BY DEF TIMER_FLAGS_USING
<1>5. ~Mine(timerctl, task_timer, fifo) BY <1>1 DEF Good, TimesOK, Mine
<1>6. Inv' BY <1>2, <1>5 DEF IsCancelledTo, Inv
<1> DEFINE S == {t \in Alarms : Mine(timerctl, t, fifo)}
<1>7. Stops(timerctl, timerctl', S)
  BY <1>2, <1>3, <1>4, <1>5 DEF IsCancelledTo, Stops, Alarm, Alarms
<1> QED BY <1>6, <1>7

\* A timer that does not run gets a deadline.
Starts(tc, r, x, d) ==
  /\ r.count = tc.count /\ Alarm(tc, x) = -1
  /\ \A t \in Alarms : Alarm(r, t) = IF t = x THEN tc.count + d ELSE Alarm(tc, t)

LEMMA SetStep ==
  ASSUME Inv, NEW x \in UserTimers, NEW delay \in Delays, SetTime(x, delay)
  PROVE  Inv' /\ Starts(timerctl, timerctl', x, delay)
<1> USE SlotsAre
<1>1. /\ Good(timerctl) /\ timerctl \in Timerctl /\ TimesOK(timerctl)
      /\ x \in Slots \ {sentinel} /\ x # task_timer
  BY DEF Inv, Good, UserTimers
<1>2. TIMER_FLAGS_ALLOC # TIMER_FLAGS_USING BY DEF TIMER_FLAGS_ALLOC, TIMER_FLAGS_USING
<1>3. Flag(timerctl, x) # TIMER_FLAGS_USING /\ timerctl' = timer_settime(timerctl, x, delay)
  BY <1>2 DEF SetTime, Timers0, Flag
<1>4. PICK n, w : IsList(timerctl, n, w) BY <1>1 DEF Good
<1>5. PICK d : d = timerctl.count + delay OBVIOUS
<1>6. d = Deadline(timerctl, delay) /\ d \in Nat /\ d < Sentinel BY <1>5, DeadlineIs DEF Inv
<1>7. IsSet(timerctl, timerctl', x, d) BY <1>1, <1>3, <1>4, <1>6, TimerSet
<1>8. Inv' BY <1>1, <1>7 DEF IsSet, Inv
<1>9. Starts(timerctl, timerctl', x, delay)
  BY <1>3, <1>5, <1>7 DEF IsSet, Starts, Alarm, Alarms
<1> QED BY <1>8, <1>9

-----------------------------------------------------------------------------
(* The interrupt *)

\* The timer rings at the next tick.
IsDue(tc, t) == Flag(tc, t) = TIMER_FLAGS_USING /\ Time(tc, t) <= tc.count + 1

\* The k timers that are due ring, the earlier ones first; task_timer is set again.
Rings(tc, r, late, k) ==
  /\ r.count = tc.count + 1 /\ k \in Nat /\ late \in [1..k -> Alarms]
  /\ \A i, j \in 1..k : late[i] = late[j] => i = j
  /\ \A i, j \in 1..k : i < j => Time(tc, late[i]) <= Time(tc, late[j])
  /\ \A t \in Alarms : IsDue(tc, t) <=> \E i \in 1..k : late[i] = t
  /\ \E p \in Priorities :
       \A t \in Alarms :
          Alarm(r, t) = IF ~IsDue(tc, t) THEN Alarm(tc, t)
                        ELSE IF t = task_timer THEN tc.count + 1 + p ELSE -1

LEMMA TickStep ==
  ASSUME Inv, inthandler20
  PROVE  Inv' /\ \E k : Rings(timerctl, timerctl', sent', k)
<1> USE SlotsAre
<1>0. Good(timerctl) BY DEF Inv
<1>1. PICK c : c = timerctl.count + 1 OBVIOUS
<1>2. /\ c \in Nat /\ c \in 0..MaxCount /\ MaxCount < Sentinel
      /\ MaxCount \in Nat /\ Sentinel \in Nat /\ c < Sentinel
      /\ (timerctl.count + 1) % Radix = c
  <2>1. timerctl.count \in 0..MaxCount /\ timerctl.count < MaxCount BY DEF inthandler20, Inv
  <2>2. PICK p \in Priorities : TRUE BY DEF Inv
  <2>3. MaxCount \in Nat /\ Radix \in Nat /\ p \in Nat /\ MaxCount + p < Radix - 1
    BY TimerAssumption
  <2>4. c \in 0..MaxCount /\ c < Radix BY <1>1, <2>1, <2>3
  <2>5. c % Radix = c BY <2>3, <2>4
  <2> QED BY <1>1, <2>3, <2>4, <2>5 DEF Sentinel
<1>3. PICK tc : tc = CountUp(timerctl, c) OBVIOUS
<1>4. /\ Good(tc) /\ tc.count = c /\ tc.next = timerctl.next
      /\ \A t \in Slots : Time(tc, t) = Time(timerctl, t) /\ Flag(tc, t) = Flag(timerctl, t)
  BY <1>0, <1>2, <1>3, Counted
<1>5. tc \in Timerctl /\ TimesOK(tc) BY <1>4 DEF Good
<1>6. PICK n, w : IsList(tc, n, w) BY <1>4 DEF Good
<1>7. /\ n \in Nat /\ n < MAX_TIMER /\ w \in [0..n -> Slots] /\ Chain(tc, n, w)
      /\ \A i, j \in 0..n : w[i] = w[j] => i = j
      /\ w[0] = tc.t0 /\ w[n] = sentinel
      /\ tc.next = Time(tc, w[0])
      /\ \A i, j \in 0..n : i <= j => Time(tc, w[i]) <= Time(tc, w[j])
      /\ \A t \in Slots : Flag(tc, t) = TIMER_FLAGS_USING <=> \E i \in 0..n : w[i] = t
  BY <1>6 DEF IsList, Chain, Sorted, Running
<1>8. \A t \in Slots : Time(tc, t) \in Nat BY <1>5, FieldsTyped
<1> DEFINE Early == {t \in Slots : ~(Time(tc, t) <= c)}
           k == FirstOnList(tc, Early)
<1>9. sentinel \in Early /\ Early \subseteq Slots
  <2>1. Time(tc, sentinel) = Sentinel BY <1>5 DEF TimesOK
  <2> QED BY <1>2, <2>1
<1>10. k \in 0..n /\ w[k] \in Early /\ \A i \in 0..n : i < k => w[i] \notin Early
  <2> HIDE DEF Early
  <2> QED BY <1>7, <1>9, FirstExists
<1> DEFINE late == [i \in 1..k |-> Walk(tc)[i - 1]]
<1>11. \/ /\ tc.next > c /\ timerctl' = tc /\ sent' = <<>>
       \/ /\ tc.next <= c /\ sent' = late
          /\ \/ /\ Switches(late)
                /\ \E p \in Priorities : timerctl' = timer_settime(TimedOut(tc, k), task_timer, p)
             \/ /\ ~Switches(late)
                /\ timerctl' = TimedOut(tc, k)
  <2>1. tc = [timerctl EXCEPT !.count = (@ + 1) % Radix]
    BY <1>2, <1>3 DEF CountUp
  <2>2. k = FirstOnList(tc, {t \in Slots : ~IsLate(tc, t)}) BY <1>4 DEF IsLate, Time
  <2> HIDE DEF k
  <2> QED BY <1>4, <2>1, <2>2 DEF inthandler20
<1>12. \A i \in 0..n : i < k <=> Time(tc, w[i]) <= c
  <2>1. ASSUME NEW i \in 0..n, i < k PROVE Time(tc, w[i]) <= c
    <3>1. w[i] \in Slots /\ w[i] \notin Early BY <1>7, <1>10, <2>1
    <3> QED BY <3>1
  <2>2. ASSUME NEW i \in 0..n, k <= i PROVE ~(Time(tc, w[i]) <= c)
    <3>1. Time(tc, w[k]) <= Time(tc, w[i]) /\ w[k] \in Slots /\ w[i] \in Slots
      BY <1>7, <1>10, <2>2
    <3>2. ~(Time(tc, w[k]) <= c) BY <1>10
    <3> QED BY <1>2, <1>8, <3>1, <3>2
  <2>3. \A i \in 0..n : i < k \/ k <= i BY <1>10
  <2> HIDE DEF k
  <2> QED BY <2>1, <2>2, <2>3
<1>13. /\ k \in Nat /\ late \in [1..k -> Alarms]
       /\ \A i \in 1..k : late[i] = w[i - 1] /\ i - 1 \in 0..n /\ i - 1 < k
  <2>1. ASSUME NEW i \in 1..k PROVE /\ late[i] = w[i - 1] /\ i - 1 \in 0..n /\ i - 1 < k
                                    /\ w[i - 1] \in Slots \ {sentinel}
    <3> HIDE DEF k
    <3>1. i - 1 \in 0..n /\ i - 1 # n /\ i - 1 < k BY <1>7, <1>10
    <3>2. Walk(tc)[i - 1] = w[i - 1] BY <1>7, <3>1, WalkIs
    <3> QED BY <1>7, <3>1, <3>2
  <2> QED BY <1>10, <2>1 DEF Alarms
<1>14. \A t \in Slots : /\ Gone(w, k, t) <=> (\E i \in 1..k : late[i] = t)
                        /\ Gone(w, k, t) <=> IsDue(timerctl, t)
  <2> HIDE DEF k, late
  <2>0. k \in 0..n BY <1>10
  <2>1. ASSUME NEW t \in Slots, NEW i \in 0..(k - 1), w[i] = t
        PROVE  IsDue(timerctl, t) /\ \E j \in 1..k : late[j] = t
    <3>1. i \in 0..n /\ i < k /\ i + 1 \in 1..k /\ (i + 1) - 1 = i BY <1>7, <2>0
    <3>2. late[i + 1] = w[i] BY <1>13, <3>1
    <3>3. Time(tc, t) <= c /\ Flag(tc, t) = TIMER_FLAGS_USING BY <1>7, <1>12, <2>1, <3>1
    <3> QED BY <1>1, <1>4, <2>1, <3>1, <3>2, <3>3 DEF IsDue
  <2>2. ASSUME NEW t \in Slots, IsDue(timerctl, t) PROVE Gone(w, k, t)
    <3>1. Time(tc, t) <= c /\ Flag(tc, t) = TIMER_FLAGS_USING BY <1>1, <1>4, <2>2 DEF IsDue
    <3>2. PICK i \in 0..n : w[i] = t BY <1>7, <3>1
    <3>3. i < k BY <1>12, <3>1, <3>2
    <3>4. i \in 0..(k - 1) BY <2>0, <3>3
    <3> QED BY <3>2, <3>4 DEF Gone
  <2>3. ASSUME NEW t \in Slots, NEW j \in 1..k, late[j] = t PROVE Gone(w, k, t)
    <3>1. j - 1 \in 0..(k - 1) /\ w[j - 1] = t BY <1>13, <2>0, <2>3
    <3> QED BY <3>1 DEF Gone
  <2> QED BY <2>1, <2>2, <2>3 DEF Gone
<1>15. /\ \A i, j \in 1..k : late[i] = late[j] => i = j
       /\ \A i, j \in 1..k : i < j => Time(timerctl, late[i]) <= Time(timerctl, late[j])
       /\ \A t \in Alarms : IsDue(timerctl, t) <=> \E i \in 1..k : late[i] = t
  <2> HIDE DEF k, late
  <2>1. ASSUME NEW i \in 1..k, NEW j \in 1..k, late[i] = late[j] PROVE i = j
    BY <1>7, <1>10, <1>13, <2>1
  <2>2. ASSUME NEW i \in 1..k, NEW j \in 1..k, i < j
        PROVE  Time(timerctl, late[i]) <= Time(timerctl, late[j])
    <3>1. i - 1 <= j - 1 /\ i - 1 \in 0..n /\ j - 1 \in 0..n BY <1>7, <1>10, <1>13, <2>2
    <3>2. Time(tc, w[i - 1]) <= Time(tc, w[j - 1]) /\ w[i - 1] \in Slots /\ w[j - 1] \in Slots
      BY <1>7, <3>1
    <3> QED BY <1>4, <1>13, <3>2
  <2>3. ASSUME NEW t \in Alarms PROVE IsDue(timerctl, t) <=> \E i \in 1..k : late[i] = t
    BY <1>14 DEF Alarms
  <2> QED BY <2>1, <2>2, <2>3
<1>16. TIMER_FLAGS_ALLOC # TIMER_FLAGS_USING BY DEF TIMER_FLAGS_ALLOC, TIMER_FLAGS_USING
<1>17. Switches(late) <=> Gone(w, k, task_timer)
  <2>1. DOMAIN late = 1..k OBVIOUS
  <2> HIDE DEF k, late
  <2> QED BY <1>14, <2>1 DEF Switches, Gone
<1> HIDE DEF k, late, Early
<1>18. CASE tc.next > c
  <2>1. timerctl' = tc /\ sent' = <<>> BY <1>2, <1>11, <1>18, <1>5, FieldsTyped
  <2>2. k = 0
    <3>1. 0 \in 0..n /\ ~(Time(tc, w[0]) <= c) BY <1>2, <1>5, <1>7, <1>18, FieldsTyped
    <3> QED BY <1>10, <1>12, <3>1
  <2>3. sent' \in [1..k -> Alarms] BY <2>1, <2>2
  <2>4. \A t \in Alarms : ~IsDue(timerctl, t) BY <1>15, <2>2
  <2>5. \A t \in Alarms : Alarm(tc, t) = Alarm(timerctl, t) BY <1>4 DEF Alarm, Alarms
  <2>6. PICK p \in Priorities : TRUE BY DEF Inv
  <2>7. Rings(timerctl, timerctl', sent', k)
    BY <1>1, <1>4, <2>1, <2>2, <2>3, <2>4, <2>5, <2>6 DEF Rings
  <2>8. Inv' BY <1>2, <1>4, <2>1 DEF Inv
  <2> QED BY <2>7, <2>8
<1>19. CASE tc.next <= c
  <2>1. sent' = late BY <1>2, <1>5, <1>11, <1>19, FieldsTyped
  <2>2. PICK u : u = TimedOut(tc, k) OBVIOUS
  <2>3. IsTimedOut(tc, u, w, k) BY <1>5, <1>6, <1>10, <2>2, ListTimedOut
  <2>4. Good(u) /\ u \in Timerctl /\ TimesOK(u) /\ u.count = c
    BY <1>4, <2>3 DEF IsTimedOut, Good
  <2>5. \A t \in Slots :
          /\ Time(u, t) = Time(timerctl, t)
          /\ IsDue(timerctl, t) => Flag(u, t) = TIMER_FLAGS_ALLOC
          /\ ~IsDue(timerctl, t) => Flag(u, t) = Flag(timerctl, t)
    <3>1. ASSUME NEW t \in Slots
          PROVE  /\ Time(u, t) = Time(timerctl, t)
                 /\ IsDue(timerctl, t) => Flag(u, t) = TIMER_FLAGS_ALLOC
                 /\ ~IsDue(timerctl, t) => Flag(u, t) = Flag(timerctl, t)
      <4>1. /\ Time(u, t) = Time(tc, t)
            /\ Flag(u, t) = IF Gone(w, k, t) THEN TIMER_FLAGS_ALLOC ELSE Flag(tc, t)
        BY <2>3 DEF IsTimedOut
      <4>2. Gone(w, k, t) <=> IsDue(timerctl, t) BY <1>14
      <4> QED BY <1>4, <4>1, <4>2
    <3> QED BY <3>1
  <2>6. CASE Switches(late)
    <3>1. PICK p \in Priorities : timerctl' = timer_settime(u, task_timer, p)
      BY <1>2, <1>5, <1>11, <1>19, <2>2, <2>6, FieldsTyped
    <3>2. PICK d : d = u.count + p OBVIOUS
    <3>3. d = Deadline(u, p) /\ d \in Nat /\ d < Sentinel BY <1>2, <2>4, <3>2, DeadlineIs
    <3>4. IsDue(timerctl, task_timer) BY <1>14, <1>17, <2>6 DEF IsDue
    <3>5. Flag(u, task_timer) # TIMER_FLAGS_USING BY <1>16, <2>5, <3>4
    <3>6. PICK m, v : IsList(u, m, v) BY <2>4 DEF Good
    <3>7. task_timer \in Slots \ {sentinel} OBVIOUS
    <3>8. IsSet(u, timerctl', task_timer, d)
      BY <2>4, <3>1, <3>3, <3>5, <3>6, <3>7, TimerSet
    <3>9. ASSUME NEW t \in Alarms
          PROVE  Alarm(timerctl', t) = IF ~IsDue(timerctl, t) THEN Alarm(timerctl, t)
                                       ELSE IF t = task_timer THEN timerctl.count + 1 + p ELSE -1
      <4>1. CASE t = task_timer BY <1>1, <2>4, <3>2, <3>4, <3>8, <4>1 DEF IsSet, Alarm
      <4>2. CASE t # task_timer
        <5>1. t \in Slots BY DEF Alarms
        <5>2. Time(timerctl', t) = Time(u, t) /\ Flag(timerctl', t) = Flag(u, t)
          BY <3>8, <4>2, <5>1 DEF IsSet
        <5>3. CASE IsDue(timerctl, t) BY <1>16, <2>5, <4>2, <5>1, <5>2, <5>3 DEF Alarm
        <5>4. CASE ~IsDue(timerctl, t) BY <2>5, <4>2, <5>1, <5>2, <5>4 DEF Alarm
        <5> QED BY <5>3, <5>4
      <4> QED BY <4>1, <4>2
    <3>10. timerctl'.count = timerctl.count + 1 BY <1>1, <2>4, <3>8 DEF IsSet
    <3>11. Rings(timerctl, timerctl', sent', k)
      BY <1>13, <1>15, <2>1, <3>9, <3>10 DEF Rings
    <3>12. Inv' BY <1>2, <2>4, <3>8 DEF IsSet, Inv
    <3> QED BY <3>11, <3>12
  <2>7. CASE ~Switches(late)
    <3>1. timerctl' = u BY <1>2, <1>5, <1>11, <1>19, <2>2, <2>7, FieldsTyped
    <3>2. ~IsDue(timerctl, task_timer) BY <1>14, <1>17, <2>7
    <3>3. PICK p \in Priorities : TRUE BY DEF Inv
    <3>4. ASSUME NEW t \in Alarms
          PROVE  Alarm(timerctl', t) = IF ~IsDue(timerctl, t) THEN Alarm(timerctl, t)
                                       ELSE IF t = task_timer THEN timerctl.count + 1 + p ELSE -1
      <4>1. t \in Slots BY DEF Alarms
      <4>2. CASE IsDue(timerctl, t) BY <1>16, <2>5, <3>1, <3>2, <4>1, <4>2 DEF Alarm
      <4>3. CASE ~IsDue(timerctl, t) BY <2>5, <3>1, <4>1, <4>3 DEF Alarm
      <4> QED BY <4>2, <4>3
    <3>5. timerctl'.count = timerctl.count + 1 BY <1>1, <2>4, <3>1
    <3>6. Rings(timerctl, timerctl', sent', k)
      BY <1>13, <1>15, <2>1, <3>4, <3>5 DEF Rings
    <3>7. Inv' BY <1>2, <2>4, <2>5, <3>1, <3>2 DEF Inv
    <3> QED BY <3>6, <3>7
  <2> QED BY <2>6, <2>7
<1> QED BY <1>2, <1>5, <1>18, <1>19, FieldsTyped

-----------------------------------------------------------------------------
(* The theorems *)

LEMMA InvImpliesListOK == Inv => ListOK
<1> SUFFICES ASSUME Inv PROVE ListOK OBVIOUS
<1> USE SlotsAre
<1>1. timerctl \in Timerctl BY DEF Inv, Good
<1>2. PICK n, w : IsList(timerctl, n, w) BY DEF Inv, Good
<1>3. /\ n \in Nat /\ n \in 0..(MAX_TIMER - 1) /\ w \in [0..n -> Slots] /\ Chain(timerctl, n, w)
      /\ w[0] = timerctl.t0 /\ w[n] = sentinel /\ Next0(timerctl, sentinel) = NULL
      /\ timerctl.next = Time(timerctl, w[0])
      /\ \A i, j \in 0..n : i <= j => Time(timerctl, w[i]) <= Time(timerctl, w[j])
      /\ \A t \in Slots : Flag(timerctl, t) = TIMER_FLAGS_USING <=> \E i \in 0..n : w[i] = t
  BY <1>2 DEF IsList, Chain, Sorted, Running
<1>4. \A i \in 0..n : Walk(timerctl)[i] = w[i] BY <1>3, WalkIs
<1>5. \A i \in (n + 1)..MAX_TIMER : Walk(timerctl)[i] = NULL BY <1>3, WalkIs
<1>6. \A i \in 0..n : TimeOf(i) = Time(timerctl, w[i]) BY <1>4 DEF TimeOf, Timers0, Time
<1>7. ListInOrder
  <2>1. Walk(timerctl)[n] = sentinel /\ timerctl.next = TimeOf(0) BY <1>3, <1>4, <1>6
  <2>2. Timers0(sentinel).next = NULL BY <1>3 DEF Timers0, Next0
  <2>3. ASSUME NEW i \in 0..(n - 1) PROVE TimeOf(i) <= TimeOf(i + 1)
    <3>1. i \in 0..n /\ i + 1 \in 0..n /\ i <= i + 1 BY <1>3
    <3> QED BY <1>3, <1>6, <3>1
  <2> QED BY <1>3, <2>1, <2>2, <2>3 DEF ListInOrder
<1>8. ListIsRunning
  <2>1. ASSUME NEW t, t \in OnList PROVE t \in Slots /\ Timers0(t).flags = TIMER_FLAGS_USING
    <3>1. PICK i \in 0..MAX_TIMER : Walk(timerctl)[i] = t /\ t # NULL BY <2>1 DEF OnList
    <3>2. i \in 0..n BY <1>3, <1>5, <3>1
    <3> QED BY <1>3, <1>4, <3>1, <3>2 DEF Timers0, Flag
  <2>2. ASSUME NEW t \in Slots, Timers0(t).flags = TIMER_FLAGS_USING PROVE t \in OnList
    <3>1. PICK i \in 0..n : w[i] = t BY <1>3, <2>2 DEF Timers0, Flag
    <3>2. i \in 0..MAX_TIMER /\ Walk(timerctl)[i] = t /\ t # NULL BY <1>3, <1>4, <3>1
    <3> QED BY <3>2 DEF OnList
  <2> QED BY <2>1, <2>2 DEF ListIsRunning
<1> QED BY <1>7, <1>8 DEF ListOK

LEMMA InvKept == Inv /\ [Next]_vars => Inv'
<1> SUFFICES ASSUME Inv, [Next]_vars PROVE Inv' OBVIOUS
<1>1. CASE inthandler20 BY <1>1, TickStep
<1>2. ASSUME NEW fifo \in Fifos, CancelAll(fifo) PROVE Inv' BY <1>2, CancelAllStep
<1>3. ASSUME NEW fifo \in Fifos, NEW f2 \in {0, 1}, timer_alloc(fifo, f2) PROVE Inv'
  BY <1>3, TakeStep
<1>4. ASSUME NEW x \in UserTimers, Cancel(x) PROVE Inv' BY <1>4, CancelStep
<1>5. ASSUME NEW x \in UserTimers, FreeTimer(x) PROVE Inv' BY <1>5, FreeStep
<1>6. ASSUME NEW x \in UserTimers, NEW delay \in Delays, SetTime(x, delay) PROVE Inv'
  BY <1>6, SetStep
<1>7. CASE UNCHANGED vars BY <1>7 DEF vars, Inv
<1> QED BY <1>1, <1>2, <1>3, <1>4, <1>5, <1>6, <1>7 DEF Next

LEMMA Invariance == Spec => []Inv
<1>1. Init => Inv BY InitIs
<1> QED BY <1>1, InvKept, PTL DEF Spec

\* The list of timer.c is always one that the interrupt can rely on: it is in
\* order, it ends with the sentinel, timerctl.next is the time of its first
\* timer, and the timers on it are the ones that are running.
THEOREM ListStaysOK == Spec => []ListOK
BY Invariance, InvImpliesListOK, PTL

\* The deadlines of the alarm clock are the alarms of the list.
DeadlineMap ==
  [t \in Slots \ {sentinel} |->
     IF Timers0(t).flags = TIMER_FLAGS_USING THEN Timers0(t).timeout ELSE -1]

LEMMA DeadlinesAre ==
  /\ DeadlineMap = [t \in Alarms |-> Alarm(timerctl, t)]
  /\ DeadlineMap' = [t \in Alarms |-> Alarm(timerctl', t)]
BY DEF DeadlineMap, Alarms, Alarm, Timers0, Flag, Time

LEMMA InitRefines == ASSUME Init PROVE Clock!Init
<1> USE SlotsAre
<1>1. PICK p \in Priorities :
        \A t \in Slots \ {sentinel} :
           IF t = task_timer
             THEN Flag(timerctl, t) = TIMER_FLAGS_USING /\ Time(timerctl, t) = p
             ELSE Flag(timerctl, t) # TIMER_FLAGS_USING
  BY InitIs
<1>2. \A t \in Alarms : Alarm(timerctl, t) = IF t = task_timer THEN p ELSE -1
  BY <1>1 DEF Alarms, Alarm
<1>3. DeadlineMap = [t \in Slots \ {sentinel} |-> IF t = task_timer THEN p ELSE -1]
  BY <1>2, DeadlinesAre DEF Alarms
<1>4. timerctl.count = 0 /\ sent = <<>>
  <2>1. PICK q \in Priorities : timerctl = timer_settime(Empty, task_timer, q)
    BY DEF Init, Empty
  <2>2. sent = <<>> BY DEF Init
  <2>3. MaxCount \in Nat /\ q \in Delays \cup Priorities /\ q \in Nat /\ Sentinel \in Nat
    BY TimerAssumption DEF Sentinel
  <2>4. /\ Empty \in Timerctl /\ TimesOK(Empty) /\ Empty.count = 0
        /\ Flag(Empty, task_timer) # TIMER_FLAGS_USING
    BY <2>3, EmptyIsGood
  <2>5. PICK n, w : IsList(Empty, n, w) BY <2>3, EmptyIsGood
  <2>6. Empty.count \in 0..MaxCount BY <2>3, <2>4
  <2>7. q = Deadline(Empty, q) /\ q < Sentinel BY <2>3, <2>4, <2>6, DeadlineIs
  <2>8. task_timer \in Slots \ {sentinel} OBVIOUS
  <2>9. IsSet(Empty, timerctl, task_timer, q)
    BY <2>1, <2>3, <2>4, <2>5, <2>7, <2>8, TimerSet
  <2> QED BY <2>2, <2>4, <2>9 DEF IsSet
<1> QED BY <1>3, <1>4 DEF Clock!Init, DeadlineMap

LEMMA StopRefines ==
  ASSUME NEW S, Stops(timerctl, timerctl', S), sent' = <<>>
  PROVE  Clock!Next
<1>1. /\ S \in SUBSET ((Slots \ {sentinel}) \ {task_timer}) /\ timerctl'.count = timerctl.count
      /\ \A t \in Alarms : Alarm(timerctl', t) = IF t \in S THEN -1 ELSE Alarm(timerctl, t)
  BY DEF Stops, Alarms
<1>2. DeadlineMap' = [t \in Slots \ {sentinel} |-> IF t \in S THEN -1 ELSE DeadlineMap[t]]
  BY <1>1, DeadlinesAre DEF Alarms
<1>3. Clock!Cancel(S) BY <1>1, <1>2 DEF Clock!Cancel, DeadlineMap
<1> QED BY <1>1, <1>3 DEF Clock!Next

LEMMA StartRefines ==
  ASSUME NEW x \in UserTimers, NEW delay \in Delays, Starts(timerctl, timerctl', x, delay),
         sent' = <<>>
  PROVE  Clock!Next
<1>1. /\ x \in Slots \ {sentinel} /\ timerctl'.count = timerctl.count
      /\ Alarm(timerctl, x) = -1
      /\ \A t \in Alarms :
           Alarm(timerctl', t) = IF t = x THEN timerctl.count + delay ELSE Alarm(timerctl, t)
  BY DEF Starts, UserTimers
<1>2. DeadlineMap[x] = -1 BY <1>1, DeadlinesAre DEF Alarms
<1>3. DeadlineMap' = [DeadlineMap EXCEPT ![x] = timerctl.count + delay]
  BY <1>1, DeadlinesAre DEF Alarms
<1>4. Clock!Set(x, delay) BY <1>1, <1>2, <1>3 DEF Clock!Set, DeadlineMap
<1> QED BY <1>1, <1>4 DEF Clock!Next

LEMMA RingRefines ==
  ASSUME Inv, NEW k, Rings(timerctl, timerctl', sent', k)
  PROVE  Clock!Next
<1> USE SlotsAre
<1>1. /\ timerctl'.count = timerctl.count + 1 /\ k \in Nat /\ sent' \in [1..k -> Alarms]
      /\ \A i, j \in 1..k : sent'[i] = sent'[j] => i = j
      /\ \A i, j \in 1..k : i < j => Time(timerctl, sent'[i]) <= Time(timerctl, sent'[j])
      /\ \A t \in Alarms : IsDue(timerctl, t) <=> \E i \in 1..k : sent'[i] = t
  BY DEF Rings
<1>2. PICK p \in Priorities :
        \A t \in Alarms :
           Alarm(timerctl', t) = IF ~IsDue(timerctl, t) THEN Alarm(timerctl, t)
                                 ELSE IF t = task_timer THEN timerctl.count + 1 + p ELSE -1
  BY DEF Rings
<1>3. timerctl.count \in Nat /\ \A t \in Slots : Time(timerctl, t) \in Nat
  BY FieldsTyped DEF Inv, Good
<1> DEFINE Due == {t \in Alarms : IsDue(timerctl, t)}
<1>4. Clock!Due = Due
  <2>1. \A t \in Alarms : DeadlineMap[t] = Alarm(timerctl, t) BY DeadlinesAre
  <2>2. ASSUME NEW t \in Alarms
        PROVE  DeadlineMap[t] # -1 /\ DeadlineMap[t] <= timerctl.count + 1 <=> IsDue(timerctl, t)
    <3>1. Time(timerctl, t) \in Nat BY <1>3 DEF Alarms
    <3> QED BY <2>1, <3>1 DEF Alarm, IsDue
  <2>3. Clock!Due = {t \in Alarms : DeadlineMap[t] # -1 /\ DeadlineMap[t] <= timerctl.count + 1}
    BY DEF Clock!Due, DeadlineMap, Alarms
  <2> QED BY <2>2, <2>3
<1>5. Cardinality(Due) = k
  <2>1. PICK f : f = sent' OBVIOUS
  <2>2. f \in [1..k -> Due] BY <1>1, <2>1
  <2>3. \A i, j \in 1..k : f[i] = f[j] => i = j BY <1>1, <2>1
  <2>4. \A t \in Due : \E i \in 1..k : f[i] = t BY <1>1, <2>1
  <2> HIDE DEF Due
  <2>5. f \in Bijection(1..k, Due)
    BY <2>2, <2>3, <2>4 DEF Bijection, Injection, Surjection, IsInjective
  <2>6. IsFiniteSet(1..k) /\ Cardinality(1..k) = k BY <1>1, FS_Interval
  <2>7. ExistsBijection(1..k, Due) BY <2>5 DEF ExistsBijection
  <2> QED BY <2>6, <2>7, FS_Bijection
<1>6. sent' \in [1..Cardinality(Clock!Due) -> Slots \ {sentinel}]
  BY <1>1, <1>4, <1>5 DEF Alarms
<1>7. Clock!InOrder(sent')
  <2>1. DOMAIN sent' = 1..k BY <1>1
  <2>2. {sent'[i] : i \in DOMAIN sent'} = Due BY <1>1, <2>1
  <2>3. ASSUME NEW i \in 1..k, NEW j \in 1..k, i < j
        PROVE  DeadlineMap[sent'[i]] <= DeadlineMap[sent'[j]]
    <3>1. sent'[i] \in Due /\ sent'[j] \in Due BY <1>1
    <3>2. /\ DeadlineMap[sent'[i]] = Time(timerctl, sent'[i])
          /\ DeadlineMap[sent'[j]] = Time(timerctl, sent'[j])
      BY <3>1, DeadlinesAre DEF IsDue, Alarm
    <3> QED BY <1>1, <2>3, <3>2
  <2> HIDE DEF Due
  <2> QED BY <1>4, <2>1, <2>2, <2>3 DEF Clock!InOrder, DeadlineMap
<1>8. DeadlineMap' = [t \in Slots \ {sentinel} |->
                       IF t \notin Due THEN DeadlineMap[t]
                       ELSE IF t = task_timer THEN timerctl'.count + p ELSE -1]
  <2>1. ASSUME NEW t \in Alarms
        PROVE  Alarm(timerctl', t) = IF t \notin Due THEN DeadlineMap[t]
                                     ELSE IF t = task_timer THEN timerctl'.count + p ELSE -1
    BY <1>1, <1>2, DeadlinesAre
  <2> HIDE DEF Due
  <2> QED BY <2>1, DeadlinesAre DEF Alarms
<1> HIDE DEF Due
<1>9. Clock!Tick
  <2>1. DeadlineMap' = [t \in Slots \ {sentinel} |->
                         IF t \notin Clock!Due THEN DeadlineMap[t]
                         ELSE IF t = task_timer THEN timerctl'.count + p ELSE -1]
    BY <1>4, <1>8
  <2>2. Clock!Cardinality(Clock!Due) = Cardinality(Clock!Due)
    BY DEF Clock!Cardinality, Cardinality
  <2> QED BY <1>1, <1>2, <1>6, <1>7, <2>1, <2>2 DEF Clock!Tick, DeadlineMap
<1> QED BY <1>9 DEF Clock!Next

\* timer.c implements the alarm clock: each timer that is set rings once, at
\* the first tick at which its time has come, unless it is cancelled; those of
\* one tick ring in the order of their times; and the scheduler's timer is set
\* again by the tick that makes it ring.
THEOREM IsAnAlarmClock == Spec => ImplementsClock
<1>1. Init => Clock!Init BY InitRefines
<1>2. Inv /\ [Next]_vars => [Clock!Next]_(Clock!vars)
  <2> SUFFICES ASSUME Inv, [Next]_vars PROVE [Clock!Next]_(Clock!vars) OBVIOUS
  <2>1. CASE inthandler20 BY <2>1, TickStep, RingRefines
  <2>2. ASSUME NEW fifo \in Fifos, CancelAll(fifo) PROVE Clock!Next
    BY <2>2, CancelAllStep, StopRefines DEF CancelAll
  <2>3. ASSUME NEW fifo \in Fifos, NEW f2 \in {0, 1}, timer_alloc(fifo, f2) PROVE Clock!Next
    BY <2>3, TakeStep, StopRefines DEF timer_alloc
  <2>4. ASSUME NEW x \in UserTimers, Cancel(x) PROVE Clock!Next
    BY <2>4, CancelStep, StopRefines DEF Cancel
  <2>5. ASSUME NEW x \in UserTimers, FreeTimer(x) PROVE Clock!Next
    BY <2>5, FreeStep, StopRefines DEF FreeTimer
  <2>6. ASSUME NEW x \in UserTimers, NEW delay \in Delays, SetTime(x, delay) PROVE Clock!Next
    BY <2>6, SetStep, StartRefines DEF SetTime
  <2>7. CASE UNCHANGED vars BY <2>7 DEF vars, Clock!vars, Timers0
  <2> QED BY <2>1, <2>2, <2>3, <2>4, <2>5, <2>6, <2>7 DEF Next
<1> QED BY <1>1, <1>2, Invariance, PTL DEF Spec, ImplementsClock, Clock!Spec

=============================================================================
